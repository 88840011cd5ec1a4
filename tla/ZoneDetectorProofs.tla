------------------------- MODULE ZoneDetectorProofs -------------------------
(***************************************************************************)
(* What holds of the zone detector for every catalog, every geometry and   *)
(* every stream of fixes whose timestamps do not go back.                  *)
(***************************************************************************)
EXTENDS ZoneDetector, TLAPS

(* A fix of the stream is typed and not older than the previous one. *)
LEMMA NextFixTyped ==
  ASSUME now \in Nat, NEW fix \in NextFixes
  PROVE  fix \in Fix /\ fix.t >= now
  BY StreamAssumption DEF StreamAssumption, NextFixes, Fix

LEMMA HalfProduct ==
  ASSUME NEW a \in Nat, NEW b \in Nat
  PROVE  (a * b) \div 2 \in Nat
<1>1. a * b \in Nat
  OBVIOUS
<1>2. \A n \in Nat : n \div 2 \in Nat
  OBVIOUS
<1>3. QED BY <1>1, <1>2

(* The integrator only ever adds. *)
LEMMA TravelSinceNat ==
  ASSUME NEW prev \in Fix \cup {None}, NEW fix \in Fix,
         prev # None => prev.t <= fix.t,
         NEW a \in Nat, NEW b \in Nat
  PROVE  TravelSince(prev, fix, a, b) \in Nat
<1>1. CASE prev = None
  BY <1>1 DEF TravelSince
<1>2. CASE prev # None
  <2>1. prev.speed \in Nat /\ prev.t \in Nat /\ prev.t <= fix.t
    BY <1>2, StreamAssumption DEF StreamAssumption, Fix
  <2>2. fix.speed \in Nat /\ fix.t \in Nat
    BY StreamAssumption DEF StreamAssumption, Fix
  <2>3. prev.speed + fix.speed \in Nat /\ fix.t - prev.t \in Nat
    BY <2>1, <2>2
  <2>4. ((prev.speed + fix.speed) * (fix.t - prev.t)) \div 2 \in Nat
    BY <2>3, HalfProduct
  <2>5. QED BY <1>2, <2>4 DEF TravelSince, Larger
<1>3. QED BY <1>1, <1>2

(* The average a report carries is typed. *)
LEMMA CalculateTyped ==
  ASSUME NEW e \in Nat, NEW t \in Nat, NEW s \in Nat, NEW d \in Nat
  PROVE  Calculate(e, t, s, d) \in Average
<1> DEFINE active == Larger(t - e - s, 0)
<1>1. active \in Nat
  BY DEF Larger
<1>2. CASE active >= 1
  BY <1>1, <1>2 DEF Calculate, Average
<1>3. CASE ~(active >= 1)
  BY <1>3 DEF Calculate, Average
<1>4. QED BY <1>2, <1>3

(* Closing a stop keeps the excluded time inside the traversal. *)
LEMMA FinalizeStopTyped ==
  ASSUME NEW tr \in Track, NEW time \in Nat,
         tr.stopStart # None => tr.stopStart <= time,
         tr.entryTime + tr.stopped
           <= (IF tr.stopStart = None THEN time ELSE tr.stopStart)
  PROVE  LET final == FinalizeStop(tr, time)
         IN /\ final \in Track
            /\ final.stopStart = None
            /\ final.zone = tr.zone /\ final.entryTime = tr.entryTime
            /\ final.entryTime + final.stopped <= time
<1>1. CASE tr.stopStart = None
  BY <1>1 DEF FinalizeStop, Track
<1>2. CASE tr.stopStart # None
  <2>1. /\ tr.stopStart \in Nat /\ tr.entryTime \in Nat /\ tr.stopped \in Nat
        /\ tr.stopStart <= time
        /\ tr.entryTime + tr.stopped <= tr.stopStart
    BY <1>2 DEF Track
  <2>2. CASE time - tr.stopStart >= STOP_DURATION
    <3>1. FinalizeStop(tr, time)
            = [tr EXCEPT !.stopped = @ + (time - tr.stopStart),
                         !.stopStart = None]
      BY <1>2, <2>2 DEF FinalizeStop
    <3>2. tr.stopped + (time - tr.stopStart) \in Nat
      BY <2>1
    <3>3. tr.entryTime + (tr.stopped + (time - tr.stopStart)) <= time
      BY <2>1
    <3>4. QED BY <3>1, <3>2, <3>3 DEF Track
  <2>3. CASE ~(time - tr.stopStart >= STOP_DURATION)
    <3>1. FinalizeStop(tr, time)
            = [tr EXCEPT !.stopped = tr.stopped, !.stopStart = None]
      BY <1>2, <2>3 DEF FinalizeStop
    <3>2. tr.entryTime + tr.stopped <= time
      BY <2>1
    <3>3. QED BY <2>1, <3>1, <3>2 DEF Track
  <2>4. QED BY <2>2, <2>3
<1>3. QED BY <1>1, <1>2

(* So does the stop bookkeeping of an in-zone fix. *)
LEMMA UpdateStopTrackingTyped ==
  ASSUME NEW tr \in Track, NEW fix \in Fix,
         tr.stopStart # None => tr.stopStart <= fix.t,
         tr.entryTime + tr.stopped <= fix.t,
         tr.entryTime + tr.stopped
           <= (IF tr.stopStart = None THEN fix.t ELSE tr.stopStart)
  PROVE  LET next == UpdateStopTracking(tr, fix)
         IN /\ next \in Track
            /\ next.zone = tr.zone /\ next.entryTime = tr.entryTime
            /\ next.stopStart # None => next.stopStart <= fix.t
            /\ next.entryTime + next.stopped
                 <= (IF next.stopStart = None THEN fix.t ELSE next.stopStart)
<1>1. fix.t \in Nat
  BY DEF Fix
<1>2. CASE fix.speed < STOP_SPEED
  BY <1>1, <1>2 DEF UpdateStopTracking, Track
<1>3. CASE ~(fix.speed < STOP_SPEED)
  BY <1>1, <1>3, FinalizeStopTyped DEF UpdateStopTracking
<1>4. QED BY <1>2, <1>3

-----------------------------------------------------------------------------
(* The stored timestamps are in order: nothing the detector remembers is
   newer than the latest fix, and a candidate is not older than the exit
   before it.                                                              *)
ClockOK ==
  /\ lastPoint # None => lastPoint.t = now
  /\ track.stopStart # None => track.stopStart <= now
  /\ track.entryTime + track.stopped
       <= (IF track.stopStart = None THEN now ELSE track.stopStart)
  /\ pendingEntry # None => pendingEntry.entryTime <= now
  /\ lastExit # None => lastExit.at <= now
  /\ lastExit # None /\ pendingEntry # None =>
       lastExit.at <= pendingEntry.entryTime

(* The inductive invariant. *)
IInv ==
  /\ TypeOK
  /\ StateMatchesTrack
  /\ ClockOK
  /\ TraversalsDisjoint
  /\ CandidateIsCurrent
  /\ OfferIsLatestExit

LEMMA ArcTyped ==
  ASSUME NEW z \in Zones, NEW p \in Places
  PROVE  Arc[z][p] \in Nat
  BY GeometryAssumption DEF GeometryAssumption, Metres

(* What the next fix makes of a candidate. *)
LEMMA CandidateFacts ==
  ASSUME IInv, NEW fix \in NextFixes, NEW open, open \in {pendingEntry, None},
         NEW zone \in Zones, NEW arc \in Nat
  PROVE  LET candidate == AdvancePendingEntry(open, fix, zone, arc)
         IN /\ candidate \in Candidate
            /\ candidate.zone = zone
            /\ candidate.lastTime = fix.t /\ candidate.lastArc = arc
            /\ candidate.entryTime <= fix.t
            /\ lastExit # None => lastExit.at <= candidate.entryTime
            /\ \/ candidate.fixes = 1 /\ candidate.entryTime = fix.t
               \/ /\ open # None /\ open = pendingEntry
                  /\ open.zone = zone
                  /\ fix.t - open.lastTime <= ENTRY_CONFIRM_TIMEOUT
                  /\ candidate.entryTime = open.entryTime
                  /\ candidate.entryArc = open.entryArc
<1> USE DEF IInv
<1>1. fix \in Fix /\ fix.t >= now /\ fix.t \in Nat /\ now \in Nat
  BY NextFixTyped DEF TypeOK, Fix
<1> DEFINE continues == /\ open # None /\ open.zone = zone
                        /\ fix.t - open.lastTime <= ENTRY_CONFIRM_TIMEOUT
<1>2. CASE continues
  <2>1. open = pendingEntry /\ open \in Candidate
    BY <1>2 DEF TypeOK
  <2>2. /\ open.entryTime \in Nat /\ open.entryArc \in Nat
        /\ open.fixes \in Nat /\ open.lastArc \in Nat /\ open.distance \in Nat
    BY <2>1 DEF Candidate
  <2> DEFINE fixes == Smaller(open.fixes + 1, ENTRY_CONFIRM_FIXES)
             travel == TravelSince(lastPoint, fix, open.lastArc, arc)
  <2>3. fixes \in Nat
    BY <2>2, ThresholdAssumption DEF ThresholdAssumption, Smaller
  <2>4. travel \in Nat
    BY <1>1, <2>2, TravelSinceNat DEF TypeOK, ClockOK
  <2>5. open.entryTime <= fix.t
    BY <1>1, <1>2, <2>1, <2>2 DEF ClockOK
  <2>6. AdvancePendingEntry(open, fix, zone, arc)
          = [open EXCEPT !.fixes = fixes, !.distance = @ + travel,
                         !.lastArc = arc, !.lastTime = fix.t]
    BY <1>2 DEF AdvancePendingEntry
  <2> HIDE DEF fixes, travel
  <2>7. open.distance + travel \in Nat
    BY <2>2, <2>4
  <2>8. lastExit # None => lastExit.at <= open.entryTime
    BY <1>2, <2>1 DEF ClockOK
  <2>9. QED BY <1>1, <1>2, <2>1, <2>2, <2>3, <2>5, <2>6, <2>7, <2>8
            DEF Candidate
<1>3. CASE ~continues
  <2>1. AdvancePendingEntry(open, fix, zone, arc)
          = [zone |-> zone, entryTime |-> fix.t, entryArc |-> arc,
             fixes |-> 1, lastTime |-> fix.t, lastArc |-> arc,
             distance |-> 0]
    BY <1>3 DEF AdvancePendingEntry
  <2>2. lastExit # None => lastExit.at <= fix.t
    <3>1. lastExit # None => lastExit.at \in Nat /\ lastExit.at <= now
      BY DEF TypeOK, ClockOK, Exit
    <3>2. QED BY <1>1, <3>1
  <2>3. QED BY <1>1, <2>1, <2>2 DEF Candidate
<1>4. QED BY <1>2, <1>3

-----------------------------------------------------------------------------
LEMMA MatchIsZone ==
  ASSUME NEW p, NEW zone \in FindMatchingZone(p)
  PROVE  zone \in Zones
  BY DEF FindMatchingZone

(* The reset bookkeeping is typed and holds no stop. *)
LEMMA NoTrackTyped ==
  /\ NoTrack \in Track /\ NoTrack.stopStart = None /\ NoTrack.zone = None
  /\ NoTrack.entryTime = 0 /\ NoTrack.stopped = 0
  BY DEF NoTrack, Track

(* A live offer is the stored one. *)
LEMMA LiveOfferIsOffer ==
  ASSUME NEW fix
  PROVE  LiveOffer(fix) \in {handover, None}
  BY DEF LiveOffer

(* Outside a zone, and on the fix after an exit, a fix preserves the
   invariant.                                                              *)
LEMMA StayOutsideStep ==
  ASSUME IInv, NEW fix \in NextFixes, NEW candidate,
         StayOutside(candidate, NoTrack, fix),
         lastPoint' = fix, now' = fix.t,
         candidate # None =>
           /\ candidate \in Candidate
           /\ candidate.zone \in FindMatchingZone(fix.place)
           /\ ~Finishing(candidate.zone, fix.place)
           /\ candidate.lastTime = fix.t
           /\ candidate.lastArc = Arc[candidate.zone][fix.place]
           /\ candidate.entryTime <= fix.t
           /\ lastExit # None => lastExit.at <= candidate.entryTime
  PROVE  IInv'
<1>1. fix \in Fix /\ fix.t >= now /\ fix.t \in Nat /\ now \in Nat
  BY NextFixTyped DEF IInv, TypeOK, Fix
<1>2. /\ state' = Outside /\ track' = NoTrack /\ pendingEntry' = candidate
      /\ handover' \in {handover, None} /\ lastExit' = lastExit
  BY LiveOfferIsOffer DEF StayOutside
<1>3. state'.kind = "Outside"
  BY <1>2 DEF Outside
<1>4. TypeOK'
  BY <1>1, <1>2, NoTrackTyped DEF IInv, TypeOK, Outside, ZoneState
<1>5. lastExit # None => lastExit.at <= fix.t
  <2>1. lastExit # None => lastExit.at \in Nat /\ lastExit.at <= now
    BY DEF IInv, TypeOK, ClockOK, Exit
  <2>2. QED BY <1>1, <2>1
<1>6. ClockOK'
  BY <1>1, <1>2, <1>5, NoTrackTyped DEF ClockOK
<1>7. StateMatchesTrack' /\ TraversalsDisjoint'
  BY <1>2, <1>3 DEF StateMatchesTrack, TraversalsDisjoint
<1>8. CandidateIsCurrent'
  BY <1>1, <1>2, NoneAssumption DEF CandidateIsCurrent, FindMatchingZone, Finishing
<1>9. OfferIsLatestExit'
  BY <1>2, <1>3 DEF IInv, OfferIsLatestExit
<1>10. QED BY <1>4, <1>6, <1>7, <1>8, <1>9 DEF IInv

LEMMA OpenStep ==
  ASSUME IInv, NEW fix \in NextFixes, NEW candidate \in Candidate,
         OpenUnmeasured(candidate, fix) \/ OpenTraversal(candidate, fix),
         lastPoint' = fix, now' = fix.t,
         candidate.entryTime <= fix.t,
         lastExit # None => lastExit.at <= candidate.entryTime
  PROVE  IInv'
<1>1. fix \in Fix /\ fix.t >= now /\ fix.t \in Nat /\ now \in Nat
  BY NextFixTyped DEF IInv, TypeOK, Fix
<1>2. /\ candidate.zone \in Zones /\ candidate.entryTime \in Nat
      /\ candidate.distance \in Nat /\ candidate.lastArc \in Nat
  BY DEF Candidate
<1>3. pendingEntry' = None /\ handover' = None /\ lastExit' = lastExit
  BY DEF OpenUnmeasured, OpenTraversal
<1>4. lastExit # None => lastExit.at <= fix.t
  <2>1. lastExit # None => lastExit.at \in Nat /\ lastExit.at <= now
    BY DEF IInv, TypeOK, ClockOK, Exit
  <2>2. QED BY <1>1, <2>1
<1>5. CASE OpenUnmeasured(candidate, fix)
  <2>1. /\ state' = [kind |-> "Unmeasured", zone |-> candidate.zone]
        /\ track' = [NoTrack EXCEPT !.zone = candidate.zone,
                                    !.arc = candidate.lastArc]
    BY <1>5 DEF OpenUnmeasured, OpenTrack
  <2>2. /\ track' \in Track /\ track'.zone = candidate.zone
        /\ track'.stopStart = None /\ track'.entryTime = 0
        /\ track'.stopped = 0
    BY <1>2, <2>1 DEF NoTrack, Track
  <2>3. TypeOK'
    BY <1>1, <1>2, <1>3, <2>1, <2>2 DEF IInv, TypeOK, ZoneState
  <2>4. ClockOK'
    BY <1>1, <1>3, <1>4, <2>2 DEF ClockOK
  <2>5. StateMatchesTrack' /\ TraversalsDisjoint'
    BY <1>3, <2>1, <2>2 DEF StateMatchesTrack, TraversalsDisjoint
  <2>6. CandidateIsCurrent' /\ OfferIsLatestExit'
    BY <1>3 DEF CandidateIsCurrent, OfferIsLatestExit
  <2>7. QED BY <2>3, <2>4, <2>5, <2>6 DEF IInv
<1>6. CASE OpenTraversal(candidate, fix)
  <2> DEFINE avg == Calculate(candidate.entryTime, fix.t, 0,
                              candidate.distance)
  <2>1. /\ state' = [kind |-> "InZone", zone |-> candidate.zone,
                     entryTime |-> candidate.entryTime, avg |-> avg]
        /\ track' = [NoTrack EXCEPT !.zone = candidate.zone,
                                    !.arc = candidate.lastArc,
                                    !.entryTime = candidate.entryTime,
                                    !.distance = candidate.distance]
    BY <1>6 DEF OpenTraversal, OpenTrack, NoTrack
  <2>2. /\ track' \in Track /\ track'.zone = candidate.zone
        /\ track'.stopStart = None /\ track'.stopped = 0
        /\ track'.entryTime = candidate.entryTime
    BY <1>2, <2>1 DEF NoTrack, Track
  <2>3. avg \in Average
    BY <1>1, <1>2, CalculateTyped
  <2> HIDE DEF avg
  <2>4. TypeOK'
    BY <1>1, <1>2, <1>3, <2>1, <2>2, <2>3 DEF IInv, TypeOK, ZoneState
  <2>5. ClockOK'
    BY <1>1, <1>2, <1>3, <1>4, <2>2 DEF ClockOK
  <2>6. StateMatchesTrack' /\ TraversalsDisjoint'
    BY <1>3, <2>1, <2>2 DEF StateMatchesTrack, TraversalsDisjoint
  <2>7. CandidateIsCurrent' /\ OfferIsLatestExit'
    BY <1>3 DEF CandidateIsCurrent, OfferIsLatestExit
  <2>8. QED BY <2>4, <2>5, <2>6, <2>7 DEF IInv
<1>7. QED BY <1>5, <1>6

(* Every branch of handleOutside stays outside or opens a zone. *)
LEMMA OutsideStep ==
  ASSUME IInv, NEW fix \in NextFixes, NEW open, open \in {pendingEntry, None},
         HandleOutside(open, NoTrack, fix),
         lastPoint' = fix, now' = fix.t
  PROVE  IInv'
<1>1. CASE StayOutside(None, NoTrack, fix)
  BY <1>1, StayOutsideStep
<1>2. ASSUME NEW zone \in FindMatchingZone(fix.place),
             ~Finishing(zone, fix.place),
             LET candidate ==
                   AdvancePendingEntry(open, fix, zone, Arc[zone][fix.place])
             IN \/ StayOutside(candidate, NoTrack, fix)
                \/ OpenUnmeasured(candidate, fix)
                \/ OpenTraversal(candidate, fix)
      PROVE  IInv'
  <2> DEFINE arc == Arc[zone][fix.place]
             candidate == AdvancePendingEntry(open, fix, zone, arc)
  <2>1. zone \in Zones /\ arc \in Nat
    BY MatchIsZone, ArcTyped DEF NextFixes
  <2>2. /\ candidate \in Candidate /\ candidate.zone = zone
        /\ candidate.lastTime = fix.t /\ candidate.lastArc = arc
        /\ candidate.entryTime <= fix.t
        /\ lastExit # None => lastExit.at <= candidate.entryTime
    BY <2>1, CandidateFacts
  <2>3. \/ StayOutside(candidate, NoTrack, fix)
        \/ OpenUnmeasured(candidate, fix)
        \/ OpenTraversal(candidate, fix)
    BY <1>2
  <2> HIDE DEF candidate
  <2>4. CASE StayOutside(candidate, NoTrack, fix)
    BY <1>2, <2>2, <2>4, StayOutsideStep
  <2>5. CASE OpenUnmeasured(candidate, fix) \/ OpenTraversal(candidate, fix)
    BY <2>2, <2>5, OpenStep
  <2>6. QED BY <2>3, <2>4, <2>5
<1>3. QED BY <1>1, <1>2 DEF HandleOutside

-----------------------------------------------------------------------------
(* The bookkeeping of an in-zone fix. *)
LEMMA IntegratedFacts ==
  ASSUME IInv, NEW fix \in NextFixes, state.kind = "InZone"
  PROVE  /\ Integrated(fix) \in Track
         /\ Integrated(fix).zone = track.zone /\ track.zone \in Zones
         /\ Integrated(fix).entryTime = track.entryTime
         /\ Integrated(fix).stopStart # None =>
              Integrated(fix).stopStart <= fix.t
         /\ Integrated(fix).entryTime + Integrated(fix).stopped
              <= (IF Integrated(fix).stopStart = None
                  THEN fix.t ELSE Integrated(fix).stopStart)
<1>1. fix \in Fix /\ fix.t >= now /\ fix.t \in Nat /\ now \in Nat
  BY NextFixTyped DEF IInv, TypeOK, Fix
<1>2. track \in Track /\ track.zone \in Zones
  BY DEF IInv, TypeOK, StateMatchesTrack, ZoneState
<1>3. /\ track.entryTime \in Nat /\ track.stopped \in Nat
      /\ track.distance \in Nat /\ track.arc \in Nat /\ track.offRoad \in Nat
      /\ track.stopStart \in Nat \cup {None}
  BY <1>2 DEF Track
<1> DEFINE arc == Arc[track.zone][fix.place]
           travel == TravelSince(lastPoint, fix, track.arc, arc)
           streak == OffRoadStreak(track.zone, fix.place)
           moved == [track EXCEPT !.distance = @ + travel, !.arc = arc,
                                  !.offRoad = streak]
<1>4. arc \in Nat
  BY <1>1, <1>2, ArcTyped DEF Fix
<1>5. travel \in Nat
  BY <1>1, <1>3, <1>4, TravelSinceNat DEF IInv, TypeOK, ClockOK
<1>6. streak \in Nat
  BY <1>3 DEF OffRoadStreak
<1>7. Integrated(fix) = UpdateStopTracking(moved, fix)
  BY DEF Integrated
<1> HIDE DEF arc, travel, streak
<1>8. track.distance + travel \in Nat
  BY <1>3, <1>5
<1>9. /\ moved \in Track
      /\ moved.zone = track.zone /\ moved.entryTime = track.entryTime
      /\ moved.stopped = track.stopped /\ moved.stopStart = track.stopStart
  BY <1>2, <1>4, <1>6, <1>8 DEF Track
<1> HIDE DEF moved
<1>10. /\ track.stopStart # None => track.stopStart <= now
       /\ track.entryTime + track.stopped
            <= (IF track.stopStart = None THEN now ELSE track.stopStart)
  BY DEF IInv, ClockOK
<1>11. /\ moved.stopStart # None => moved.stopStart <= fix.t
       /\ moved.entryTime + moved.stopped <= fix.t
       /\ moved.entryTime + moved.stopped
            <= (IF moved.stopStart = None THEN fix.t ELSE moved.stopStart)
  BY <1>1, <1>3, <1>9, <1>10
<1>12. QED BY <1>1, <1>2, <1>7, <1>9, <1>11, UpdateStopTrackingTyped

LEMMA ExitStep ==
  ASSUME IInv, NEW fix \in NextFixes, state.kind = "InZone",
         ExitZone(Integrated(fix), fix),
         lastPoint' = fix, now' = fix.t
  PROVE  IInv'
<1>1. fix \in Fix /\ fix.t >= now /\ fix.t \in Nat /\ now \in Nat
  BY NextFixTyped DEF IInv, TypeOK, Fix
<1> DEFINE tr == Integrated(fix)
           final == FinalizeStop(tr, fix.t)
           avg == Calculate(tr.entryTime, fix.t, final.stopped, tr.distance)
<1>2. /\ tr \in Track /\ tr.zone = track.zone /\ track.zone \in Zones
      /\ tr.entryTime = track.entryTime
      /\ tr.stopStart # None => tr.stopStart <= fix.t
      /\ tr.entryTime + tr.stopped
           <= (IF tr.stopStart = None THEN fix.t ELSE tr.stopStart)
  BY IntegratedFacts
<1>3. /\ state' = [kind |-> "Exiting", zone |-> tr.zone, avg |-> avg]
      /\ track' = final
      /\ handover' = [from |-> tr.zone,
                      expiresAt |-> fix.t + COLOCATED_HANDOVER]
      /\ lastExit' = [zone |-> tr.zone, at |-> fix.t,
                      reachedEnd |-> ReachedEnd(tr.zone, fix.place)]
      /\ pendingEntry' = pendingEntry
  BY DEF ExitZone
<1> HIDE DEF tr
<1>4. /\ final \in Track /\ final.stopStart = None
      /\ final.zone = tr.zone /\ final.entryTime = tr.entryTime
      /\ final.entryTime + final.stopped <= fix.t
  BY <1>1, <1>2, FinalizeStopTyped
<1> HIDE DEF final
<1>5. /\ tr.entryTime \in Nat /\ tr.distance \in Nat /\ final.stopped \in Nat
  BY <1>2, <1>4 DEF Track
<1>6. avg \in Average
  BY <1>1, <1>5, CalculateTyped
<1> HIDE DEF avg
<1>7. pendingEntry = None
  BY DEF IInv, StateMatchesTrack
<1>8. ReachedEnd(tr.zone, fix.place) \in BOOLEAN
  BY DEF ReachedEnd
<1>9. fix.t + COLOCATED_HANDOVER \in Nat
  BY <1>1, ThresholdAssumption DEF ThresholdAssumption
<1>10. state' \in ZoneState
  BY <1>2, <1>3, <1>5, <1>6 DEF ZoneState
<1>11. lastExit' \in Exit /\ handover' \in Offer
  BY <1>1, <1>2, <1>3, <1>8, <1>9 DEF Exit, Offer
<1>12. TypeOK'
  BY <1>1, <1>3, <1>4, <1>7, <1>10, <1>11 DEF TypeOK
<1>13. ClockOK'
  BY <1>1, <1>3, <1>4, <1>7 DEF ClockOK
<1>14. StateMatchesTrack' /\ TraversalsDisjoint'
  BY <1>3, <1>4, <1>7 DEF StateMatchesTrack, TraversalsDisjoint
<1>15. CandidateIsCurrent'
  BY <1>3, <1>7 DEF CandidateIsCurrent
<1>16. OfferIsLatestExit'
  BY <1>3, <1>11, NoneAssumption DEF OfferIsLatestExit
<1>17. QED BY <1>12, <1>13, <1>14, <1>15, <1>16 DEF IInv

LEMMA ContinueStep ==
  ASSUME IInv, NEW fix \in NextFixes, state.kind = "InZone",
         ContinueTraversal(Integrated(fix), fix),
         lastPoint' = fix, now' = fix.t
  PROVE  IInv'
<1>1. fix \in Fix /\ fix.t >= now /\ fix.t \in Nat /\ now \in Nat
  BY NextFixTyped DEF IInv, TypeOK, Fix
<1> DEFINE tr == Integrated(fix)
           avg == Calculate(tr.entryTime, fix.t, tr.stopped, tr.distance)
<1>2. /\ tr \in Track /\ tr.zone = track.zone /\ track.zone \in Zones
      /\ tr.entryTime = track.entryTime
      /\ tr.stopStart # None => tr.stopStart <= fix.t
      /\ tr.entryTime + tr.stopped
           <= (IF tr.stopStart = None THEN fix.t ELSE tr.stopStart)
  BY IntegratedFacts
<1>3. /\ state' = [kind |-> "InZone", zone |-> tr.zone,
                   entryTime |-> tr.entryTime, avg |-> avg]
      /\ track' = tr
      /\ pendingEntry' = pendingEntry /\ handover' = handover
      /\ lastExit' = lastExit
  BY DEF ContinueTraversal
<1> HIDE DEF tr
<1>4. tr.entryTime \in Nat /\ tr.distance \in Nat /\ tr.stopped \in Nat
  BY <1>2 DEF Track
<1>5. avg \in Average
  BY <1>1, <1>4, CalculateTyped
<1> HIDE DEF avg
<1>6. pendingEntry = None /\ handover = None
  BY DEF IInv, StateMatchesTrack, OfferIsLatestExit
<1>7. state' \in ZoneState
  BY <1>2, <1>3, <1>4, <1>5 DEF ZoneState
<1>8. TypeOK'
  BY <1>1, <1>2, <1>3, <1>7 DEF IInv, TypeOK
<1>9. lastExit # None => lastExit.at <= fix.t
  <2>1. lastExit # None => lastExit.at \in Nat /\ lastExit.at <= now
    BY DEF IInv, TypeOK, ClockOK, Exit
  <2>2. QED BY <1>1, <2>1
<1>10. ClockOK'
  BY <1>1, <1>2, <1>3, <1>6, <1>9 DEF ClockOK
<1>11. StateMatchesTrack'
  BY <1>3, <1>6 DEF StateMatchesTrack
<1>12. TraversalsDisjoint'
  BY <1>2, <1>3 DEF IInv, TraversalsDisjoint
<1>13. CandidateIsCurrent' /\ OfferIsLatestExit'
  BY <1>3, <1>6 DEF CandidateIsCurrent, OfferIsLatestExit
<1>14. QED BY <1>8, <1>10, <1>11, <1>12, <1>13 DEF IInv

LEMMA UnmeasuredStep ==
  ASSUME IInv, NEW fix \in NextFixes, state.kind = "Unmeasured",
         HandleUnmeasured(fix),
         lastPoint' = fix, now' = fix.t
  PROVE  IInv'
<1>1. fix \in Fix /\ fix.t >= now /\ fix.t \in Nat /\ now \in Nat
  BY NextFixTyped DEF IInv, TypeOK, Fix
<1>2. /\ track \in Track /\ track.zone = state.zone /\ track.zone \in Zones
      /\ pendingEntry = None /\ handover = None
  BY DEF IInv, TypeOK, StateMatchesTrack, OfferIsLatestExit, ZoneState
<1>3. lastExit # None => lastExit.at <= fix.t
  <2>1. lastExit # None => lastExit.at \in Nat /\ lastExit.at <= now
    BY DEF IInv, TypeOK, ClockOK, Exit
  <2>2. QED BY <1>1, <2>1
<1>4. CASE LeaveUnmeasured
  <2>1. /\ state' = Outside /\ track' = NoTrack /\ pendingEntry' = None
        /\ handover' = None /\ lastExit' = lastExit
    BY <1>2, <1>4 DEF LeaveUnmeasured
  <2>2. state'.kind = "Outside"
    BY <2>1 DEF Outside
  <2>3. TypeOK'
    BY <1>1, <2>1, NoTrackTyped DEF IInv, TypeOK, Outside, ZoneState
  <2>4. ClockOK'
    BY <1>1, <1>3, <2>1, NoTrackTyped DEF ClockOK
  <2>5. StateMatchesTrack' /\ TraversalsDisjoint'
    BY <2>1, <2>2 DEF StateMatchesTrack, TraversalsDisjoint
  <2>6. CandidateIsCurrent' /\ OfferIsLatestExit'
    BY <2>1 DEF CandidateIsCurrent, OfferIsLatestExit
  <2>7. QED BY <2>3, <2>4, <2>5, <2>6 DEF IInv
<1>5. CASE ~LeaveUnmeasured
  <2> DEFINE streak == OffRoadStreak(track.zone, fix.place)
             arc == Arc[track.zone][fix.place]
  <2>1. /\ track' = [track EXCEPT !.arc = arc, !.offRoad = streak]
        /\ state' = [kind |-> "Unmeasured", zone |-> track.zone]
        /\ pendingEntry' = None /\ handover' = None /\ lastExit' = lastExit
    BY <1>2, <1>5 DEF HandleUnmeasured
  <2>2. arc \in Nat /\ streak \in Nat
    BY <1>1, <1>2, ArcTyped DEF Fix, OffRoadStreak, Track
  <2> HIDE DEF streak, arc
  <2>3. /\ track' \in Track /\ track'.zone = track.zone
        /\ track'.stopStart = track.stopStart
        /\ track'.entryTime = track.entryTime
        /\ track'.stopped = track.stopped
    BY <1>2, <2>1, <2>2 DEF Track
  <2>4. TypeOK'
    BY <1>1, <1>2, <2>1, <2>3 DEF IInv, TypeOK, ZoneState
  <2>5. /\ track'.stopStart # None => track'.stopStart <= fix.t
        /\ track'.entryTime + track'.stopped
             <= (IF track'.stopStart = None THEN fix.t ELSE track'.stopStart)
    <3>1. /\ track.entryTime \in Nat /\ track.stopped \in Nat
          /\ track.stopStart \in Nat \cup {None}
      BY <1>2 DEF Track
    <3>2. QED BY <1>1, <2>3, <3>1 DEF IInv, ClockOK
  <2>6. ClockOK'
    BY <1>1, <1>3, <2>1, <2>5 DEF ClockOK
  <2>7. StateMatchesTrack' /\ TraversalsDisjoint'
    BY <2>1, <2>3 DEF StateMatchesTrack, TraversalsDisjoint
  <2>8. CandidateIsCurrent' /\ OfferIsLatestExit'
    BY <2>1 DEF CandidateIsCurrent, OfferIsLatestExit
  <2>9. QED BY <2>4, <2>6, <2>7, <2>8 DEF IInv
<1>6. QED BY <1>4, <1>5

LEMMA ResetStep ==
  ASSUME IInv, Reset
  PROVE  IInv'
<1>1. /\ state' = Outside /\ track' = NoTrack /\ pendingEntry' = None
      /\ handover' = None /\ lastExit' = lastExit /\ now' = now
      /\ lastPoint' = None
  BY DEF Reset
<1>2. state'.kind = "Outside"
  BY <1>1 DEF Outside
<1>3. now \in Nat
  BY DEF IInv, TypeOK
<1>4. TypeOK'
  BY <1>1, NoTrackTyped DEF IInv, TypeOK, Outside, ZoneState
<1>5. ClockOK'
  BY <1>1, <1>3, NoTrackTyped DEF IInv, ClockOK
<1>6. StateMatchesTrack' /\ TraversalsDisjoint'
  BY <1>1, <1>2 DEF StateMatchesTrack, TraversalsDisjoint
<1>7. CandidateIsCurrent' /\ OfferIsLatestExit'
  BY <1>1 DEF CandidateIsCurrent, OfferIsLatestExit
<1>8. QED BY <1>4, <1>5, <1>6, <1>7 DEF IInv

LEMMA UpdateStep ==
  ASSUME IInv, NEW fix \in NextFixes, Update(fix)
  PROVE  IInv'
<1>1. Handle(fix) /\ lastPoint' = fix /\ now' = fix.t
  BY DEF Update
<1>2. CASE state.kind = "Outside" /\ HandleOutside(pendingEntry, track, fix)
  BY <1>1, <1>2, OutsideStep DEF IInv, StateMatchesTrack
<1>3. CASE state.kind = "Unmeasured" /\ HandleUnmeasured(fix)
  BY <1>1, <1>3, UnmeasuredStep
<1>4. CASE state.kind = "InZone" /\ HandleInZone(fix)
  BY <1>1, <1>4, ExitStep, ContinueStep DEF HandleInZone
<1>5. CASE state.kind = "Exiting" /\ HandleExiting(fix)
  BY <1>1, <1>5, OutsideStep DEF HandleExiting
<1>6. QED BY <1>1, <1>2, <1>3, <1>4, <1>5 DEF Handle

LEMMA InitIInv == Init => IInv
<1> SUFFICES ASSUME Init PROVE IInv
  OBVIOUS
<1>1. state.kind = "Outside"
  BY DEF Init, Outside
<1>2. TypeOK
  BY NoTrackTyped DEF Init, TypeOK, Outside, ZoneState
<1>3. ClockOK
  BY NoTrackTyped DEF Init, ClockOK
<1>4. StateMatchesTrack /\ TraversalsDisjoint
  BY <1>1 DEF Init, StateMatchesTrack, TraversalsDisjoint
<1>5. CandidateIsCurrent /\ OfferIsLatestExit
  BY DEF Init, CandidateIsCurrent, OfferIsLatestExit
<1>6. QED BY <1>2, <1>3, <1>4, <1>5 DEF IInv

LEMMA StutterStep ==
  ASSUME IInv, UNCHANGED vars
  PROVE  IInv'
<1>1. /\ TypeOK' /\ StateMatchesTrack' /\ ClockOK'
  BY DEF vars, IInv, TypeOK, StateMatchesTrack, ClockOK
<1>2. TraversalsDisjoint' /\ CandidateIsCurrent' /\ OfferIsLatestExit'
  BY DEF vars, IInv, TraversalsDisjoint, CandidateIsCurrent,
         OfferIsLatestExit
<1>3. QED BY <1>1, <1>2 DEF IInv

LEMMA InductiveInvariant == Spec => []IInv
<1>1. IInv /\ [Next]_vars => IInv'
  BY UpdateStep, ResetStep, StutterStep DEF Next
<1>2. QED BY <1>1, InitIInv, PTL DEF Spec

-----------------------------------------------------------------------------
(* The detector's variables keep their types. *)
THEOREM TypeCorrect == Spec => []TypeOK
<1>1. IInv => TypeOK
  BY DEF IInv
<1>2. QED BY <1>1, InductiveInvariant, PTL

(* What is shown and what is tracked never come apart. *)
THEOREM StateMatchesTrackHolds == Spec => []StateMatchesTrack
<1>1. IInv => StateMatchesTrack
  BY DEF IInv
<1>2. QED BY <1>1, InductiveInvariant, PTL

(* The excluded stops of a traversal lie inside it, whatever the stops, the
   dropouts and the spacing of the fixes.                                  *)
THEOREM StopsWithinTraversalHolds == Spec => []StopsWithinTraversal
<1>1. IInv => StopsWithinTraversal
  BY DEF IInv, ClockOK, StopsWithinTraversal
<1>2. QED BY <1>1, InductiveInvariant, PTL

(* Measured traversals never overlap in time. *)
THEOREM TraversalsDisjointHolds == Spec => []TraversalsDisjoint
<1>1. IInv => TraversalsDisjoint
  BY DEF IInv
<1>2. QED BY <1>1, InductiveInvariant, PTL

(* A candidate always stands on the latest fix. *)
THEOREM CandidateIsCurrentHolds == Spec => []CandidateIsCurrent
<1>1. IInv => CandidateIsCurrent
  BY DEF IInv
<1>2. QED BY <1>1, InductiveInvariant, PTL

(* The offer is always the latest exit's and is spent by the next zone. *)
THEOREM OfferIsLatestExitHolds == Spec => []OfferIsLatestExit
<1>1. IInv => OfferIsLatestExit
  BY DEF IInv
<1>2. QED BY <1>1, InductiveInvariant, PTL

-----------------------------------------------------------------------------
(* The only steps that open a measured traversal are handleOutside's. *)
LEMMA OpensFromOutside ==
  ASSUME IInv, Next, Opens
  PROVE  \E fix \in NextFixes, open \in {pendingEntry, None} :
           /\ now' = fix.t
           /\ \E zone \in FindMatchingZone(fix.place) :
                LET candidate == AdvancePendingEntry(open, fix, zone,
                                                     Arc[zone][fix.place])
                IN /\ \/ HandedOver(LiveOffer(fix), zone)
                      \/ IsConfirmed(candidate) /\ WitnessedStart(candidate)
                   /\ OpenTraversal(candidate, fix)
<1>1. ~Reset
  BY DEF Reset, Outside, Opens
<1>2. PICK fix \in NextFixes : Update(fix)
  BY <1>1 DEF Next
<1>3. Handle(fix) /\ now' = fix.t
  BY <1>2 DEF Update
<1>4. ~HandleUnmeasured(fix)
  BY DEF HandleUnmeasured, LeaveUnmeasured, Outside, Opens
<1>5. PICK open \in {pendingEntry, None}, tr \in {track, NoTrack} :
        HandleOutside(open, tr, fix)
  BY <1>3, <1>4 DEF Handle, HandleExiting, Opens
<1>6. \A candidate, t : ~StayOutside(candidate, t, fix)
  BY DEF StayOutside, Outside, Opens
<1>7. \A candidate : ~OpenUnmeasured(candidate, fix)
  BY DEF OpenUnmeasured, Opens
<1>8. QED BY <1>3, <1>5, <1>6, <1>7 DEF HandleOutside

LEMMA EarnedStep ==
  ASSUME IInv, Next, Opens
  PROVE  \/ /\ pendingEntry # None
            /\ pendingEntry.zone = track'.zone
            /\ pendingEntry.entryArc <= START_WITNESS_ARC_M
            /\ pendingEntry.entryTime = track'.entryTime
            /\ now' - now <= ENTRY_CONFIRM_TIMEOUT
            /\ track'.arc - pendingEntry.entryArc
                 >= RequiredProgress(track'.zone)
         \/ /\ handover # None /\ lastExit # None
            /\ EndToStart[lastExit.zone][track'.zone] <= COLOCATED_CAMERA_M
            /\ track'.zone \in Continues[lastExit.zone]
            /\ now' <= lastExit.at + COLOCATED_HANDOVER
<1>1. PICK fix \in NextFixes, open \in {pendingEntry, None} :
        /\ now' = fix.t
        /\ \E zone \in FindMatchingZone(fix.place) :
             LET candidate == AdvancePendingEntry(open, fix, zone,
                                                  Arc[zone][fix.place])
             IN /\ \/ HandedOver(LiveOffer(fix), zone)
                   \/ IsConfirmed(candidate) /\ WitnessedStart(candidate)
                /\ OpenTraversal(candidate, fix)
  BY OpensFromOutside
<1>2. PICK zone \in FindMatchingZone(fix.place) :
        LET candidate == AdvancePendingEntry(open, fix, zone,
                                             Arc[zone][fix.place])
        IN /\ \/ HandedOver(LiveOffer(fix), zone)
              \/ IsConfirmed(candidate) /\ WitnessedStart(candidate)
           /\ OpenTraversal(candidate, fix)
  BY <1>1
<1> DEFINE arc == Arc[zone][fix.place]
           candidate == AdvancePendingEntry(open, fix, zone, arc)
<1>3. zone \in Zones /\ arc \in Nat
  BY MatchIsZone, ArcTyped DEF NextFixes
<1>4. /\ candidate \in Candidate /\ candidate.zone = zone
      /\ candidate.lastArc = arc
      /\ \/ candidate.fixes = 1
         \/ /\ open # None /\ open = pendingEntry
            /\ open.zone = zone
            /\ fix.t - open.lastTime <= ENTRY_CONFIRM_TIMEOUT
            /\ candidate.entryTime = open.entryTime
            /\ candidate.entryArc = open.entryArc
  BY <1>3, CandidateFacts
<1>5. /\ HandedOver(LiveOffer(fix), zone)
           \/ (IsConfirmed(candidate) /\ WitnessedStart(candidate))
      /\ OpenTraversal(candidate, fix)
  BY <1>2
<1> HIDE DEF candidate, arc
<1>6. /\ track'.zone = candidate.zone /\ track'.arc = candidate.lastArc
      /\ track'.entryTime = candidate.entryTime
  BY <1>5 DEF OpenTraversal, OpenTrack, NoTrack
<1>7. CASE HandedOver(LiveOffer(fix), zone)
  <2>1. LiveOffer(fix) = handover /\ handover # None
        /\ fix.t <= handover.expiresAt
    BY <1>7 DEF HandedOver, LiveOffer
  <2>2. /\ lastExit # None /\ handover.from = lastExit.zone
        /\ handover.expiresAt = lastExit.at + COLOCATED_HANDOVER
    BY <2>1 DEF IInv, OfferIsLatestExit
  <2>3. QED BY <1>1, <1>4, <1>6, <1>7, <2>1, <2>2
            DEF HandedOver, ContinuesHandoverDirection
<1>8. CASE IsConfirmed(candidate) /\ WitnessedStart(candidate)
  <2>1. candidate.fixes # 1
    BY <1>8, ThresholdAssumption DEF IsConfirmed, ThresholdAssumption
  <2>2. /\ pendingEntry # None /\ pendingEntry.zone = zone
        /\ fix.t - pendingEntry.lastTime <= ENTRY_CONFIRM_TIMEOUT
        /\ candidate.entryTime = pendingEntry.entryTime
        /\ candidate.entryArc = pendingEntry.entryArc
    BY <1>4, <2>1
  <2>3. pendingEntry.lastTime = now
    BY <2>2 DEF IInv, CandidateIsCurrent, ClockOK
  <2>4. QED BY <1>1, <1>4, <1>6, <1>8, <2>2, <2>3
            DEF IsConfirmed, WitnessedStart
<1>9. QED BY <1>5, <1>7, <1>8

(* No measured traversal opens without evidence: a start that was seen and
   followed, or a co-located, same-direction exit within the window.       *)
THEOREM MeasuredEntryIsEarnedHolds == Spec => MeasuredEntryIsEarned
<1>1. IInv /\ [Next]_vars =>
        [Opens =>
           \/ /\ pendingEntry # None
              /\ pendingEntry.zone = track'.zone
              /\ pendingEntry.entryArc <= START_WITNESS_ARC_M
              /\ pendingEntry.entryTime = track'.entryTime
              /\ now' - now <= ENTRY_CONFIRM_TIMEOUT
              /\ track'.arc - pendingEntry.entryArc
                   >= RequiredProgress(track'.zone)
           \/ /\ lastExit # None
              /\ EndToStart[lastExit.zone][track'.zone] <= COLOCATED_CAMERA_M
              /\ track'.zone \in Continues[lastExit.zone]
              /\ now' <= lastExit.at + COLOCATED_HANDOVER]_vars
  BY EarnedStep
<1>2. QED BY <1>1, InductiveInvariant, PTL DEF Spec, MeasuredEntryIsEarned

-----------------------------------------------------------------------------
(* The refinement mapping, named. *)
Entry == IF state.kind \in {"InZone", "Exiting"} THEN track.entryTime ELSE None
LastEnd == IF lastExit = None THEN 0 ELSE lastExit.at
Offered == handover # None

LEMMA ContractUnfolds ==
  /\ Contract!TInit <=>
       /\ state.kind = "Outside" /\ track.zone = None
       /\ Entry = None /\ LastEnd = 0
       /\ PendingEntryInfo = None /\ Offered = FALSE
  /\ Contract!Confirm <=>
       /\ state.kind = "Outside" /\ PendingEntryInfo # None
       /\ PendingEntryInfo.witnessed
       /\ state'.kind = "InZone" /\ track'.zone = PendingEntryInfo.zone
       /\ Entry' = PendingEntryInfo.since
       /\ PendingEntryInfo' = None /\ Offered' = FALSE /\ LastEnd' = LastEnd
  /\ Contract!HandOver(track'.zone, Entry') <=>
       /\ state.kind \in {"Outside", "Exiting"} /\ Offered
       /\ Entry' >= LastEnd /\ state'.kind = "InZone"
       /\ PendingEntryInfo' = None /\ Offered' = FALSE /\ LastEnd' = LastEnd
  /\ Contract!Join <=>
       /\ state.kind = "Outside" /\ PendingEntryInfo # None
       /\ ~PendingEntryInfo.witnessed
       /\ state'.kind = "Unmeasured" /\ track'.zone = PendingEntryInfo.zone
       /\ Entry' = None
       /\ PendingEntryInfo' = None /\ Offered' = FALSE /\ LastEnd' = LastEnd
  /\ Contract!Finish(LastEnd') <=>
       /\ state.kind = "InZone" /\ LastEnd' >= Entry
       /\ state'.kind = "Exiting" /\ Offered' = TRUE
       /\ track'.zone = track.zone /\ Entry' = Entry
       /\ PendingEntryInfo' = PendingEntryInfo
  /\ Contract!Look(PendingEntryInfo', Offered') <=>
       /\ state.kind # "InZone"
       /\ PendingEntryInfo' \notin {None, PendingEntryInfo} =>
            state.kind # "Unmeasured" /\ PendingEntryInfo'.since >= LastEnd
       /\ Offered' => Offered
       /\ state'.kind = "Outside" /\ track'.zone = None /\ Entry' = None
       /\ LastEnd' = LastEnd
  /\ Contract!Reset <=>
       /\ state'.kind = "Outside" /\ track'.zone = None /\ Entry' = None
       /\ PendingEntryInfo' = None /\ Offered' = FALSE /\ LastEnd' = LastEnd
  /\ (UNCHANGED Contract!tvars) <=>
       /\ state'.kind = state.kind /\ track'.zone = track.zone
       /\ Entry' = Entry /\ LastEnd' = LastEnd
       /\ PendingEntryInfo' = PendingEntryInfo /\ Offered' = Offered
  BY DEF Contract!Free, Contract!TInit, Contract!Confirm, Contract!HandOver,
         Contract!Opened, Contract!Join, Contract!Finish, Contract!Look,
         Contract!Reset, Contract!tvars, Entry, LastEnd, Offered

LEMMA ContractDetects ==
  ASSUME NEW t \in Nat,
         \/ Contract!Confirm \/ Contract!Join \/ Contract!Finish(t)
         \/ /\ track'.zone \in Zones /\ Entry' = t
            /\ Contract!HandOver(track'.zone, Entry')
         \/ /\ PendingEntryInfo # None /\ track'.zone = PendingEntryInfo.zone
            /\ Entry' = PendingEntryInfo.since
            /\ Contract!HandOver(track'.zone, Entry')
         \/ /\ PendingEntryInfo' \in {None, PendingEntryInfo}
                  \cup [zone : Zones, since : {t}, witnessed : BOOLEAN]
            /\ Contract!Look(PendingEntryInfo', Offered')
         \/ /\ state.kind \in {"InZone", "Unmeasured"}
            /\ UNCHANGED Contract!tvars
  PROVE  Contract!Detect(t)
<1>1. Offered' \in BOOLEAN
  BY DEF Offered
<1>2. QED BY <1>1 DEF Contract!Detect

(* What the consumers see of a candidate. *)
LEMMA InfoFacts ==
  ASSUME IInv
  PROVE  /\ PendingEntryInfo = None <=> pendingEntry = None
         /\ PendingEntryInfo \in Contract!Candidate \cup {None}
         /\ pendingEntry # None =>
              /\ PendingEntryInfo.zone = pendingEntry.zone
              /\ PendingEntryInfo.since = pendingEntry.entryTime
              /\ PendingEntryInfo.witnessed = WitnessedStart(pendingEntry)
              /\ PendingEntryInfo.since >= LastEnd
<1>1. CASE pendingEntry = None
  BY <1>1 DEF PendingEntryInfo
<1>2. CASE pendingEntry # None
  <2>1. pendingEntry \in Candidate
    BY <1>2 DEF IInv, TypeOK
  <2>2. /\ pendingEntry.zone \in Zones /\ pendingEntry.entryTime \in Nat
        /\ WitnessedStart(pendingEntry) \in BOOLEAN
    BY <2>1 DEF Candidate, WitnessedStart
  <2>3. PendingEntryInfo = [zone |-> pendingEntry.zone,
                            since |-> pendingEntry.entryTime,
                            witnessed |-> WitnessedStart(pendingEntry)]
    BY <1>2 DEF PendingEntryInfo
  <2>4. PendingEntryInfo \in Contract!Candidate
    BY <2>2, <2>3 DEF Contract!Candidate
  <2>5. PendingEntryInfo # None
    BY <2>4, NoneAssumption DEF Contract!Candidate
  <2>6. pendingEntry.entryTime >= LastEnd
    BY <1>2, <2>2 DEF IInv, ClockOK, TypeOK, Exit, LastEnd
  <2>7. QED BY <1>2, <2>3, <2>4, <2>5, <2>6
<1>3. QED BY <1>1, <1>2

(* The same after a step. *)
LEMMA InfoFactsNext ==
  ASSUME IInv'
  PROVE  /\ pendingEntry' = None => PendingEntryInfo' = None
         /\ PendingEntryInfo' \in Contract!Candidate \cup {None}
         /\ pendingEntry' # None => PendingEntryInfo'.since >= LastEnd'
<1>1. CASE pendingEntry' = None
  BY <1>1 DEF PendingEntryInfo
<1>2. CASE pendingEntry' # None
  <2>1. pendingEntry' \in Candidate
    BY <1>2 DEF IInv, TypeOK
  <2>2. /\ pendingEntry'.zone \in Zones /\ pendingEntry'.entryTime \in Nat
        /\ WitnessedStart(pendingEntry') \in BOOLEAN
    BY <2>1 DEF Candidate, WitnessedStart
  <2>3. PendingEntryInfo' = [zone |-> pendingEntry'.zone,
                             since |-> pendingEntry'.entryTime,
                             witnessed |-> WitnessedStart(pendingEntry')]
    BY <1>2 DEF PendingEntryInfo, WitnessedStart
  <2>4. PendingEntryInfo' \in Contract!Candidate
    BY <2>2, <2>3 DEF Contract!Candidate
  <2>5. pendingEntry'.entryTime >= LastEnd'
    BY <1>2, <2>2 DEF IInv, ClockOK, TypeOK, Exit, LastEnd
  <2>6. QED BY <1>2, <2>3, <2>4, <2>5
<1>3. QED BY <1>1, <1>2

(* Outside, what a fix does to the candidate is what the contract allows. *)
LEMMA OutsideImplements ==
  ASSUME IInv, IInv', NEW fix \in NextFixes,
         NEW open, open \in {pendingEntry, None},
         state.kind \in {"Outside", "Exiting"},
         HandleOutside(open, NoTrack, fix)
  PROVE  Contract!Detect(fix.t)
<1> fix.t \in Nat
  BY NextFixTyped DEF IInv, TypeOK, Fix
<1>1. ASSUME NEW candidate, StayOutside(candidate, NoTrack, fix),
             \/ candidate = None
             \/ /\ candidate \in Candidate
                /\ \/ candidate.entryTime = fix.t
                   \/ /\ pendingEntry # None
                      /\ candidate.zone = pendingEntry.zone
                      /\ candidate.entryTime = pendingEntry.entryTime
                      /\ candidate.entryArc = pendingEntry.entryArc
      PROVE  Contract!Detect(fix.t)
  <2>1. /\ state'.kind = "Outside" /\ track'.zone = None
        /\ Entry' = None /\ LastEnd' = LastEnd
        /\ handover' \in {handover, None} /\ pendingEntry' = candidate
    BY <1>1, NoTrackTyped, LiveOfferIsOffer
       DEF StayOutside, Outside, Entry, LastEnd
  <2>2. Offered' => Offered
    BY <2>1 DEF Offered
  <2>3. PendingEntryInfo' = None \/ PendingEntryInfo'.since >= LastEnd
    <3>1. /\ pendingEntry' = None => PendingEntryInfo' = None
          /\ pendingEntry' # None => PendingEntryInfo'.since >= LastEnd'
      BY InfoFactsNext
    <3>2. QED BY <2>1, <3>1
  <2>4. PendingEntryInfo' \in {None, PendingEntryInfo}
          \cup [zone : Zones, since : {fix.t}, witnessed : BOOLEAN]
    <3>1. CASE candidate = None
      BY <2>1, <3>1 DEF PendingEntryInfo
    <3>2. CASE candidate # None
      <4>1. /\ candidate.zone \in Zones
            /\ WitnessedStart(candidate) \in BOOLEAN
        BY <1>1, <3>2 DEF Candidate, WitnessedStart
      <4>2. PendingEntryInfo' = [zone |-> candidate.zone,
                                 since |-> candidate.entryTime,
                                 witnessed |-> WitnessedStart(candidate)]
        BY <2>1, <3>2 DEF PendingEntryInfo, WitnessedStart
      <4>3. CASE candidate.entryTime = fix.t
        BY <4>1, <4>2, <4>3
      <4>4. CASE candidate.entryTime # fix.t
        BY <1>1, <3>2, <4>2, <4>4 DEF PendingEntryInfo, WitnessedStart
      <4>5. QED BY <4>3, <4>4
    <3>3. QED BY <3>1, <3>2
  <2>5. Contract!Look(PendingEntryInfo', Offered')
    BY <2>1, <2>2, <2>3, ContractUnfolds
  <2>6. QED BY <2>4, <2>5, ContractDetects
<1>2. ASSUME NEW zone \in FindMatchingZone(fix.place),
             NEW candidate,
             candidate = AdvancePendingEntry(open, fix, zone,
                                             Arc[zone][fix.place])
      PROVE  /\ candidate \in Candidate /\ candidate.zone = zone
             /\ \/ candidate.fixes = 1 /\ candidate.entryTime = fix.t
                \/ /\ pendingEntry # None /\ pendingEntry.zone = zone
                   /\ candidate.entryTime = pendingEntry.entryTime
                   /\ candidate.entryArc = pendingEntry.entryArc
             /\ IsConfirmed(candidate) => candidate.fixes # 1
  <2>1. zone \in Zones /\ Arc[zone][fix.place] \in Nat
    BY MatchIsZone, ArcTyped DEF NextFixes
  <2>2. /\ candidate \in Candidate /\ candidate.zone = zone
        /\ \/ candidate.fixes = 1 /\ candidate.entryTime = fix.t
           \/ /\ open # None /\ open = pendingEntry
              /\ open.zone = zone
              /\ candidate.entryTime = open.entryTime
              /\ candidate.entryArc = open.entryArc
    BY <1>2, <2>1, CandidateFacts
  <2>3. IsConfirmed(candidate) => candidate.fixes # 1
    BY ThresholdAssumption DEF IsConfirmed, ThresholdAssumption
  <2>4. QED BY <2>2, <2>3
<1>3. ASSUME NEW candidate, NEW zone \in Zones, candidate.zone = zone,
             pendingEntry # None, pendingEntry.zone = zone,
             candidate.entryArc = pendingEntry.entryArc,
             ~WitnessedStart(candidate), OpenUnmeasured(candidate, fix)
      PROVE  Contract!Detect(fix.t)
  <2>1. ~WitnessedStart(pendingEntry)
    BY <1>3 DEF WitnessedStart
  <2>2. state.kind = "Outside"
    BY <1>3 DEF IInv, StateMatchesTrack
  <2>3. /\ state'.kind = "Unmeasured" /\ Entry' = None /\ LastEnd' = LastEnd
        /\ pendingEntry' = None /\ handover' = None /\ track'.zone = zone
    BY <1>3 DEF OpenUnmeasured, OpenTrack, NoTrack, Entry, LastEnd
  <2>4. PendingEntryInfo' = None /\ Offered' = FALSE
    BY <2>3 DEF PendingEntryInfo, Offered
  <2>5. Contract!Join
    BY <1>3, <2>1, <2>2, <2>3, <2>4, InfoFacts, ContractUnfolds
  <2>6. QED BY <2>5, ContractDetects
<1>4. ASSUME NEW candidate, NEW zone \in Zones, candidate.zone = zone,
             OpenTraversal(candidate, fix),
             \/ candidate.entryTime = fix.t /\ handover # None
             \/ /\ pendingEntry # None /\ pendingEntry.zone = zone
                /\ candidate.entryTime = pendingEntry.entryTime
                /\ handover # None \/ WitnessedStart(pendingEntry)
      PROVE  Contract!Detect(fix.t)
  <2>1. /\ state'.kind = "InZone" /\ LastEnd' = LastEnd
        /\ lastExit' = lastExit /\ pendingEntry' = None /\ handover' = None
        /\ track'.zone = zone /\ track'.entryTime = candidate.entryTime
    BY <1>4 DEF OpenTraversal, OpenTrack, NoTrack, LastEnd
  <2>2. Entry' = candidate.entryTime /\ Entry' \in Nat
    BY <2>1 DEF IInv, TypeOK, Track, Entry
  <2>3. Entry' >= LastEnd
    BY <2>1, <2>2 DEF IInv, TraversalsDisjoint, LastEnd
  <2>4. PendingEntryInfo' = None /\ Offered' = FALSE
    BY <2>1 DEF PendingEntryInfo, Offered
  <2>5. CASE handover # None
    <3>1. Contract!HandOver(track'.zone, Entry')
      BY <2>1, <2>3, <2>4, <2>5, ContractUnfolds DEF Offered
    <3>2. CASE candidate.entryTime = fix.t
      BY <2>1, <2>2, <3>1, <3>2, ContractDetects
    <3>3. CASE candidate.entryTime # fix.t
      BY <1>4, <2>1, <2>2, <3>1, <3>3, InfoFacts, ContractDetects
    <3>4. QED BY <3>2, <3>3
  <2>6. CASE handover = None
    <3>1. state.kind = "Outside"
      BY <1>4, <2>6 DEF IInv, StateMatchesTrack
    <3>2. Contract!Confirm
      BY <1>4, <2>1, <2>2, <2>4, <2>6, <3>1, InfoFacts, ContractUnfolds
    <3>3. QED BY <3>2, ContractDetects
  <2>7. QED BY <2>5, <2>6
<1>5. CASE StayOutside(None, NoTrack, fix)
  BY <1>1, <1>5
<1>6. ASSUME NEW zone \in FindMatchingZone(fix.place),
             NEW candidate,
             candidate = AdvancePendingEntry(open, fix, zone,
                                             Arc[zone][fix.place]),
             \/ StayOutside(candidate, NoTrack, fix)
             \/ /\ IsConfirmed(candidate) /\ ~WitnessedStart(candidate)
                /\ OpenUnmeasured(candidate, fix)
             \/ /\ \/ HandedOver(LiveOffer(fix), zone)
                   \/ IsConfirmed(candidate) /\ WitnessedStart(candidate)
                /\ OpenTraversal(candidate, fix)
      PROVE  Contract!Detect(fix.t)
  <2>1. /\ candidate \in Candidate /\ candidate.zone = zone
        /\ \/ candidate.fixes = 1 /\ candidate.entryTime = fix.t
           \/ /\ pendingEntry # None /\ pendingEntry.zone = zone
              /\ candidate.entryTime = pendingEntry.entryTime
              /\ candidate.entryArc = pendingEntry.entryArc
        /\ IsConfirmed(candidate) => candidate.fixes # 1
    BY <1>2, <1>6
  <2>2. zone \in Zones
    BY MatchIsZone
  <2>3. CASE StayOutside(candidate, NoTrack, fix)
    BY <1>1, <2>1, <2>3
  <2>4. CASE /\ IsConfirmed(candidate) /\ ~WitnessedStart(candidate)
             /\ OpenUnmeasured(candidate, fix)
    BY <1>3, <2>1, <2>2, <2>4
  <2>5. CASE /\ \/ HandedOver(LiveOffer(fix), zone)
                \/ IsConfirmed(candidate) /\ WitnessedStart(candidate)
             /\ OpenTraversal(candidate, fix)
    <3>1. HandedOver(LiveOffer(fix), zone) => handover # None
      BY DEF HandedOver, LiveOffer
    <3>2. QED BY <1>4, <2>1, <2>2, <2>5, <3>1 DEF WitnessedStart
  <2>6. QED BY <1>6, <2>3, <2>4, <2>5
<1>7. QED BY <1>5, <1>6 DEF HandleOutside

LEMMA InZoneImplements ==
  ASSUME IInv, NEW fix \in NextFixes, state.kind = "InZone",
         HandleInZone(fix)
  PROVE  Contract!Detect(fix.t)
<1>1. fix.t \in Nat /\ fix.t >= now /\ now \in Nat
  BY NextFixTyped DEF IInv, TypeOK, Fix
<1>2. /\ Integrated(fix) \in Track /\ Integrated(fix).zone = track.zone
      /\ Integrated(fix).entryTime = track.entryTime
      /\ Integrated(fix).stopStart # None =>
           Integrated(fix).stopStart <= fix.t
      /\ Integrated(fix).entryTime + Integrated(fix).stopped
           <= (IF Integrated(fix).stopStart = None
               THEN fix.t ELSE Integrated(fix).stopStart)
  BY IntegratedFacts
<1>3. CASE ContinueTraversal(Integrated(fix), fix)
  <2>1. /\ state'.kind = "InZone" /\ track' = Integrated(fix)
        /\ lastExit' = lastExit /\ pendingEntry' = pendingEntry
        /\ handover' = handover
    BY <1>3 DEF ContinueTraversal
  <2>2. PendingEntryInfo' = PendingEntryInfo /\ Offered' = Offered
    BY <2>1 DEF PendingEntryInfo, Offered, WitnessedStart
  <2>3. UNCHANGED Contract!tvars
    BY <1>2, <2>1, <2>2, ContractUnfolds DEF Entry, LastEnd
  <2>4. QED BY <1>1, <2>3, ContractDetects
<1>4. CASE ExitZone(Integrated(fix), fix)
  <2> DEFINE final == FinalizeStop(Integrated(fix), fix.t)
  <2>1. /\ state'.kind = "Exiting" /\ track' = final
        /\ lastExit' = [zone |-> Integrated(fix).zone, at |-> fix.t,
                        reachedEnd |-> ReachedEnd(Integrated(fix).zone,
                                                  fix.place)]
        /\ handover' = [from |-> Integrated(fix).zone,
                        expiresAt |-> fix.t + COLOCATED_HANDOVER]
        /\ pendingEntry' = pendingEntry
    BY <1>4 DEF ExitZone
  <2>2. /\ final \in Track /\ final.zone = track.zone
        /\ final.entryTime = track.entryTime
        /\ final.entryTime + final.stopped <= fix.t
    BY <1>1, <1>2, FinalizeStopTyped
  <2> HIDE DEF final
  <2>3. track.zone \in Zones
    BY DEF IInv, TypeOK, StateMatchesTrack, ZoneState
  <2>4. lastExit' # None /\ lastExit'.at = fix.t
    <3>1. lastExit' \in Exit
      BY <1>1, <1>2, <2>1, <2>3 DEF Exit, ReachedEnd
    <3>2. QED BY <2>1, <3>1, NoneAssumption
  <2>5. Offered' = TRUE
    <3>1. handover' \in Offer
      BY <1>1, <1>2, <2>1, <2>3, ThresholdAssumption
         DEF Offer, ThresholdAssumption
    <3>2. QED BY <3>1, NoneAssumption DEF Offered
  <2>6. LastEnd' = fix.t
    BY <2>4 DEF LastEnd
  <2>7. Entry' = track.entryTime /\ Entry = track.entryTime
    BY <2>1, <2>2 DEF Entry
  <2>8. fix.t >= track.entryTime
    BY <1>1, <2>2 DEF Track
  <2>9. PendingEntryInfo' = PendingEntryInfo
    BY <2>1 DEF PendingEntryInfo, WitnessedStart
  <2>10. Contract!Finish(LastEnd')
    BY <2>1, <2>2, <2>5, <2>6, <2>7, <2>8, <2>9, ContractUnfolds
  <2>11. QED BY <1>1, <2>6, <2>10, ContractDetects
<1>5. QED BY <1>3, <1>4 DEF HandleInZone

LEMMA UnmeasuredImplements ==
  ASSUME IInv, NEW fix, fix.t \in Nat, state.kind = "Unmeasured",
         HandleUnmeasured(fix)
  PROVE  Contract!Detect(fix.t)
<1>1. CASE LeaveUnmeasured
  <2>1. /\ state'.kind = "Outside" /\ track'.zone = None
        /\ Entry' = None /\ LastEnd' = LastEnd
        /\ pendingEntry' = None /\ handover' = handover
    BY <1>1, NoTrackTyped DEF LeaveUnmeasured, Outside, Entry, LastEnd
  <2>2. PendingEntryInfo' = None /\ (Offered' => Offered)
    BY <2>1 DEF PendingEntryInfo, Offered
  <2>3. Contract!Look(PendingEntryInfo', Offered')
    BY <2>1, <2>2, ContractUnfolds
  <2>4. QED BY <2>2, <2>3, ContractDetects
<1>2. CASE ~LeaveUnmeasured
  <2>1. /\ state'.kind = "Unmeasured" /\ lastExit' = lastExit
        /\ pendingEntry' = pendingEntry /\ handover' = handover
        /\ track' = [track EXCEPT !.arc = Arc[track.zone][fix.place],
                       !.offRoad = OffRoadStreak(track.zone, fix.place)]
    BY <1>2 DEF HandleUnmeasured
  <2>2. track'.zone = track.zone
    BY <2>1 DEF IInv, TypeOK, Track
  <2>3. PendingEntryInfo' = PendingEntryInfo /\ Offered' = Offered
    BY <2>1 DEF PendingEntryInfo, Offered, WitnessedStart
  <2>4. UNCHANGED Contract!tvars
    BY <2>1, <2>2, <2>3, ContractUnfolds DEF Entry, LastEnd
  <2>5. QED BY <2>4, ContractDetects
<1>3. QED BY <1>1, <1>2

LEMMA ResetImplements ==
  ASSUME Reset
  PROVE  Contract!Reset
<1>1. /\ state'.kind = "Outside" /\ track'.zone = None
      /\ Entry' = None /\ LastEnd' = LastEnd
      /\ pendingEntry' = None /\ handover' = None
  BY NoTrackTyped DEF Reset, Outside, Entry, LastEnd
<1>2. PendingEntryInfo' = None /\ Offered' = FALSE
  BY <1>1 DEF PendingEntryInfo, Offered
<1>3. QED BY <1>1, <1>2, ContractUnfolds

(* Every call of update is the contract's step for that fix. *)
LEMMA UpdateDetects ==
  ASSUME IInv, IInv', NEW fix \in NextFixes, Update(fix)
  PROVE  Contract!Detect(fix.t)
<1>1. Handle(fix)
  BY DEF Update
<1>2. fix.t \in Nat
  BY NextFixTyped DEF IInv, TypeOK, Fix
<1>3. CASE state.kind = "Outside" /\ HandleOutside(pendingEntry, track, fix)
  BY <1>3, OutsideImplements DEF IInv, StateMatchesTrack
<1>4. CASE state.kind = "Unmeasured" /\ HandleUnmeasured(fix)
  BY <1>2, <1>4, UnmeasuredImplements
<1>5. CASE state.kind = "InZone" /\ HandleInZone(fix)
  BY <1>5, InZoneImplements
<1>6. CASE state.kind = "Exiting" /\ HandleExiting(fix)
  BY <1>6, OutsideImplements DEF HandleExiting
<1>7. QED BY <1>1, <1>3, <1>4, <1>5, <1>6 DEF Handle

LEMMA StepImplements ==
  ASSUME IInv, IInv', [Next]_vars
  PROVE  Contract!TNext \/ UNCHANGED <<Contract!tvars, now>>
<1>1. CASE UNCHANGED vars
  BY <1>1, ContractUnfolds
     DEF vars, Entry, LastEnd, PendingEntryInfo, Offered, WitnessedStart
<1>2. CASE Reset
  <2>1. Contract!Reset
    BY <1>2, ResetImplements
  <2>2. UNCHANGED now
    BY <1>2 DEF Reset
  <2>3. QED BY <2>1, <2>2 DEF Contract!TNext
<1>3. ASSUME NEW fix \in NextFixes, Update(fix)
      PROVE  Contract!TNext
  <2>1. now' = fix.t /\ fix.t \in Nat /\ fix.t >= now
    BY <1>3, NextFixTyped DEF Update, IInv, TypeOK, Fix
  <2>2. Contract!Detect(now')
    BY <1>3, <2>1, UpdateDetects
  <2>3. QED BY <2>1, <2>2 DEF Contract!TNext
<1>4. QED BY <1>1, <1>2, <1>3 DEF Next

(* The detector implements the contract its consumers rely on, for every
   catalog and every stream of fixes: each call of update is the step that
   Tracking takes for a fix of that time.                                  *)
THEOREM DetectorImplementsContract == Spec => ImplementsContract
<1>1. Init => Contract!TInit /\ now = 0
  BY ContractUnfolds, NoTrackTyped
     DEF Init, Outside, Entry, LastEnd, PendingEntryInfo, Offered
<1>2. IInv /\ IInv' /\ [Next]_vars =>
        [Contract!TNext]_(<<Contract!tvars, now>>)
  BY StepImplements
<1>3. QED BY <1>1, <1>2, InductiveInvariant, PTL
          DEF Spec, ImplementsContract, Contract!TSpec
=============================================================================
