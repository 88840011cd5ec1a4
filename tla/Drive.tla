-------------------------------- MODULE Drive --------------------------------
(***************************************************************************)
(* The zone detector on one straight road, in a car that drives forward.   *)
(* Places are metres along the road; between fixes the car changes speed   *)
(* evenly, so it covers exactly what the trapezoid rule says, during a GPS *)
(* dropout too.  Against this known truth the distance and the averages of *)
(* the detector are checked.                                               *)
(***************************************************************************)
EXTENDS ZoneDetector

CONSTANTS
  Begin,      \* zone -> where it begins along the road
  Cruise,     \* the driving speed
  Lead,       \* tracking starts this far before the road's origin
  Stride,     \* the car never drives further than this between two fixes
  MinStand    \* the car never stands for less than this

ASSUME RoadAssumption ==
  /\ Places \subseteq Int /\ Begin \in [Zones -> Int]
  /\ \A z \in Zones, x \in Places :
       /\ Arc[z][x] = Smaller(Larger(x - Begin[z], 0), Length[z])
       /\ Dist[z][x] >= Begin[z] - x
       /\ ToEnd[z][x] >= Begin[z] + Length[z] - x
  /\ Gaps \subseteq Nat \ {0}
  /\ Lead \in Int /\ Stride \in Nat \ {0}
  /\ \A gap \in Gaps, v, w \in Speeds : ((v + w) * gap) \div 2 <= Stride

VARIABLES
  from,       \* history: where the car was at the entry time in use
  stoodAt     \* when the car last came to a stand

dvars == <<vars, from, stoodAt>>

Driven(gap, speed) ==
  IF lastPoint = None THEN -Lead
  ELSE lastPoint.place + ((lastPoint.speed + speed) * gap) \div 2

Stamps(fix) ==
  \/ pendingEntry' # None /\ pendingEntry'.entryTime = fix.t
  \/ state'.kind = "InZone" /\ track'.entryTime = fix.t

Standing == lastPoint # None /\ lastPoint.speed = 0

Drive(gap, speed) ==
  LET fix == [t |-> now + gap, place |-> Driven(gap, speed), speed |-> speed]
  IN /\ fix.t <= MaxTime /\ fix.place \in Places
     /\ lastPoint = None => speed = Cruise
     /\ Standing /\ speed > 0 => fix.t - stoodAt >= MinStand
     /\ Update(fix)
     /\ from' = IF Stamps(fix) THEN fix.place ELSE from
     /\ stoodAt' = IF speed = 0 /\ ~Standing THEN fix.t ELSE stoodAt

DriveInit == Init /\ from = -Lead /\ stoodAt = 0

DriveNext == \E gap \in Gaps, speed \in Speeds : Drive(gap, speed)

DriveSpec == DriveInit /\ [][DriveNext]_dvars

-----------------------------------------------------------------------------
(* The distance integrator tells the truth: what a traversal has been
   credited with is the road driven since its entry time, short at most of
   the stretch before the start camera that the on-road band lets in.  It
   holds across the confirmation window, stops, the co-located handover and
   GPS dropouts (ZoneDetector.kt, lines 347-355 and 514-537).              *)
DistanceMatchesRoad ==
  state.kind = "InZone" =>
    LET road == lastPoint.place - from
    IN track.distance <= road /\ road - track.distance <= Band[track.zone]

Finished == state.kind = "Exiting" /\ lastExit.reachedEnd

(* "must not be charged for the confirmation window -- the traversal is
   back-dated to the first confirming fix" (ZoneDetectorTest.kt, lines
   750-753; ZoneDetector.kt, lines 347-349) and "with stop excluded, avg speed
   should reflect driving speed" (ZoneDetectorTest.kt, lines 97-99, which
   wants 80 of 130 km/h): the final average of a car that only ever stands or
   cruises, and stands at least STOP_DURATION whenever it stands, is at least
   eight thirteenths of its cruising speed.                                *)
StopsNeverDiluteTheAverage ==
  Finished /\ state.avg # None =>
    13 * state.avg.distance >= 8 * Cruise * state.avg.active

(* "GPS dropout does not deflate the reported average"
   (ZoneDetectorTest.kt, line 827, which wants 85 %): a car at a steady speed
   is reported at no less than 85 % of it when it reaches the zone's end.   *)
DropoutsNeverDeflateTheAverage ==
  Finished /\ state.avg # None =>
    100 * state.avg.distance >= 85 * Cruise * state.avg.active

-----------------------------------------------------------------------------
(* Which zones such a drive can count on. *)
End(z) == Begin[z] + Length[z]
Reach(z) == Begin[z] - Band[z]
Within(x, low, high) == low <= x /\ x < high

(* Nothing stands in the way of zone z: tracking starts before its camera, the
   first fix its band holds is early enough to witness the entry, it is the
   only zone the road matches until it ends, and what was before it is over. *)
FirstSeenBy(z) == IF -Lead < Reach(z) THEN Reach(z) + Stride ELSE -Lead

Approached(z) ==
  /\ EXIT_DISTANCE_M < Length[z] /\ RequiredProgress(z) > 0
  /\ -Lead < Begin[z] /\ FirstSeenBy(z) <= Begin[z] + START_WITNESS_ARC_M
  /\ \A x \in Places :
       /\ Within(x, Reach(z), End(z)) => FindMatchingZone(x) = {z}
       /\ x < Reach(z) =>
            \A y \in FindMatchingZone(x) : End(y) + Stride <= Reach(z)

(* Zone z takes over where zone p ends, with a shared camera. *)
Follows(p, z) ==
  /\ p # z /\ z \in Continues[p] /\ EndToStart[p][z] <= COLOCATED_CAMERA_M
  /\ EXIT_DISTANCE_M < Length[p] /\ EXIT_DISTANCE_M < Length[z]
  /\ RequiredProgress(z) > 0 /\ Reach(z) <= End(p)
  /\ \A x \in Places :
       /\ End(p) - EXIT_DISTANCE_M <= x /\ x <= End(p) =>
            FindMatchingZone(x) \subseteq {p, z}
       /\ End(p) < x /\ x < End(z) => FindMatchingZone(x) = {z}
       /\ Within(x, Reach(z), End(z)) => OnRoad(z, x)

ApproachedZones == {z \in Zones : Approached(z)}
Successions == {s \in Zones \X Zones : Follows(s[1], s[2])}

(* The longest silence is neither a lost candidate nor a lost offer, and two
   fixes confirm (ENTRY_CONFIRM_FIXES, ENTRY_CONFIRM_TIMEOUT_MS and
   COLOCATED_HANDOVER_MS).                                                 *)
Steady ==
  /\ ENTRY_CONFIRM_FIXES = 2
  /\ \A gap \in Gaps : gap <= ENTRY_CONFIRM_TIMEOUT /\ gap <= COLOCATED_HANDOVER

(* Where a zone first seen before m is confirmed. *)
ConfirmedBy(z, m) == Larger(m, Begin[z]) + RequiredProgress(z)

Measured(z) == state.kind = "InZone" /\ state.zone = z
Shown(z) == state.kind \in {"InZone", "Unmeasured"} /\ state.zone = z

(* A drive tracked from before the first camera, with no silence longer than
   the confirmation timeout, is never missed.  The first zone is measured from
   where confirmation must be over to the exit distance.  A zone that takes
   over at a shared camera is measured at once when the car has passed that
   camera within the handover window, however long the silences; otherwise it
   is at least shown, after its own confirmation (ZoneDetector.kt, lines
   249-345, 409-470 and 567-589).                                          *)
TrackedDriveIsMeasured ==
  lastPoint # None =>
    LET x == lastPoint.place
    IN /\ Steady => \A z \in ApproachedZones :
            Within(x, ConfirmedBy(z, FirstSeenBy(z)), End(z) - EXIT_DISTANCE_M)
              => Measured(z)
       /\ \A s \in Successions :
            LET p == s[1]  z == s[2]
            IN /\ /\ lastExit # None /\ lastExit.zone = p /\ lastExit.reachedEnd
                  /\ now <= lastExit.at + COLOCATED_HANDOVER
                  /\ Within(x, End(p) + Stride, End(z) - EXIT_DISTANCE_M)
                  => Measured(z)
               /\ /\ Steady /\ p \in ApproachedZones
                  /\ Within(x, ConfirmedBy(z, End(p) + Stride),
                            End(z) - EXIT_DISTANCE_M)
                  => Shown(z)

=============================================================================
