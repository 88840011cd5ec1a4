------------------------------ MODULE ZoneMerge ------------------------------
(***************************************************************************)
(* validator.py: the zones of the three sources are matched into sections,  *)
(* each match is merged field by field, sections BG TOLL does not publish   *)
(* are dropped, and what remains is numbered, joined at shared cameras,     *)
(* aligned with its centerline and validated.                               *)
(***************************************************************************)
EXTENDS Sources

CONSTANTS
  CloseM,         \* threshold_m of _coords_close
  SnapM,          \* JUNCTION_SNAP_M
  JunctionMinM,   \* JUNCTION_GAP_MIN_M
  JunctionMaxM,   \* JUNCTION_GAP_MAX_M
  SnapEpsM,       \* GEOMETRY_SNAP_EPS_M
  Required        \* REQUIRED_MOTORWAYS

ASSUME MergeAssumption ==
  /\ {CloseM, SnapM, JunctionMinM, JunctionMaxM, SnapEpsM} \subseteq Nat
  /\ JunctionMinM <= SnapM /\ SnapM <= JunctionMaxM

-----------------------------------------------------------------------------
(* Matching *)

GroupKey(zone) == <<zone.road, zone.direction>>

HasKm(zone) == zone.start.km # None /\ zone.end.km # None

HasCoords(zone) == zone.start.at # 0

(* Mutant of KmRangesOverlap: ranges that only touch count as well. *)
KmRangesTouch(a, b) ==
  /\ HasKm(a) /\ HasKm(b)
  /\ Max({a.start.km, a.end.km}) >= Min({b.start.km, b.end.km})
  /\ Max({b.start.km, b.end.km}) >= Min({a.start.km, a.end.km})

(* At least half of the shorter range is common to both. *)
KmRangesOverlap(a, b) ==
  /\ HasKm(a) /\ HasKm(b)
  /\ LET aMin == Min({a.start.km, a.end.km})
         aMax == Max({a.start.km, a.end.km})
         bMin == Min({b.start.km, b.end.km})
         bMax == Max({b.start.km, b.end.km})
         overlap == Min({aMax, bMax}) - Max({aMin, bMin})
         shorter == Min({aMax - aMin, bMax - bMin})
     IN shorter > 0 /\ 2 * overlap >= shorter

Names(zone) == <<NormalizeSettlement(zone.start.settlement),
                 NormalizeSettlement(zone.end.settlement)>>

SettlementsMatch(a, b) ==
  /\ Names(a)[1] # None /\ Names(b)[1] # None
  /\ Names(a) \in {Names(b), Reverse(Names(b))}

CoordsClose(a, b) ==
  /\ HasCoords(a) /\ HasCoords(b)
  /\ LET forward == Max({HaversineM(a.start.at, b.start.at),
                         HaversineM(a.end.at, b.end.at)})
         reverse == Max({HaversineM(a.start.at, b.end.at),
                         HaversineM(a.end.at, b.start.at)})
     IN Min({forward, reverse}) < CloseM

Score(a, b) == (IF SettlementsMatch(a, b) THEN 5 ELSE 0)
             + (IF KmRangesOverlap(a, b) THEN 3 ELSE 0)
             + (IF CoordsClose(a, b) THEN 2 ELSE 0)

(* The first of the best-scoring candidates of the zone's group, if there is
   any: a choice is a set of at most one.                                  *)
BestAmong(zone, candidates, free) ==
  LET group == {i \in free : GroupKey(candidates[i]) = GroupKey(zone)}
      top == Max({0} \cup {Score(zone, candidates[i]) : i \in group})
      best == {i \in group : Score(zone, candidates[i]) = top}
  IN IF top = 0 THEN {{}} ELSE {{i} : i \in {i \in best : \A k \in best : i <= k}}

(* Mutant of Best: a candidate that is already matched is taken again. *)
BestOfAll(zone, candidates, used) == BestAmong(zone, candidates, DOMAIN candidates)

Best(zone, candidates, used) ==
  BestAmong(zone, candidates, DOMAIN candidates \ used)

Indices(zones) == [i \in DOMAIN zones |-> i]

(* A dict of lists keeps its groups in the order they first appear. *)
GroupStart(zones, i) ==
  Min({k \in DOMAIN zones : GroupKey(zones[k]) = GroupKey(zones[i])})

ComesBefore(zones, i, k) ==
  \/ GroupStart(zones, i) < GroupStart(zones, k)
  \/ GroupStart(zones, i) = GroupStart(zones, k) /\ i <= k

(* A match holds at most one reading of each source, by its index. *)
NoMatch == [bgtoll |-> {}, tolltracker |-> {}, kml |-> {}]

-----------------------------------------------------------------------------
(* Merging *)

MaxLimit ==
  [motorway |-> [car |-> 140, truck |-> 90, bus |-> 100, motorcycle |-> 140],
   road |-> [car |-> 90, truck |-> 80, bus |-> 80, motorcycle |-> 90]]

LimitIsPlausible(road, vehicle, value) ==
  /\ value > 0
  /\ value <= MaxLimit[IF IsMotorway(road) THEN "motorway" ELSE "road"][vehicle]

FlipZone(zone) ==
  [zone EXCEPT !.start = zone.end, !.end = zone.start,
     !.centerline = Reverse(@), !.direction = OppositeDirection(@),
     !.description = IF None \in {zone.start.settlement, zone.end.settlement}
                     THEN @
                     ELSE <<zone.end.settlement, zone.start.settlement>>]

(* 1 when the zone runs the way the primary does, -1 when it is reversed and
   0 when nothing tells.                                                   *)
OrientationByKm(zone, primary) ==
  IF /\ HasKm(zone) /\ primary.road \in DOMAIN RoadDirections
     /\ primary.direction \in Range(RoadDirections[primary.road])
  THEN IF (primary.direction = RoadDirections[primary.road][1])
            <=> (zone.end.km > zone.start.km) THEN 1 ELSE -1
  ELSE 0

Orientation(zone, primary) ==
  LET forward == HaversineM(zone.start.at, primary.start.at)
                   + HaversineM(zone.end.at, primary.end.at)
      reverse == HaversineM(zone.start.at, primary.end.at)
                   + HaversineM(zone.end.at, primary.start.at)
      a == Names(zone)
      b == Names(primary)
      Agree(names) == \E i \in 1..2 : a[i] = names[i] /\ a[i] # None
      named == a[1] # None /\ b[1] # None
  IN IF HasCoords(zone) /\ HasCoords(primary)
     THEN IF forward <= reverse THEN 1 ELSE -1
     ELSE IF named /\ Agree(b) THEN 1
     ELSE IF named /\ Agree(Reverse(b)) THEN -1
     ELSE OrientationByKm(zone, primary)

(* Mutant of OrientTo: sources are merged as they come. *)
LeaveOrientation(zone, primary) == zone

OrientTo(zone, primary) ==
  IF zone # primary /\ Orientation(zone, primary) = -1
  THEN FlipZone(zone) ELSE zone

(* The readings of a match are a function on the sources that have one.  A
   field is that of the first source, in the order of its authority, that has
   it; a zone without anything stands for none.                            *)
Blank ==
  [start |-> Endpoint(0, None, None, None), end |-> Endpoint(0, None, None, None),
   limits |-> [vehicle \in Vehicles |-> None], centerline |-> <<>>]

FirstWith(read, order, Has(_)) ==
  LET having == {i \in DOMAIN order : /\ order[i] \in DOMAIN read
                                      /\ Has(read[order[i]])}
  IN IF having = {} THEN Blank ELSE read[order[Min(having)]]

FirstOf(read, order) == FirstWith(read, order, LAMBDA zone : TRUE)

LimitOrder == <<"kml", "tolltracker", "bgtoll">>

(* Mutant of PickLimit: the map's word is taken whatever it says. *)
PickOffered(road, vehicle, read) ==
  FirstWith(read, LimitOrder, LAMBDA zone : zone.limits[vehicle] # None).limits[vehicle]

PickLimit(road, vehicle, read) ==
  LET Offers(zone) == zone.limits[vehicle] # None
      Plausible(zone) ==
        Offers(zone) /\ LimitIsPlausible(road, vehicle, zone.limits[vehicle])
      plausible == FirstWith(read, LimitOrder, Plausible).limits[vehicle]
  IN IF plausible # None THEN plausible
     ELSE FirstWith(read, LimitOrder, Offers).limits[vehicle]

(* merge_match turns the other sources to the travel direction of the one that
   has surveyed the section.                                               *)
Primary(read) == FirstOf(read, <<"tolltracker", "kml", "bgtoll">>)

Oriented(read) ==
  [source \in DOMAIN read |-> OrientTo(read[source], Primary(read))]

(* Each field of an end has its own order of sources, and both ends of a zone
   take it from the same one.                                              *)
MergedEnd(read, end) ==
  LET stated == <<"bgtoll", "kml", "tolltracker">>
      coords == FirstWith(read, <<"tolltracker", "kml", "bgtoll">>, HasCoords)
      km == FirstWith(read, stated, LAMBDA zone : zone.start.km # None)
      settlement == FirstWith(read, stated,
                              LAMBDA zone : zone.start.settlement # None)
      latin == FirstWith(read, <<"tolltracker", "kml">>,
                         LAMBDA zone : zone.start.latin # None)
  IN Endpoint(coords[end].at, km[end].km, settlement[end].settlement,
              latin[end].latin)

MergeMatch(match) ==
  LET read == Oriented(match)
      start == MergedEnd(read, "start")
      end == MergedEnd(read, "end")
      drawn == FirstWith(read, <<"kml", "tolltracker">>,
                         LAMBDA zone : zone.centerline # <<>>)
  IN [id |-> None,
      road |-> FirstOf(read, <<"kml", "bgtoll", "tolltracker">>).road,
      direction |-> Primary(match).direction,
      description |-> IF start.settlement # None /\ end.settlement # None
                      THEN <<start.settlement, end.settlement>>
                      ELSE <<"unknown", "unknown">>,
      start |-> start, end |-> end,
      distance |-> FirstOf(read, LimitOrder).distance,
      limits |-> [vehicle \in Vehicles |->
        PickLimit(FirstOf(read, <<"bgtoll", "tolltracker", "kml">>).road,
                  vehicle, read)],
      centerline |-> drawn.centerline,
      source |-> UNION {read[source].source : source \in DOMAIN read}]

OfficialSources == {"bgtoll", "kml"}

DropUnofficial(zones) ==
  SelectSeq(zones, LAMBDA zone : zone.source \cap OfficialSources # {})

-----------------------------------------------------------------------------
(* Numbering.  Zones of one road are sorted by the km their start carries, or
   by where they start; the two directions of a section share a number.    *)
SortKey(zone) == IF zone.start.km # None THEN zone.start.km ELSE zone.start.at

Sorted(zones) ==
  LET order == SortSeq(Indices(zones), LAMBDA i, k :
                 \/ SortKey(zones[i]) < SortKey(zones[k])
                 \/ SortKey(zones[i]) = SortKey(zones[k]) /\ i < k)
  IN [i \in DOMAIN order |-> zones[order[i]]]

(* The km of both ends rounded to 100 m, or the two settlements. *)
BaseKey(zone) ==
  IF HasKm(zone)
  THEN [km |-> {(zone.start.km + 50) \div 100, (zone.end.km + 50) \div 100},
        names |-> {}]
  ELSE [km |-> {}, names |-> Range(Names(zone))]

Occurrences(zones, i) ==
  Cardinality({k \in 1..(i - 1) : /\ zones[k].direction = zones[i].direction
                                  /\ BaseKey(zones[k]) = BaseKey(zones[i])})

SectionKey(zones, i) == [base |-> BaseKey(zones[i]),
                         occurrence |-> Occurrences(zones, i)]

AssignRoadIds(zones) ==
  LET keys == [i \in DOMAIN zones |-> SectionKey(zones, i)]
      first == [i \in DOMAIN zones |->
                  Min({k \in DOMAIN zones : keys[k] = keys[i]})]
  IN [i \in DOMAIN zones |->
        [zones[i] EXCEPT !.id =
           [road |-> zones[i].road, direction |-> zones[i].direction,
            sequence |-> Cardinality({first[k] : k \in 1..first[i]})]]]

AssignIds(zones) ==
  FlattenSeq([r \in DOMAIN RoadNames |->
    AssignRoadIds(Sorted(SelectSeq(zones, LAMBDA zone :
                                            zone.road = RoadNames[r])))])

-----------------------------------------------------------------------------
(* Shared cameras *)

IsSeam(a, b) ==
  LET gap == HaversineM(a.end.at, b.start.at)
  IN /\ HasCoords(a) /\ HasCoords(b) /\ GroupKey(a) = GroupKey(b)
     /\ gap > 0
     /\ \/ gap <= SnapM
        \/ a.end.km # None /\ a.end.km = b.start.km /\ gap < JunctionMaxM

(* Mutant of SnapSeam: nothing is moved. *)
LeaveSeam(zones, a, b) == zones

SnapSeam(zones, a, b) ==
  IF /\ "tolltracker" \in zones[b].source
     /\ "tolltracker" \notin zones[a].source
  THEN [zones EXCEPT ![a].end.at = zones[b].start.at]
  ELSE [zones EXCEPT ![b].start.at = zones[a].end.at]

(* The zones of a group are sorted by id, and each is tried against each. *)
Sooner(zones, i, k) ==
  \/ zones[i].id.sequence < zones[k].id.sequence
  \/ zones[i].id.sequence = zones[k].id.sequence /\ i < k

TriedBefore(zones, p, q) ==
  \/ Sooner(zones, p[1], q[1])
  \/ p[1] = q[1] /\ Sooner(zones, p[2], q[2])

(* The seams there are among the pairs that are still to be tried. *)
SeamsAfter(zones, last) ==
  {p \in (DOMAIN zones) \X (DOMAIN zones) :
     /\ p[1] # p[2] /\ IsSeam(zones[p[1]], zones[p[2]])
     /\ last # <<>> => TriedBefore(zones, last, p)}

(* The line begins at the zone's start and ends at its end: a terminal that
   is close is moved there, else the endpoint becomes a point of the line. *)
Travelled(line, start) ==
  IF HaversineM(Head(line), start) > HaversineM(Last(line), start)
  THEN Reverse(line) ELSE line

Begun(line, start) ==
  <<start>> \o (IF HaversineM(Head(line), start) <= SnapEpsM THEN Tail(line)
                ELSE line)

Ended(line, end) ==
  Append(IF HaversineM(Last(line), end) <= SnapEpsM THEN Front(line) ELSE line,
         end)

AlignedLine(line, start, end) ==
  Ended(Begun(Travelled(line, start), start), end)

AlignCenterline(zone) ==
  LET line == AlignedLine(zone.centerline, zone.start.at, zone.end.at)
  IN IF Len(zone.centerline) < 2 THEN zone
     ELSE [zone EXCEPT !.centerline = line,
                       !.distance = Max({1, PolylineLengthM(line)})]

(* output.realign_existing: --realign aligns a published catalog again. *)
RealignExisting(zones) == [i \in DOMAIN zones |-> AlignCenterline(zones[i])]

-----------------------------------------------------------------------------
(* Validation: a zone that repeats an id or has no length is left out, and
   what looks wrong is warned about.                                       *)
DuplicateId(zones, i) == \E k \in 1..(i - 1) : zones[k].id = zones[i].id

Unrepeated(zones) ==
  LET kept == SelectSeq(Indices(zones), LAMBDA i : ~DuplicateId(zones, i))
  IN [i \in DOMAIN kept |-> zones[kept[i]]]

Valid(zones) == SelectSeq(Unrepeated(zones), LAMBDA zone : zone.distance > 0)

(* A zone without a length is not looked at any further. *)
EarlyWarnings == {"no_coordinates", "untabled_road", "invalid_distance"}
LateWarnings == {"no_limit", "impossible_limit", "reversed_centerline",
                 "latin_name", "km_order", "description"}

WarningsOf(zone) ==
  {w \in EarlyWarnings \cup (IF zone.distance > 0 THEN LateWarnings ELSE {}) :
     CASE w = "no_coordinates" -> zone.start.at = 0
       [] w = "untabled_road" -> zone.road \notin DOMAIN RoadDirections
       [] w = "invalid_distance" -> zone.distance <= 0
       [] w = "no_limit" ->
            \E v \in Vehicles \ {"motorcycle"} : zone.limits[v] = None
       [] w = "impossible_limit" ->
            \E v \in Vehicles \ {"motorcycle"} :
              /\ zone.limits[v] # None
              /\ ~LimitIsPlausible(zone.road, v, zone.limits[v])
       [] w = "reversed_centerline" ->
            /\ Len(zone.centerline) >= 2
            /\ HaversineM(Head(zone.centerline), zone.start.at)
                 > HaversineM(Last(zone.centerline), zone.start.at)
       [] w = "latin_name" ->
            \E e \in {zone.start, zone.end} :
              /\ e.settlement # None /\ e.latin # None
              /\ e.settlement.place # e.latin
       [] w = "km_order" ->
            /\ HasKm(zone) /\ zone.start.km # zone.end.km
            /\ OrientationByKm(zone, zone) = -1
       [] w = "description" ->
            /\ zone.start.settlement # None /\ zone.end.settlement # None
            /\ zone.description # <<zone.start.settlement, zone.end.settlement>>}

(* Mutant of ZoneWarnings: a zone without coordinates is not warned about. *)
WarningsBesidesCoordinates(zone) == WarningsOf(zone) \ {"no_coordinates"}

ZoneWarnings(zone) == WarningsOf(zone)

JunctionGap(a, b) ==
  /\ a # b /\ GroupKey(a) = GroupKey(b) /\ a.end.at # 0 /\ HasCoords(b)
  /\ JunctionMinM < HaversineM(a.end.at, b.start.at)
  /\ HaversineM(a.end.at, b.start.at) < JunctionMaxM

(* Each warning names the zone it is about, or the motorway that has none. *)
MissingCoverage(roads) == {"missing_coverage"} \X (Required \ roads)

Validate(zones) ==
  LET kept == Valid(zones)
  IN UNION {ZoneWarnings(zone) \X {zone.id} : zone \in Range(Unrepeated(zones))}
     \cup MissingCoverage({zone.road : zone \in Range(kept)})
     \cup {<<"junction_gap", p[1].id>> :
             p \in {q \in Range(kept) \X Range(kept) : JunctionGap(q[1], q[2])}}
     \cup {<<"duplicate_id", zones[i].id>> :
             i \in {k \in DOMAIN zones : DuplicateId(zones, k)}}

-----------------------------------------------------------------------------
(* What the published clients cannot take (client_contract._check_zone and
   _check_constraints, with the rules of wire-v1.json): a limit that is not
   there is no key on the wire, and one such zone fails the whole feed.    *)
WireViolations(zone) ==
  {rule \in {"speed_limits", "centerline_min_points", "endpoints_non_zero",
             "positive_integer", "positive_limits"} :
     CASE rule = "speed_limits" ->
            \E v \in Vehicles \ {"motorcycle"} : zone.limits[v] = None
       [] rule = "centerline_min_points" -> Len(zone.centerline) < 2
       [] rule = "endpoints_non_zero" -> 0 \in {zone.start.at, zone.end.at}
       [] rule = "positive_integer" -> zone.distance <= 0
       [] rule = "positive_limits" ->
            \E v \in Vehicles \ {"motorcycle"} :
              zone.limits[v] # None /\ zone.limits[v] <= 0}
=============================================================================
