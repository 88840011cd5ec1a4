------------------------------- MODULE Sources -------------------------------
(***************************************************************************)
(* What the three scrapers make of the pages they read: BG TOLL's table,    *)
(* TollTracker's vector tiles and BG TOLL's own map (KML) each describe the *)
(* same enforced sections, and each becomes a sequence of zones.            *)
(*                                                                         *)
(* A road is a straight line.  A coordinate is a place on it in metres, and *)
(* 0 stands for the (0.0, 0.0) of a zone without coordinates; the distance  *)
(* of two coordinates is their difference.  A km marker is a number of      *)
(* metres too, counted along the road from its own origin.  A settlement is *)
(* its place (which is also its name in Latin letters), the name a source   *)
(* gives it and whether that source puts the name in quotation marks.       *)
(***************************************************************************)
EXTENDS Integers, Sequences, FiniteSets, FiniteSetsExt, Functions, Folds,
        SequencesExt

CONSTANTS
  None,
  JoinM,          \* STITCH_JOIN_M
  Zooms,          \* DETAIL_ZOOMS, finest first
  BgMin, BgMax    \* the country's bounds

ASSUME SourcesAssumption ==
  /\ JoinM \in Nat /\ BgMin \in Nat \ {0} /\ BgMax \in Nat
  /\ None \notin Int

Abs(x) == IF x < 0 THEN -x ELSE x

HaversineM(a, b) == Abs(a - b)

(* geo.polyline_length_m *)
PolylineLengthM(centerline) ==
  FoldLeftDomain(LAMBDA sum, i :
                   IF i = 1 THEN 0
                   ELSE sum + HaversineM(centerline[i - 1], centerline[i]),
                 0, centerline)

(* geo.point_to_polyline_m: zero on the line, else the nearest vertex. *)
PointToPolylineM(point, centerline) ==
  Min({HaversineM(point, centerline[i]) : i \in DOMAIN centerline} \cup
      {0 : i \in {k \in 2..Len(centerline) :
                    \/ centerline[k - 1] <= point /\ point <= centerline[k]
                    \/ centerline[k] <= point /\ point <= centerline[k - 1]}})

(* zone_schema.Zone.check_coordinates_in_bulgaria: a zone elsewhere cannot be
   made, and its scraper goes on with the next.                            *)
InBulgaria(zone) ==
  \A end \in {zone.start, zone.end} :
    end.at = 0 \/ (BgMin <= end.at /\ end.at <= BgMax)

-----------------------------------------------------------------------------
(* One road of each kind the tables tell apart: a motorway whose km grow to
   the east, one whose km grow to the south, a class-I road, and a diagonal
   class-I road the tables do not list.                                    *)
RoadNames == <<"A1", "A3", "I8", "I9">>

IsMotorway(road) == road \in {"A1", "A3"}

RoadDirections ==
  [road \in {"A1", "A3", "I8"} |->
     IF road = "A3" THEN <<"south", "north">> ELSE <<"east", "west">>]

RoadAxis ==
  [road \in {"A1", "A3", "I8"} |-> IF road = "A3" THEN "lat" ELSE "lng"]

(* A latitude grows to the north and a longitude to the east.  The bearing
   of the unlisted road falls into the southern and northern quadrants.    *)
InferDirectionFromCoords(from, to, road) ==
  CASE road \notin DOMAIN RoadAxis -> IF to > from THEN "south" ELSE "north"
    [] road \in DOMAIN RoadAxis /\ RoadAxis[road] = "lng" ->
         IF to > from THEN "east" ELSE "west"
    [] OTHER -> IF to > from THEN "north" ELSE "south"

InferDirectionFromKm(road, from, to) ==
  IF road \in DOMAIN RoadDirections
  THEN RoadDirections[road][IF to > from THEN 1 ELSE 2]
  ELSE IF to > from THEN "east" ELSE "west"

OppositeDirection(direction) ==
  CASE direction = "east" -> "west" [] direction = "west" -> "east"
    [] direction = "north" -> "south" [] direction = "south" -> "north"

(* Two spellings of one settlement, with and without quotation marks, are
   the same to the matcher.                                                *)
NormalizeSettlement(settlement) ==
  IF settlement = None THEN None ELSE settlement.name

-----------------------------------------------------------------------------
Vehicles == {"car", "truck", "bus", "motorcycle"}

MotorwaySpeedLimits ==
  [car |-> 140, truck |-> 90, bus |-> 100, motorcycle |-> 140]
NationalRoadSpeedLimits ==
  [car |-> 90, truck |-> 80, bus |-> 80, motorcycle |-> 90]

RoadClassLimits(road) ==
  IF IsMotorway(road) THEN MotorwaySpeedLimits ELSE NationalRoadSpeedLimits

Endpoint(at, km, settlement, latin) ==
  [at |-> at, km |-> km, settlement |-> settlement, latin |-> latin]

(* bgtoll_scraper.to_zones: a row without both markers, or of no length, is
   skipped; limits are the statutory ones, and there are no coordinates.   *)
BgTollZone(row) ==
  [id |-> None, road |-> row.road,
   direction |-> InferDirectionFromKm(row.road, row.from.km, row.to.km),
   description |-> <<row.from.settlement, row.to.settlement>>,
   start |-> Endpoint(0, row.from.km, row.from.settlement, None),
   end |-> Endpoint(0, row.to.km, row.to.settlement, None),
   distance |-> Abs(row.to.km - row.from.km),
   limits |-> RoadClassLimits(row.road),
   centerline |-> <<>>, source |-> {"bgtoll"}]

BgTollZones(rows) ==
  LET usable == SelectSeq(rows, LAMBDA row : /\ row.from.km # None
                                             /\ row.to.km # None
                                             /\ row.from.km # row.to.km)
  IN [i \in DOMAIN usable |-> BgTollZone(usable[i])]

-----------------------------------------------------------------------------
(* tolltracker_fetcher.stitch_pieces: the piece's point nearest the chain's
   end marks the seam, and what lies beyond it is added.                   *)
Nearest(piece, point) ==
  CHOOSE i \in DOMAIN piece :
    \A k \in DOMAIN piece :
      \/ HaversineM(piece[i], point) < HaversineM(piece[k], point)
      \/ HaversineM(piece[i], point) = HaversineM(piece[k], point) /\ i <= k

Near(piece, point) == HaversineM(piece[Nearest(piece, point)], point) <= JoinM

Attach(stitching, piece) ==
  LET chain == stitching.chain
      atEnd == Nearest(piece, Last(chain))
      atStart == Nearest(piece, Head(chain))
  IN IF Near(piece, Last(chain)) /\ atEnd < Len(piece)
     THEN [stitching EXCEPT !.chain = chain \o
                                        SubSeq(piece, atEnd + 1, Len(piece))]
     ELSE IF Near(piece, Head(chain)) /\ atStart > 1
     THEN [stitching EXCEPT !.chain = SubSeq(piece, 1, atStart - 1) \o chain]
     ELSE [stitching EXCEPT !.pending = Append(@, piece)]

(* Duplicates are dropped, the longest piece comes first, and the rest is
   gone through as often as there are pieces: a pass that attaches nothing
   is the last one that could.                                             *)
StitchPieces(pieces) ==
  LET unique == FoldLeft(LAMBDA seen, piece :
                           IF Contains(seen, piece) THEN seen
                           ELSE Append(seen, piece), <<>>, pieces)
      longest == CHOOSE i \in DOMAIN unique :
                   \A k \in DOMAIN unique :
                     \/ Len(unique[i]) > Len(unique[k])
                     \/ Len(unique[i]) = Len(unique[k]) /\ i <= k
      begun == [chain |-> unique[longest], pending |-> RemoveAt(unique, longest)]
      done == FoldLeft(LAMBDA stitching, round :
                         FoldLeft(Attach, [stitching EXCEPT !.pending = <<>>],
                                  stitching.pending),
                       begun, pieces)
  IN [centerline |-> done.chain,
      complete |-> \A i \in DOMAIN done.pending :
                     \A k \in DOMAIN done.pending[i] :
                       Near(done.chain, done.pending[i][k])]

(* tolltracker_fetcher.scrape, second phase: walk down the zoom ladder until
   the pieces make one line of the declared length, else keep the best.    *)
StitchedGeometry(feature) ==
  LET Try(best, stitched) ==
        IF best.done \/ stitched = None THEN best
        ELSE LET error == Abs(PolylineLengthM(stitched.centerline)
                                - feature.length)
                 better == best.error = None \/ error < best.error
             IN [done |-> stitched.complete /\ 10 * error <= feature.length,
                 error |-> IF better THEN error ELSE best.error,
                 line |-> IF better THEN stitched.centerline ELSE best.line]
  IN FoldLeft(Try, [done |-> FALSE, error |-> None, line |-> None],
              [z \in DOMAIN Zooms |->
                 IF feature.pieces[Zooms[z]] = <<>> THEN None
                 ELSE StitchPieces(feature.pieces[Zooms[z]])])

Stitched(sections) ==
  [n \in DOMAIN sections |->
     [line |-> StitchedGeometry(sections[n]).line] @@ sections[n]]

(* tolltracker_fetcher.road_lookup_from_zones *)
RoadLookup(zones) ==
  FoldLeft(LAMBDA lookup, zone :
             LET pair == {NormalizeSettlement(zone.start.settlement),
                          NormalizeSettlement(zone.end.settlement)}
             IN IF None \in pair THEN lookup
                ELSE [p \in DOMAIN lookup \cup {pair} |->
                        IF p = pair THEN zone.road ELSE lookup[p]],
           [p \in {} |-> None], zones)

(* tolltracker_fetcher.parse_feature: a title without a road is placed by
   its settlements, or is not placed at all.                               *)
TollTrackerRoad(feature, lookup) ==
  LET pair == {NormalizeSettlement(feature.from),
               NormalizeSettlement(feature.to)}
  IN IF feature.road # None THEN feature.road
     ELSE IF pair \in DOMAIN lookup THEN lookup[pair] ELSE None

TollTrackerZone(feature, road, line) ==
  [id |-> feature.id, road |-> road,
   direction |-> InferDirectionFromCoords(Head(line), Last(line), road),
   description |-> <<feature.from, feature.to>>,
   start |-> Endpoint(Head(line), None, feature.from, feature.from.place),
   end |-> Endpoint(Last(line), None, feature.to, feature.to.place),
   distance |-> feature.length,
   limits |-> [vehicle \in Vehicles |->
                 IF vehicle = "car" THEN feature.limit ELSE None],
   centerline |-> line, source |-> {"tolltracker"}]

TollTrackerZones(features, lookup) ==
  LET Zone(feature) ==
        TollTrackerZone(feature, TollTrackerRoad(feature, lookup), feature.line)
      usable == SelectSeq(features, LAMBDA feature :
                  /\ TollTrackerRoad(feature, lookup) # None
                  /\ feature.line # None
                  /\ InBulgaria(Zone(feature)))
  IN [i \in DOMAIN usable |-> Zone(usable[i])]

-----------------------------------------------------------------------------
(* kml_scraper._assign_settlements_to_endpoints: the two names of a segment
   are unordered; the cameras that carry them tell which end is which.     *)
CameraOf(settlement, cameras) ==
  LET named == SelectSeq(cameras, LAMBDA camera :
                                    camera.name = settlement.name)
  IN IF named = <<>> THEN None ELSE Head(named).at

AssignSettlements(a, b, from, to, cameras) ==
  LET ca == CameraOf(a, cameras)
      cb == CameraOf(b, cameras)
      asNamed ==
        CASE ca # None /\ cb # None ->
               HaversineM(ca, from) <= HaversineM(cb, from)
          [] ca # None /\ cb = None ->
               HaversineM(ca, from) <= HaversineM(ca, to)
          [] ca = None /\ cb # None ->
               HaversineM(cb, from) > HaversineM(cb, to)
          [] OTHER -> TRUE
  IN IF asNamed THEN <<a, b>> ELSE <<b, a>>

(* kml_scraper._find_camera_km: the nearest camera that lies on the segment,
   else the nearest one.                                                   *)
FindCameraKm(at, centerline, cameras) ==
  LET near == SelectSeq(cameras, LAMBDA camera :
                /\ camera.km # None /\ HaversineM(at, camera.at) < 1500)
      onSegment == SelectSeq(near, LAMBDA camera :
                     PointToPolylineM(camera.at, centerline) <= 60)
      candidates == IF onSegment = <<>> THEN near ELSE onSegment
      distances == [i \in DOMAIN candidates |->
                      HaversineM(at, candidates[i].at)]
  IN IF candidates = <<>> THEN None
     ELSE candidates[Min({i \in DOMAIN candidates :
                            distances[i] = Min(Range(distances))})].km

(* kml_scraper.segments_to_zones: each segment is a zone in both directions,
   and a category the map does not state falls back to the road class.     *)
KmlLimits(segment) ==
  LET Stated(vehicle) ==
        IF segment.limits[vehicle] # None THEN segment.limits[vehicle]
        ELSE RoadClassLimits(segment.road)[vehicle]
  IN [vehicle \in Vehicles |->
        Stated(IF vehicle = "motorcycle" THEN "car" ELSE vehicle)]

KmlZone(segment, from, to, line) ==
  [id |-> None, road |-> segment.road,
   direction |-> InferDirectionFromCoords(Head(line), Last(line), segment.road),
   description |-> <<from.settlement, to.settlement>>,
   start |-> from, end |-> to,
   distance |-> segment.length, limits |-> KmlLimits(segment),
   centerline |-> line, source |-> {"kml"}]

KmlPair(segment, cameras) ==
  LET line == segment.line
      names == AssignSettlements(segment.a, segment.b, Head(line), Last(line),
                                 cameras)
      from == Endpoint(Head(line), FindCameraKm(Head(line), line, cameras),
                       names[1], None)
      to == Endpoint(Last(line), FindCameraKm(Last(line), line, cameras),
                     names[2], None)
      forward == KmlZone(segment, from, to, line)
  IN <<forward,
       [KmlZone(segment, to, from, Reverse(line)) EXCEPT
          !.direction = OppositeDirection(forward.direction)]>>

KmlZones(segments, cameras) ==
  LET usable == SelectSeq(segments, LAMBDA segment :
                  /\ Len(segment.line) >= 2 /\ segment.length > 0
                  /\ InBulgaria(KmlPair(segment, cameras)[1]))
  IN [n \in 1..(2 * Len(usable)) |->
        KmlPair(usable[(n + 1) \div 2], cameras)[IF n % 2 = 1 THEN 1 ELSE 2]]
=============================================================================
