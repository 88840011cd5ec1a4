------------------------------- MODULE MCScrape -------------------------------
(***************************************************************************)
(* One road with two enforced sections, each in both directions, and what   *)
(* the three sources may make of it: which sections they list, how they     *)
(* spell and order the names, how far their surveys lie apart, which limits *)
(* they state and into which pieces the tiles cut a line.                   *)
(***************************************************************************)
EXTENDS Scrape

Places == <<"A", "B", "C", "D">>

(* A road may wind: its km grow to the south and the sections lead north. *)
At(world, km) ==
  IF (world.road = "A3") # world.winding THEN 60000 - km ELSE 20000 + km

(* Sections that share a camera, short ones that do, and two a stretch of
   400 m apart.                                                            *)
Layouts == {<<10000, 13000, 13000, 16000>>, <<10000, 11500, 11500, 13000>>,
            <<10000, 13000, 13400, 16400>>}

PlaceAt(world, i) ==
  IF world.kms[3] = world.kms[2] /\ i >= 3 THEN Places[i - 1] ELSE Places[i]

(* 1 and 2 run towards growing km, 3 and 4 are 2 and 1 in reverse. *)
From(s) == <<1, 3, 4, 2>>[s]
To(s) == <<2, 4, 3, 1>>[s]

Settlement(place, spelling) ==
  [place |-> place, quoted |-> spelling = "quoted",
   name |-> <<place, spelling = "misspelt">>]

Base ==
  [kms |-> <<10000, 13000, 13000, 16000>>,
   bg |-> 1..4, tt |-> 1..4, kml |-> 1..2,
   spelling |-> "plain", titleRoad |-> TRUE,
   crossed |-> FALSE, drawnBack |-> FALSE, placemarks |-> "full",
   jitter |-> 0, tiles |-> "whole", limits |-> "stated",
   winding |-> FALSE, repeated |-> FALSE, site |-> "plain", marked |-> TRUE]

Limits(road) == RoadClassLimits(road)

Listing(Of(_, _), world, sections) ==
  LET order == SelectSeq(<<1, 2, 3, 4>>, LAMBDA s : s \in sections)
  IN [i \in DOMAIN order |-> Of(world, order[i])]

(* BG TOLL's page: a row for each section, among rows that are none.  A table
   of last year's markers stands before the marked one, and one of something
   else before both.                                                       *)
Cell(world, i, form) ==
  [settlement |-> Settlement(PlaceAt(world, i), world.spelling),
   km |-> world.kms[i], form |-> form]

Row(world, s) ==
  <<world.road, Cell(world, From(s), IF s = 1 THEN "bare" ELSE "parenthesised"),
    Cell(world, To(s), "parenthesised")>>

(* The table lists a section again, with a marker a few metres off. *)
Repeated(row) == [row EXCEPT ![2].km = @ + 40]

Tables(world) ==
  LET heading == <<world.road, None>>
      emptied == [Row(world, 2) EXCEPT ![3] = None]
      unmarked == [Row(world, 3) EXCEPT ![2].form = "none"]
      rows == <<heading, emptied, unmarked>> \o Listing(Row, world, world.bg)
                \o (IF world.repeated THEN <<Repeated(Row(world, 1))>> ELSE <<>>)
      old == <<[Row(world, 1) EXCEPT ![2].km = @ - 7000]>>
      other == [marked |-> FALSE, motorways |-> FALSE, rows |-> old]
      main == [marked |-> world.marked, motorways |-> TRUE, rows |-> rows]
  IN IF world.marked THEN <<other, [other EXCEPT !.motorways = TRUE], main>>
     ELSE <<other, main>>

(* TollTracker's tiles: the road is cut at the points of the sections' lines,
   a tile reaches a little beyond its bounds, and a line with less than two
   points in a tile is not in it.  The road leaves one tile and comes back.
   The first section's survey is off by the jitter.                        *)
Line(from, to) == <<from, (2 * from + to) \div 3, (from + 2 * to) \div 3, to>>

Drawn(world, s) == Line(At(world, world.kms[From(s)]), At(world, world.kms[To(s)]))

Surveyed(world, s) ==
  [i \in 1..4 |-> Drawn(world, s)[i] + (IF s \in {1, 4} THEN world.jitter ELSE 0)]

Feature(world, s) ==
  [id |-> s, type |-> "section_control", country |-> "BG",
   road |-> IF world.titleRoad THEN world.road ELSE None,
   from |-> Settlement(PlaceAt(world, From(s)), "plain"),
   to |-> Settlement(PlaceAt(world, To(s)), "plain"),
   length |-> PolylineLengthM(Surveyed(world, s)),
   limit |-> Limits(world.road).car, line |-> Surveyed(world, s)]

Foreign(world) ==
  LET feature == Feature(world, 1)
  IN <<[feature EXCEPT !.type = "camera", !.id = 7],
       [feature EXCEPT !.country = "GR", !.id = 8],
       [feature EXCEPT !.id = None]>>

(* Such a tile's message: a unit is half a metre. *)
Keys == <<"id", "type", "country", "road", "from", "to", "length", "limit">>

Unzigzag(n) == IF n >= 0 THEN 2 * n ELSE -2 * n - 1

Moves(points, from) ==
  FlattenSeq([i \in DOMAIN points |->
    <<Unzigzag(points[i] - (IF i = 1 THEN from ELSE points[i - 1])), 0>>])

Commands(parts) ==
  FlattenSeq([p \in DOMAIN parts |->
    <<9>> \o Moves(<<Head(parts[p])>>, IF p = 1 THEN 0 ELSE Last(parts[p - 1]))
      \o <<8 * (Len(parts[p]) - 1) + 2>> \o Moves(Tail(parts[p]), Head(parts[p]))])

Tile(world, zoom, stretches) ==
  LET lo == Min({stretch[1] : stretch \in Range(stretches)})
      Clipped(line) ==
        SelectSeq([i \in DOMAIN stretches |->
                     SelectSeq(line, LAMBDA point :
                       /\ stretches[i][1] - 100 <= point
                       /\ point <= stretches[i][2] + 100)],
                  LAMBDA part : Len(part) >= 2)
      InUnits(parts) == [p \in DOMAIN parts |->
                           [i \in DOMAIN parts[p] |-> 2 * (parts[p][i] - lo)]]
      within == SelectSeq(Foreign(world) \o Listing(Feature, world, world.tt),
                          LAMBDA feature : Clipped(feature.line) # <<>>)
      hi == Max({stretch[2] : stretch \in Range(stretches)})
      Tags(i) ==
        LET stated == SelectSeq([k \in DOMAIN Keys |-> k],
                                LAMBDA k : Keys[k] # "id" \/ within[i].id # None)
        IN FlattenSeq([n \in DOMAIN stated |->
             <<stated[n] - 1, (i - 1) * Len(Keys) + stated[n] - 1>>])
      polylines ==
        [name |-> "polylines", extent |-> 2 * (hi - lo), keys |-> Keys,
         values |-> FlattenSeq([i \in DOMAIN within |->
                      [k \in DOMAIN Keys |-> within[i][Keys[k]]]]),
         features |-> [i \in DOMAIN within |->
           [tags |-> Tags(i), geometry |-> Commands(InUnits(Clipped(within[i].line)))]]]
      cameras == [name |-> "cameras", extent |-> None, keys |-> <<>>,
                  values |-> <<>>,
                  features |-> <<[tags |-> <<>>, geometry |-> <<9, 20, 4>>]>>]
  IN [zoom |-> zoom, lo |-> lo, hi |-> hi, content |-> <<cameras, polylines>>]

(* The tiles of a winding road come in any order, and what is further away than
   the country's border is not asked for.                                  *)
Tiles(world) ==
  LET second == Drawn(world, 2)
      points == Drawn(world, 1) \o (IF world.kms[2] = world.kms[3]
                                    THEN Tail(second) ELSE second)
      cuts == IF points[1] < points[2] THEN points ELSE Reverse(points)
      stretches == [i \in 1..(Len(cuts) - 1) |-> <<cuts[i], cuts[i + 1]>>]
      order == SelectSeq(<<2, 4, 6, 1, 5, 7, 9>>, LAMBDA i : i \in DOMAIN stretches)
      fine == [n \in DOMAIN order |->
                 Tile(world, 12, IF order[n] = 1 THEN <<stretches[1], stretches[3]>>
                                 ELSE <<stretches[order[n]]>>)]
      Holed(tile) ==
        IF tile.lo \in {cuts[1], cuts[5]} THEN tile
        ELSE [tile EXCEPT !.content = None]
      whole == <<<<cuts[1], Last(cuts)>>>>
      empty == [zoom |-> 8, lo |-> BgMax + 1, hi |-> BgMax + 2, content |-> None]
  IN <<empty>> \o
     CASE world.tiles = "whole" ->
            <<Tile(world, 8, whole), Tile(world, 12, whole)>>
       [] world.tiles = "hole" ->
            <<Tile(world, 8, whole)>> \o [n \in DOMAIN fine |-> Holed(fine[n])]
       [] world.tiles = "split" ->
            <<Tile(world, 8, <<stretches[1], stretches[3]>>),
              Tile(world, 8, <<stretches[2], <<cuts[4], Last(cuts)>>>>)>> \o fine

(* What the site's scripts name: the tiles, directly or one script deeper;
   nothing, with the last known value still good or not; the request failed. *)
Current == [tileset |-> "current", token |-> "current"]

Site(world) ==
  LET none == [tileset |-> None, token |-> None, refs |-> <<>>]
      first == [none EXCEPT !.refs = <<"main", "map">>]
      deep == [Current EXCEPT !.tileset = None] @@ none
  IN [listed |-> <<"main", "other">>,
      scripts |-> CASE world.site = "plain" ->
                         [main |-> Current @@ none, other |-> none, map |-> none]
                    [] world.site = "deep" ->
                         [main |-> first, map |-> deep,
                          other |-> [none EXCEPT !.tileset = "current"]]
                    [] world.site \in {"gone", "changed"} ->
                         [main |-> first, other |-> none, map |-> none]
                    [] world.site = "cut" ->
                         [main |-> None, other |-> none, map |-> none],
      source |-> IF world.site \in {"gone", "cut"} THEN Fallback ELSE Current,
      tiles |-> Tiles(world)]

(* The folders of BG TOLL's map.  A category list that is written in another
   way counts as unstated.                                                 *)
Description(world, length) ==
  LET stated == IF world.limits = "motorway" THEN MotorwaySpeedLimits
                ELSE Limits(world.road)
  IN [road |-> CASE world.road = "A1" -> "A-1" [] world.road = "A3" -> "A-3"
                 [] world.road = "I8" -> "I-8" [] world.road = "I9" -> "I-9",
      length |-> length,
      limits |-> [categories \in {"A,A2,B", "B1", "BE,C1,C1E,D,D1,D1E,DE",
                    IF world.limits = "unstated" THEN "CE,C" ELSE "C,CE"} |->
                    CASE categories \in {"A,A2,B", "B1"} -> stated.car
                      [] categories \in {"C,CE", "CE,C"} -> stated.truck
                      [] OTHER -> stated.bus]]

Segment(world, s) ==
  LET a == Settlement(PlaceAt(world, From(s)), "plain")
      b == Settlement(PlaceAt(world, To(s)), "plain")
      line == Drawn(world, s)
  IN [a |-> IF world.crossed THEN b ELSE a,
      b |-> IF world.crossed THEN a ELSE b,
      line |-> IF world.drawnBack THEN Reverse(line) ELSE line,
      description |-> Description(world, PolylineLengthM(line))]

(* The cameras' placemarks, with the name and the km they carry. *)
Placemark(world, i) ==
  [name |-> IF world.placemarks \in {"full", "names"}
            THEN Settlement(PlaceAt(world, i), "plain").name
            ELSE <<"camera", FALSE>>,
   at |-> At(world, world.kms[i]),
   description |->
     IF world.placemarks = "none" THEN None
     ELSE [km |-> IF world.placemarks \in {"full", "km"} THEN world.kms[i] ELSE None]]

Folders(world) ==
  LET cameras == Listing(Placemark, world,
                         {i \in 1..4 : i # 3 \/ world.kms[2] # world.kms[3]})
      segment == Segment(world, 1)
      abroad == [segment EXCEPT !.line = [i \in DOMAIN @ |-> @[i] + BgMax]]
      Folder(name, placemarks) == [name |-> name, placemarks |-> placemarks]
  IN <<Folder("planned", <<[segment EXCEPT !.line = Reverse(@)], Placemark(world, 4)>>),
       Folder("sections", <<abroad, [segment EXCEPT !.line = None],
                            [segment EXCEPT !.description.length = None]>>
                          \o Listing(Segment, world, world.kml \ {2})),
       Folder("cameras", <<[Placemark(world, 4) EXCEPT
                              !.name = Placemark(world, 1).name, !.at = None]>>
                         \o cameras),
       Folder("certified", Listing(Segment, world, world.kml \ {1}))>>

PagesOf(world) ==
  [world |-> world, tables |-> Tables(world), site |-> Site(world),
   folders |-> Folders(world)]

Listed == {{}, {1}, {1, 4}, {2, 3}, 1..2, 1..4}

Worlds ==
  LET Roads(W) == {[road |-> r] @@ w : <<r, w>> \in Range(RoadNames) \X W}
  IN Roads(
     {[Base EXCEPT !.bg = bg, !.tt = tt, !.kml = kml, !.spelling = spelling] :
        bg \in Listed, tt \in Listed, kml \in SUBSET (1..2),
        spelling \in {"plain", "quoted", "misspelt"}}
     \cup
     {[Base EXCEPT !.kms = kms, !.bg = bg, !.tt = tt, !.crossed = crossed,
                   !.drawnBack = drawnBack, !.placemarks = placemarks] :
        kms \in Layouts, bg \in {1..4, {1, 4}}, tt \in {1..4, {1, 4}},
        crossed \in BOOLEAN, drawnBack \in BOOLEAN,
        placemarks \in {"full", "names", "km", "none"}}
     \cup
     {[Base EXCEPT !.kms = kms, !.jitter = jitter, !.tiles = tiles,
                   !.titleRoad = titleRoad, !.tt = tt] :
        kms \in Layouts, jitter \in {0, 20, 50},
        tiles \in {"whole", "split", "hole"}, titleRoad \in BOOLEAN,
        tt \in {1..4, {1, 4}}}
     \cup
     {[Base EXCEPT !.kms = kms, !.spelling = "misspelt", !.kml = kml, !.tt = tt,
                   !.bg = bg, !.placemarks = placemarks] :
        kms \in Layouts, kml \in {1..2, {1}}, tt \in {1..4, {1, 4}, {2, 3}},
        bg \in {1..4, {1, 4}, {2, 3}}, placemarks \in {"full", "none"}}
     \cup
     {[Base EXCEPT !.winding = winding, !.repeated = ~winding /\ 1 \in bg,
                   !.bg = bg,
                   !.tt = tt, !.kml = kml, !.placemarks = placemarks] :
        winding \in BOOLEAN, bg \in {1..4, {1}, {1, 4}, {2, 3}},
        tt \in {1..4, {1}, {1, 4}}, kml \in {1..2, {1}},
        placemarks \in {"full", "names", "none"}}
     \cup
     {[Base EXCEPT !.limits = limits, !.bg = bg, !.tt = tt, !.kml = kml] :
        limits \in {"unstated", "motorway"}, bg \in {1..4, {1}, {2, 3}},
        tt \in {1..4, {1}}, kml \in {1..2, {1}}}
     \cup
     {[Base EXCEPT !.site = site, !.marked = marked, !.tiles = tiles, !.tt = tt] :
        site \in {"plain", "deep", "gone", "changed", "cut"}, marked \in BOOLEAN,
        tiles \in {"whole", "split"}, tt \in {1..4, {2, 3}}})

MCPages == {PagesOf(world) : world \in Worlds}
MCZooms == <<12, 8>>
MCRequired == {road \in Range(RoadNames) : IsMotorway(road)}
MCFallback == [tileset |-> "known", token |-> "known"]

-----------------------------------------------------------------------------
(* The camera an end is at, and the cameras it is said to be at: by its place,
   its km, its name and its Latin name.                                    *)
CamerasAt(end) ==
  LET world == pages.world
      at == IF end.at # 0 THEN end.at
            ELSE IF end.km # None THEN At(world, end.km) ELSE 0
  IN {PlaceAt(world, i) : i \in
        {k \in 1..4 : HaversineM(at, At(world, world.kms[k])) <= 100}}

CamerasSaid(end) ==
  LET world == pages.world
  IN CamerasAt(end)
       \cup {PlaceAt(world, i) : i \in {k \in 1..4 : end.km = world.kms[k]}}
       \cup (IF end.settlement = None THEN {} ELSE {end.settlement.place})
       \cup ({end.latin} \ {None})

(* The two names of a section on the map are in no order.  Named placemarks
   tell which end is which; without them the order of the title decides.   *)
MapIsCrossed ==
  /\ pages.world.placemarks \in {"km", "none"}
  /\ pages.world.crossed # pages.world.drawnBack

(* BG TOLL's table can be matched with the others: by the names, or by km as
   long as sections are not so short that the next one is close as well.   *)
Comparable ==
  \/ pages.world.spelling # "misspelt"
  \/ /\ pages.world.placemarks \in {"full", "km"}
     /\ \A i \in {1, 3} : pages.world.kms[i + 1] - pages.world.kms[i] >= CloseM

Tabled == pages.world.road \in DOMAIN RoadDirections

OfficialSections ==
  pages.world.bg
    \cup UNION {IF s = 1 THEN {1, 4} ELSE {2, 3} : s \in pages.world.kml}

(* What JunctionsMeet takes for a catalog is what assign_ids makes.  The ends
   of a published zone are those of its line (ShapesAgree), and its fields that
   come from different sources describe the same camera at each end
   (_orient_to).  Where the sources themselves make that impossible, a warning
   names the zone (validate's check for the crossed merge), unless the map is
   all that is known of it.                                                *)
EndsAgree ==
  /\ Done => IsCatalog(NumberedZones)
  /\ ShapesAgree
  /\ Done =>
    \A zone \in Range(zones) :
      \/ \A end \in {zone.start, zone.end} : Cardinality(CamerasSaid(end)) = 1
      \/ /\ MapIsCrossed \/ ~Comparable
         /\ \E w \in {"latin_name", "km_order"} : <<w, zone.id>> \in warnings
      \/ zone.source = {"kml"} /\ MapIsCrossed

(* Each section BG TOLL publishes, in its table or on its map, becomes one
   zone in its direction, and nothing else is published: no source's reading
   of a section stands beside another's (match_zones, drop_unofficial_zones).
   On a road the direction tables do not list this may fail, and then each
   zone of that road is warned about.  A run fails only if a source lists
   nothing or TollTracker's tiles are no longer found.                     *)
PublishedOnce ==
  /\ stage = "failed" =>
       \/ {} \in {pages.world.bg, pages.world.tt, pages.world.kml}
       \/ pages.world.site = "changed"
  /\ Done =>
       \/ /\ Len(zones) = Cardinality(OfficialSections)
                          + (IF pages.world.repeated THEN 1 ELSE 0)
          /\ \A s \in OfficialSections :
               \E i \in DOMAIN zones :
                 /\ PlaceAt(pages.world, From(s)) \in CamerasAt(zones[i].start)
                 /\ PlaceAt(pages.world, To(s)) \in CamerasAt(zones[i].end)
       \/ ~Comparable
       \/ ~Tabled /\ \A zone \in Range(zones) :
                        <<"untabled_road", zone.id>> \in warnings

(* Sources that tell the truth about a listed road raise no warning, other than
   that the motorways they say nothing of are not covered, although
   their surveys lie up to 50 m apart, the tiles are in pieces, names are
   quoted or on the map in any order, and a source lists sections another
   does not: a warning means that something is wrong.                      *)
NoFalseAlarm ==
  LET world == pages.world
  IN /\ Done /\ Tabled /\ ~MapIsCrossed /\ world.spelling # "misspelt"
     /\ ~world.winding /\ ~world.repeated
     /\ world.kml = 1..2 /\ world.kms[3] - world.kms[2] \notin 1..JunctionMaxM
     /\ world.limits = "motorway" => world.bg = 1..4
     => warnings = MissingCoverage({world.road})
=============================================================================
