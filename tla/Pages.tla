-------------------------------- MODULE Pages --------------------------------
(***************************************************************************)
(* How the scrapers find their data among what the three sites serve: BG     *)
(* TOLL's table on its page, TollTracker's tiles behind its scripts, and the *)
(* folders of BG TOLL's map.  Text is what its patterns tell apart; a cell   *)
(* that is empty, an element that is missing and a tile of no content are    *)
(* None.                                                                   *)
(***************************************************************************)
EXTENDS Sources

CONSTANTS
  DiscoveryZoom,  \* DISCOVERY_ZOOM
  MarginM,        \* BBOX_MARGIN_DEG
  MaxScripts,     \* _MAX_CHUNK_FETCHES
  Fallback        \* FALLBACK_TILESET and FALLBACK_TOKEN

ASSUME PagesAssumption ==
  /\ DiscoveryZoom \in Range(Zooms) /\ MarginM \in Nat /\ MaxScripts \in Nat
  /\ DOMAIN Fallback = {"tileset", "token"}

-----------------------------------------------------------------------------
(* bgtoll_scraper.parse_html: the table of the marked part of the page, else
   the first one that names a motorway.                                    *)
FindTable(tables) ==
  LET marked == SelectSeq(tables, LAMBDA table : table.marked)
      motorways == SelectSeq(tables, LAMBDA table : table.motorways)
  IN IF marked # <<>> THEN Head(marked).rows
     ELSE IF motorways # <<>> THEN Head(motorways).rows ELSE <<>>

(* bgtoll_scraper.parse_point_text: the marker follows the name, in
   parentheses or after "km"; written otherwise it is part of the name.    *)
ParsePointText(cell) ==
  [settlement |-> cell.settlement,
   km |-> IF cell.form \in {"parenthesised", "bare"} THEN cell.km ELSE None]

(* Headings have fewer cells, and a row with an empty one is skipped. *)
ParseHtml(tables) ==
  LET sections == SelectSeq(FindTable(tables), LAMBDA cells :
                    Len(cells) >= 3 /\ \A i \in 1..3 : cells[i] # None)
  IN [i \in DOMAIN sections |->
        [road |-> sections[i][1], from |-> ParsePointText(sections[i][2]),
         to |-> ParsePointText(sections[i][3])]]

-----------------------------------------------------------------------------
(* tolltracker_fetcher.discover_tile_source: breadth first through the scripts
   of the page and those they name, until both parts are found, a request
   fails or enough was fetched; what is not found is the last known value. *)
Found(known, offered) == IF known # None THEN known ELSE offered

ReadScript(scripts, search) ==
  LET name == Head(search.queue)
      script == scripts[name]
      over == \/ search.queue = <<>> \/ search.fetched >= MaxScripts
              \/ search.broken
              \/ search.tileset # None /\ search.token # None
  IN IF over THEN search
     ELSE IF name \in search.seen THEN [search EXCEPT !.queue = Tail(@)]
     ELSE IF script = None
     THEN [search EXCEPT !.broken = TRUE]
     ELSE [search EXCEPT
             !.seen = @ \cup {name}, !.fetched = @ + 1,
             !.token = Found(@, script.token),
             !.tileset = Found(@, script.tileset),
             !.queue = Tail(@) \o SelectSeq(script.refs, LAMBDA ref :
                                     ref \notin search.seen \cup {name})]

DiscoverTileSource(site) ==
  LET names == DOMAIN site.scripts
      begun == [queue |-> site.listed, seen |-> {}, fetched |-> 0,
                broken |-> FALSE, tileset |-> None, token |-> None]
      refs == [n \in names |-> IF site.scripts[n] = None THEN 0
                               ELSE Len(site.scripts[n].refs)]
      steps == Len(site.listed) + FoldFunction(+, 0, refs)
      done == FoldLeft(LAMBDA search, n : ReadScript(site.scripts, search),
                       begun, [n \in 1..steps |-> n])
  IN [tileset |-> Found(done.tileset, Fallback.tileset),
      token |-> Found(done.token, Fallback.token)]

-----------------------------------------------------------------------------
(* mvt.decode: a tile's message, its fields told apart.  A layer has tables of
   keys and values, which the tags of its features point into in pairs.    *)
Zigzag(n) == IF n % 2 = 0 THEN n \div 2 ELSE -((n + 1) \div 2)

MoveTo == 1
ClosePath == 7

(* The commands of a geometry, an integer at a time: one that tells what is
   done how often, then pairs of moves of a cursor, which goes on from part to
   part of the line.                                                       *)
CommandInteger(drawn, n) ==
  LET closes == n % 8 = ClosePath
  IN [drawn EXCEPT
        !.op = n % 8, !.left = IF closes THEN 0 ELSE 2 * (n \div 8),
        !.current = IF closes /\ @ # <<>> THEN Append(@, Head(@)) ELSE @]

ParameterInteger(drawn, n) ==
  LET y == drawn.y + Zigzag(n)
      begins == drawn.op = MoveTo /\ drawn.current # <<>>
  IN IF drawn.left % 2 = 0
     THEN [drawn EXCEPT !.left = @ - 1, !.x = @ + Zigzag(n)]
     ELSE [drawn EXCEPT
             !.left = @ - 1, !.y = y,
             !.parts = IF begins THEN Append(@, drawn.current) ELSE @,
             !.current = Append(IF begins THEN <<>> ELSE @, <<drawn.x, y>>)]

DecodeGeometry(commands) ==
  LET drawn == FoldLeft(LAMBDA d, n : IF d.left = 0 THEN CommandInteger(d, n)
                                      ELSE ParameterInteger(d, n),
                        [op |-> 0, left |-> 0, x |-> 0, y |-> 0,
                         current |-> <<>>, parts |-> <<>>], commands)
  IN IF drawn.current = <<>> THEN drawn.parts
     ELSE Append(drawn.parts, drawn.current)

Props(layer, tags) ==
  LET pairs == 1..(Len(tags) \div 2)
      Key(i) == layer.keys[tags[2 * i - 1] + 1]
  IN [key \in {Key(i) : i \in pairs} |->
        layer.values[tags[2 * Max({i \in pairs : Key(i) = key})] + 1]]

Decode(content) ==
  LET named == {i \in DOMAIN content : content[i].name # None}
      Features(layer) ==
        [i \in DOMAIN layer.features |->
           [props |-> Props(layer, layer.features[i].tags),
            parts |-> DecodeGeometry(layer.features[i].geometry)]]
  IN [name \in {content[i].name : i \in named} |->
        LET layer == content[Max({i \in named : content[i].name = name})]
        IN [extent |-> IF layer.extent = None THEN 4096 ELSE layer.extent,
            features |-> Features(layer)]]

(* mvt.tile_range and mvt.tile_point_to_latlng, along the road *)
TileRange(tiles, zoom, lo, hi) ==
  SelectSeq(tiles, LAMBDA tile : tile.zoom = zoom /\ tile.lo <= hi /\ lo <= tile.hi)

TilePoint(tile, extent, point) ==
  tile.lo + (point[1] * (tile.hi - tile.lo)) \div extent

(* tolltracker_fetcher._section_features *)
PolylineLayer == "polylines"

Get(props, key) == IF key \in DOMAIN props THEN props[key] ELSE None

SectionFeatures(tile) ==
  LET layers == IF tile.content = None THEN <<>> ELSE Decode(tile.content)
      sections == SelectSeq(layers[PolylineLayer].features, LAMBDA feature :
                    /\ Get(feature.props, "type") = "section_control"
                    /\ Get(feature.props, "country") = "BG"
                    /\ Get(feature.props, "id") # None)
      Part(points) == [k \in DOMAIN points |->
                         TilePoint(tile, layers[PolylineLayer].extent, points[k])]
  IN IF PolylineLayer \notin DOMAIN layers THEN <<>>
     ELSE [i \in DOMAIN sections |->
             [parts |-> [p \in DOMAIN sections[i].parts |->
                           Part(sections[i].parts[p])]]
             @@ sections[i].props]

(* What each tile holds, and what some of them hold together. *)
Contents(tiles) == [tile \in Range(tiles) |-> SectionFeatures(tile)]

FeaturesIn(held, tiles) == FlattenSeq([i \in DOMAIN tiles |-> held[tiles[i]]])

(* scrape.feature_pieces: the parts of a feature in the tiles its bounding box
   touches.                                                                *)
FeaturePieces(held, tiles, zoom, coarse) ==
  LET points == UNION {Range(p) : p \in UNION {Range(c.parts) : c \in coarse}}
      near == FeaturesIn(held, TileRange(tiles, zoom, Min(points) - MarginM,
                                         Max(points) + MarginM))
      own == SelectSeq(near, LAMBDA feature :
                         \E c \in coarse : c.id = feature.id)
  IN FlattenSeq([i \in DOMAIN own |-> own[i].parts])

(* scrape, first phase: a coarse sweep over the country finds the sections
   and how far each extends.  The wrong tileset answers nothing.           *)
Swept(site, held) ==
  IF DiscoverTileSource(site) # site.source THEN <<>>
  ELSE FeaturesIn(held, TileRange(site.tiles, DiscoveryZoom, BgMin, BgMax))

(* Each section once, with its pieces at every zoom. *)
Discovered(tiles, held, swept) ==
  LET firsts == SelectSeq([i \in DOMAIN swept |-> i], LAMBDA i :
                  \A k \in 1..(i - 1) : swept[k].id # swept[i].id)
      Coarse(i) == {f \in Range(swept) : f.id = swept[i].id}
  IN [n \in DOMAIN firsts |->
        [pieces |-> [zoom \in Range(Zooms) |->
                       FeaturePieces(held, tiles, zoom, Coarse(firsts[n]))]]
        @@ swept[firsts[n]]]

-----------------------------------------------------------------------------
(* kml_scraper._parse_road_name: a road that is neither listed nor national
   keeps its id.                                                           *)
ParseRoadName(id) ==
  CASE id = "A-1" -> "A1" [] id = "A-3" -> "A3"
    [] id = "I-8" -> "I8" [] id = "I-9" -> "I9"
    [] OTHER -> id

(* kml_scraper._parse_camera_description *)
ParseCameraDescription(description) ==
  [km |-> IF description = None THEN None ELSE description.km]

(* kml_scraper._parse_description: limits are given for lists of licence
   categories, and a list that is not written as expected is not read.     *)
ParseDescription(description) ==
  [road |-> ParseRoadName(description.road),
   length |-> IF description.length = None THEN 0 ELSE description.length,
   limits |-> [vehicle \in {"car", "truck", "bus"} |->
     LET categories == CASE vehicle = "car" -> "A,A2,B"
                         [] vehicle = "truck" -> "C,CE"
                         [] vehicle = "bus" -> "BE,C1,C1E,D,D1,D1E,DE"
     IN IF categories \in DOMAIN description.limits
        THEN description.limits[categories] ELSE None]]

(* kml_scraper.parse_kml: placemarks with a point in the cameras' folder, and
   with a line in a folder of sections; other folders are not read.        *)
PlacemarksOf(folders, names) ==
  FlattenSeq([i \in DOMAIN folders |->
    IF folders[i].name \in names THEN folders[i].placemarks ELSE <<>>])

ParseKml(folders) ==
  LET points == SelectSeq(PlacemarksOf(folders, {"cameras"}),
                          LAMBDA placemark : placemark.at # None)
      lines == SelectSeq(PlacemarksOf(folders, {"sections", "certified"}),
                         LAMBDA placemark : placemark.line # None)
  IN [cameras |-> [i \in DOMAIN points |->
                     ParseCameraDescription(points[i].description) @@ points[i]],
      segments |-> [i \in DOMAIN lines |->
                      ParseDescription(lines[i].description) @@ lines[i]]]
=============================================================================
