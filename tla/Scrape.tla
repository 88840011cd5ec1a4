-------------------------------- MODULE Scrape --------------------------------
(***************************************************************************)
(* output.run_pipeline: one run over whatever the three sources publish.    *)
(* Every source is read even after another one failed, a source without     *)
(* zones fails the run, and merge_all turns the three readings into the     *)
(* catalog, one stage after the other; the loops of match_zones take a step *)
(* for each match, those of snap_junction_seams one for each seam.          *)
(***************************************************************************)
EXTENDS ZoneMerge, Pages

CONSTANT Served  \* what the sources may publish

VARIABLES
  pages,     \* what they publish in this run
  stage,     \* the stage that comes next
  scraped,   \* the zones of each source
  matches,   \* what match_zones found to be one section
  used,      \* the readings that are in a match, by their index
  turn,      \* the match that the map is searched for next
  zones,     \* the catalog so far
  seam,      \* the pair of zones whose seam was closed last
  warnings   \* of validate

vars == <<pages, stage, scraped, matches, used, turn, zones, seam, warnings>>

Init ==
  /\ pages \in Served
  /\ stage = "bgtoll"
  /\ scraped = [bgtoll |-> <<>>, tolltracker |-> <<>>, kml |-> <<>>]
  /\ matches = <<>> /\ used = NoMatch /\ turn = 1
  /\ zones = <<>> /\ seam = <<>> /\ warnings = {}

Read(source, result, next) ==
  /\ stage = source
  /\ scraped' = [scraped EXCEPT ![source] = result]
  /\ stage' = next
  /\ UNCHANGED <<pages, matches, used, turn, zones, seam, warnings>>

ScrapeBgToll == Read("bgtoll", BgTollZones(ParseHtml(pages.tables)), "tolltracker")

ScrapeTollTracker ==
  \E held \in {Contents(pages.site.tiles)} :
    \E swept \in {Swept(pages.site, held)} :
      \E sections \in {Discovered(pages.site.tiles, held, swept)} :
        \E features \in {Stitched(sections)} :
          Read("tolltracker",
               TollTrackerZones(features, RoadLookup(scraped.bgtoll)), "kml")

ScrapeKml ==
  LET map == ParseKml(pages.folders)
  IN Read("kml", KmlZones(map.segments, map.cameras), "match")

AllRead == \A source \in DOMAIN scraped : scraped[source] # <<>>

SourceFailure ==
  /\ stage = "match"
  /\ ~AllRead
  /\ stage' = "failed"
  /\ UNCHANGED <<pages, scraped, matches, used, turn, zones, seam, warnings>>

-----------------------------------------------------------------------------
(* match_zones: every row of the table with the best section of the tiles,
   the sections that are left, for every match the best segment of the map,
   and the segments that are left.                                         *)
Unused(source) == DOMAIN scraped[source] \ used[source]

Matching ==
  /\ stage = "match" /\ AllRead
  /\ UNCHANGED <<pages, stage, scraped, zones, seam, warnings>>

MatchBgToll ==
  /\ Matching
  /\ \E i \in Unused("bgtoll") :
       /\ \A k \in Unused("bgtoll") : ComesBefore(scraped.bgtoll, i, k)
       /\ \E best \in Best(scraped.bgtoll[i], scraped.tolltracker,
                          used.tolltracker) :
            /\ matches' = Append(matches, [bgtoll |-> {i}, tolltracker |-> best,
                                           kml |-> {}])
            /\ used' = [used EXCEPT !.bgtoll = @ \cup {i},
                                    !.tolltracker = @ \cup best]
  /\ UNCHANGED turn

AddUnmatched(source) ==
  \E i \in Unused(source) :
    /\ \A k \in Unused(source) : i <= k
    /\ matches' = Append(matches, [NoMatch EXCEPT ![source] = {i}])
    /\ used' = [used EXCEPT ![source] = @ \cup {i}]

AddTollTracker ==
  /\ Matching
  /\ Unused("bgtoll") = {}
  /\ AddUnmatched("tolltracker")
  /\ UNCHANGED turn

(* What a match has read, from the sources that have something. *)
ReadingsOf(match) ==
  [source \in {s \in DOMAIN scraped : match[s] # {}} |->
     scraped[source][CHOOSE i \in match[source] : TRUE]]

MatchKml ==
  /\ Matching
  /\ Unused("bgtoll") = {} /\ Unused("tolltracker") = {}
  /\ turn \in DOMAIN matches
  /\ LET source == IF matches[turn].tolltracker # {} THEN "tolltracker"
                   ELSE "bgtoll"
     IN \E best \in Best(ReadingsOf(matches[turn])[source], scraped.kml, used.kml) :
          /\ matches' = [matches EXCEPT ![turn].kml = best]
          /\ used' = [used EXCEPT !.kml = @ \cup best]
  /\ turn' = turn + 1

AddKml ==
  /\ Matching
  /\ Unused("bgtoll") = {} /\ Unused("tolltracker") = {}
  /\ turn \notin DOMAIN matches
  /\ AddUnmatched("kml")
  /\ turn' = turn + 1

Matched ==
  /\ AllRead
  /\ \A source \in DOMAIN scraped : Unused(source) = {}
  /\ turn \notin DOMAIN matches

-----------------------------------------------------------------------------
Rework(this, next, result) ==
  /\ stage = this
  /\ zones' = result
  /\ stage' = next
  /\ UNCHANGED <<pages, scraped, matches, used, turn, seam, warnings>>

MergedZones == [i \in DOMAIN matches |-> MergeMatch(ReadingsOf(matches[i]))]

Merge == Matched /\ Rework("match", "drop", MergedZones)

Drop == Rework("drop", "number", DropUnofficial(zones))
Number == Rework("number", "snap", AssignIds(zones))

(* snap_junction_seams: the next of the seams, until there is none. *)
SnapNext ==
  /\ stage = "snap"
  /\ \E p \in SeamsAfter(zones, seam) :
       /\ \A q \in SeamsAfter(zones, seam) : q = p \/ TriedBefore(zones, p, q)
       /\ zones' = SnapSeam(zones, p[1], p[2])
       /\ seam' = p
  /\ UNCHANGED <<pages, stage, scraped, matches, used, turn, warnings>>

Snapped ==
  /\ SeamsAfter(zones, seam) = {}
  /\ Rework("snap", "align", zones)

Align == Rework("align", "validate",
                [i \in DOMAIN zones |-> AlignCenterline(zones[i])])

Check ==
  /\ stage = "validate"
  /\ zones' = Valid(zones)
  /\ warnings' = Validate(zones)
  /\ stage' = "done"
  /\ UNCHANGED <<pages, scraped, matches, used, turn, seam>>

Next == \/ ScrapeBgToll \/ ScrapeTollTracker \/ ScrapeKml \/ SourceFailure
        \/ MatchBgToll \/ AddTollTracker \/ MatchKml \/ AddKml
        \/ Merge \/ Drop \/ Number \/ SnapNext \/ Snapped \/ Align \/ Check

Spec == Init /\ [][Next]_vars

-----------------------------------------------------------------------------
Done == stage = "done"

(* No reading is lost and none is used twice: once all is matched, each zone
   of each source is in exactly one match, which holds no other zone of that
   source, in whatever order the loops chose among the candidates
   (match_zones' used_bgtoll, used_tolltracker and used_kml).              *)
EveryReadingOnce ==
  stage \in {"drop", "number", "snap", "align", "validate", "done"} =>
    \A source \in DOMAIN scraped : \A i \in DOMAIN scraped[source] :
      \E m \in DOMAIN matches :
        /\ matches[m][source] = {i}
        /\ \A n \in DOMAIN matches : i \in matches[n][source] => n = m

(* What is published about a zone's shape agrees with itself: its line runs
   from its start to its end, its distance is the line's length, a second
   alignment (--realign) changes nothing, and where two zones of a road and
   direction meet at one marker, less than 500 m apart, they meet exactly
   (snap_junction_seams before align_centerline_to_endpoints).             *)
ShapesAgree ==
  Done =>
    /\ RealignExisting(zones) = zones
    /\ \A zone \in Range(zones) :
         /\ zone.centerline # <<>> =>
              /\ Head(zone.centerline) = zone.start.at
              /\ Last(zone.centerline) = zone.end.at
              /\ zone.distance = PolylineLengthM(zone.centerline)
    /\ \A a, b \in Range(zones) :
         /\ GroupKey(a) = GroupKey(b) /\ a.end.at # 0 /\ b.start.at # 0
         /\ a.end.km # None /\ a.end.km = b.start.km
         /\ HaversineM(a.end.at, b.start.at) < JunctionMaxM
         => a.end.at = b.start.at

(* The zones as merge_all numbers them, and what a numbered zone is. *)
NumberedZones == AssignIds(DropUnofficial(MergedZones))

IsCatalog(catalog) ==
  \A i \in DOMAIN catalog :
    /\ {"id", "road", "direction", "start", "end"} \subseteq DOMAIN catalog[i]
    /\ {"at", "km"} \subseteq DOMAIN catalog[i].start \cap DOMAIN catalog[i].end
    /\ {catalog[i].start.at, catalog[i].end.at} \subseteq Int

(* Zone b of the catalog begins where zone a ends, their sources disagree by
   less than JUNCTION_GAP_MAX_M about where that is, and no other camera of
   the road and direction is as near.                                      *)
Group(catalog, a) ==
  {c \in DOMAIN catalog : /\ GroupKey(catalog[c]) = GroupKey(catalog[a])
                          /\ HasCoords(catalog[c])}

Camera(catalog, a, b) == {catalog[a].end.at, catalog[b].start.at}

OtherCameras(catalog, a, b) ==
  {catalog[c].start.at : c \in Group(catalog, a) \ {b}}
    \cup {catalog[c].end.at : c \in Group(catalog, a) \ {a}}

LoneJunction(catalog, a, b) ==
  /\ a # b /\ {a, b} \subseteq Group(catalog, a)
  /\ LET gap == HaversineM(catalog[a].end.at, catalog[b].start.at)
     IN \/ gap <= SnapM
        \/ /\ catalog[a].end.km # None
           /\ catalog[a].end.km = catalog[b].start.km /\ gap < JunctionMaxM
  /\ \A c \in Group(catalog, a) : catalog[c].end.at # 0
  /\ \A x \in Camera(catalog, a, b), y \in OtherCameras(catalog, a, b) :
       HaversineM(x, y) > JunctionMaxM

(* However many seams are closed around it and in whatever order their zones
   are numbered, a camera that two zones share is published as one place, one
   of the two their sources gave (snap_junction_seams).                    *)
JunctionsMeet ==
  stage \in {"align", "validate"} /\ IsCatalog(NumberedZones) =>
    \A a, b \in DOMAIN NumberedZones : LoneJunction(NumberedZones, a, b) =>
      /\ zones[a].end.at = zones[b].start.at
      /\ zones[a].end.at \in Camera(NumberedZones, a, b)

(* A limit no vehicle of the class may drive is published only if every
   source that was merged into the zone offered such a limit (_pick_limit). *)
LimitsArePlausible ==
  stage = "drop" =>
    \A i \in DOMAIN zones : \A vehicle \in Vehicles :
      LET read == ReadingsOf(matches[i])
          offered == {read[s].limits[vehicle] : s \in DOMAIN read} \ {None}
          possible == {v \in offered :
                         LimitIsPlausible(zones[i].road, vehicle, v)}
      IN /\ zones[i].limits[vehicle] \in offered \cup {None}
         /\ possible # {} => zones[i].limits[vehicle] \in possible

(* A catalog about whose zones nothing is warned can be published: what the
   clients cannot take of a zone (client_contract) is a subset of what
   validate() sees, so an operator who reads no warning, other than of a
   motorway that is missing, does not meet a zone that is refused.         *)
QuietMeansDecodable ==
  Done /\ warnings \subseteq MissingCoverage({}) =>
    \A zone \in Range(zones) : WireViolations(zone) = {}
=============================================================================
