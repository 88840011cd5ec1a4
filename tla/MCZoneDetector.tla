--------------------------- MODULE MCZoneDetector ---------------------------
(***************************************************************************)
(* A small catalog around one camera site, fed arbitrary fixes.  "east1"   *)
(* ends where "east2" starts, "west" is the opposite carriageway of east1  *)
(* and starts at the same site.  Each place names the fix it stands for.   *)
(***************************************************************************)
EXTENDS ZoneDetector

MCZones == {"east1", "east2", "west"}

(* place |-> <<zone, distance from centerline, arc, distance to end, aligned>>
   for the zones near it; a zone not named is far away.                    *)
Row == [zone : MCZones, dist : Nat, arc : Nat, end : Nat, with : BOOLEAN]

R(z, d, a, e, w) == [zone |-> z, dist |-> d, arc |-> a, end |-> e, with |-> w]

Map ==
  [ approach |-> {R("east1", 40, 0, 1040, TRUE), R("west", 45, 1000, 40, FALSE)},
    opened   |-> {R("east1", 5, 260, 740, TRUE), R("west", 20, 740, 260, FALSE)},
    middle   |-> {R("east1", 5, 600, 400, TRUE), R("west", 20, 400, 600, FALSE)},
    wide     |-> {R("east1", 200, 700, 360, TRUE), R("west", 220, 300, 730, FALSE)},
    seam     |-> {R("east1", 5, 960, 40, TRUE), R("east2", 40, 0, 1040, TRUE),
                  R("west", 20, 40, 960, FALSE)},
    seamwest |-> {R("east1", 15, 960, 40, FALSE), R("east2", 45, 0, 1040, FALSE),
                  R("west", 5, 40, 960, TRUE)},
    onward   |-> {R("east1", 120, 1000, 120, TRUE), R("east2", 5, 120, 880, TRUE),
                  R("west", 130, 0, 1120, FALSE)},
    deep     |-> {R("east2", 5, 500, 500, TRUE)},
    away     |-> {} ]

MCPlaces == DOMAIN Map

Cell(z, p) == CHOOSE r \in Map[p] : r.zone = z
Near(z, p) == \E r \in Map[p] : r.zone = z

MCLength == [z \in MCZones |-> 1000]
MCDistanceM == [z \in MCZones |-> 1000]
MCBand == [z \in MCZones |-> 150]
MCDist == [z \in MCZones |-> [p \in MCPlaces |->
             IF Near(z, p) THEN Cell(z, p).dist ELSE 5000]]
MCArc == [z \in MCZones |-> [p \in MCPlaces |->
             IF Near(z, p) THEN Cell(z, p).arc ELSE 0]]
MCToEnd == [z \in MCZones |-> [p \in MCPlaces |->
             IF Near(z, p) THEN Cell(z, p).end ELSE 5000]]
MCAligned == [z \in MCZones |->
                {p \in MCPlaces : Near(z, p) /\ Cell(z, p).with}]
MCEndToStart == [z \in MCZones |-> [y \in MCZones |->
                   IF z = "east1" /\ y \in {"east2", "west"} THEN 10
                   ELSE IF z = "west" /\ y = "east1" THEN 10 ELSE 1000]]
MCContinues == [z \in MCZones |->
                  IF z = "west" THEN {"west"} ELSE {"east1", "east2"}]
=============================================================================
