------------------------------- MODULE MCDrive -------------------------------
(***************************************************************************)
(* Two co-located zones on the road of Drive: "east1" covers 0..1000 m and *)
(* "east2" 1000..2000 m.                                                   *)
(***************************************************************************)
EXTENDS Drive

MCZones == {"east1", "east2"}
MCPlaces == {50 * i : i \in -4..56}

MCBegin == [z \in MCZones |-> IF z = "east1" THEN 0 ELSE 1000]
MCEnd == [z \in MCZones |-> MCBegin[z] + 1000]

MCLength == [z \in MCZones |-> 1000]
MCDistanceM == MCLength
MCBand == [z \in MCZones |-> 150]
MCDist == [z \in MCZones |-> [x \in MCPlaces |->
             Larger(Larger(MCBegin[z] - x, x - MCEnd[z]), 0)]]
MCArc == [z \in MCZones |-> [x \in MCPlaces |->
             Smaller(Larger(x - MCBegin[z], 0), 1000)]]
MCToEnd == [z \in MCZones |-> [x \in MCPlaces |->
             Larger(x - MCEnd[z], MCEnd[z] - x)]]
MCAligned == [z \in MCZones |-> MCPlaces]
MCEndToStart == [z \in MCZones |-> [y \in MCZones |->
                   Larger(MCBegin[y] - MCEnd[z], MCEnd[z] - MCBegin[y])]]
MCContinues == [z \in MCZones |-> MCZones]

(* The first zone can be counted on, and so can its successor. *)
ASSUME MCRoadIsDriven ==
  /\ ApproachedZones = {"east1"}
  /\ Successions = {<<"east1", "east2">>}
=============================================================================
