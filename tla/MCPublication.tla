---------------------------- MODULE MCPublication ----------------------------
(***************************************************************************)
(* Two feeds, a history of one snapshot each and three runs: enough for  *)
(* a publication, a second that is killed and a third that follows it.       *)
(***************************************************************************)
EXTENDS Publication

Catalog(h, n, roads, breaks) ==
  [hash |-> h, count |-> n, roads |-> roads, breaks |-> breaks]

(* The oldest client names no feed, and one reads both. *)
MCClients ==
  {[feed |-> None, contract |-> "first"], [feed |-> 1, contract |-> "second"],
   [feed |-> 2, contract |-> "second"]}

(* Three that may be served (from 100 zones to 75 to 55 is allowed one step at
   a time only), and one that each part of the guard refuses; the last could
   be served on feed 2.                                                    *)
MCCatalogs ==
  {Catalog(1, 100, TRUE, {}), Catalog(2, 75, TRUE, {}),
   Catalog(3, 55, TRUE, {}), Catalog(4, 40, TRUE, {}),
   Catalog(5, 90, FALSE, {}), Catalog(6, 90, TRUE, {"first"})}
=============================================================================
