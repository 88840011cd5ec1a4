----------------------------- MODULE MCTracking -----------------------------
(***************************************************************************)
(* Two interchangeable zones and a short drive through them.               *)
(***************************************************************************)
EXTENDS Tracking, TLC

ZoneSymmetry == Permutations(Zones)
=============================================================================
