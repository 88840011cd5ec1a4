------------------------------ MODULE Traversal ------------------------------
(***************************************************************************)
(* What the detector promises the consumers of its ZoneState and of its    *)
(* pendingEntryInfo: the tracking service, the audio alerts, the history   *)
(* recorder, the map (core/Models.kt, lines 101-151, and their uses).      *)
(*                                                                         *)
(* Outside a zone a candidate may stand; it is witnessed when its first    *)
(* fix saw the zone's start.  A measured traversal opens from a witnessed  *)
(* candidate, whose first fix is its entry time, or from the offer of a    *)
(* zone just finished; an unwitnessed candidate is joined unmeasured.  A   *)
(* traversal keeps its entry time and ends in exactly one Exiting report,  *)
(* or in a reset.                                                          *)
(***************************************************************************)
EXTENDS Integers

CONSTANTS Zones, Nowhere, Never

VARIABLES
  kind,       \* which ZoneState subclass is shown
  zone,       \* its zone, Nowhere outside
  entry,      \* entry time of the measured traversal, Never when there is none
  lastEnd,    \* when the latest measured traversal ended
  candidate,  \* pendingEntryInfo, or Nowhere
  offered,    \* whether a finished zone still offers its successor
  now         \* environment: time of the latest fix

tvars == <<kind, zone, entry, lastEnd, candidate, offered>>

Candidate == [zone : Zones, since : Nat, witnessed : BOOLEAN]

Free == kind \in {"Outside", "Exiting"}

Opened(z, since) ==
  /\ kind' = "InZone" /\ zone' = z /\ entry' = since
  /\ candidate' = Nowhere /\ offered' = FALSE
  /\ UNCHANGED lastEnd

(* The candidate's start was seen and the road followed from there. *)
Confirm ==
  /\ kind = "Outside" /\ candidate # Nowhere /\ candidate.witnessed
  /\ Opened(candidate.zone, candidate.since)

(* The successor of a finished zone needs no confirmation. *)
HandOver(z, since) ==
  /\ Free /\ offered /\ since >= lastEnd
  /\ Opened(z, since)

(* The start was missed: the zone is shown but not measured. *)
Join ==
  /\ kind = "Outside" /\ candidate # Nowhere /\ ~candidate.witnessed
  /\ kind' = "Unmeasured" /\ zone' = candidate.zone /\ entry' = Never
  /\ candidate' = Nowhere /\ offered' = FALSE
  /\ UNCHANGED lastEnd

Finish(end) ==
  /\ kind = "InZone" /\ end >= entry
  /\ kind' = "Exiting" /\ lastEnd' = end /\ offered' = TRUE
  /\ UNCHANGED <<zone, entry, candidate>>

(* A fix outside, the one after an exit, or the one that leaves an unmeasured
   zone.  A candidate is kept, dropped, or opened anew behind no exit.     *)
Look(c, o) ==
  /\ kind # "InZone"
  /\ c \notin {Nowhere, candidate} => kind # "Unmeasured" /\ c.since >= lastEnd
  /\ o => offered
  /\ kind' = "Outside" /\ zone' = Nowhere /\ entry' = Never
  /\ candidate' = c /\ offered' = o
  /\ UNCHANGED lastEnd

(* A reset, or a detector built afresh: nothing but the past is kept. *)
Reset ==
  /\ kind' = "Outside" /\ zone' = Nowhere /\ entry' = Never
  /\ candidate' = Nowhere /\ offered' = FALSE
  /\ UNCHANGED lastEnd

TInit ==
  /\ kind = "Outside" /\ zone = Nowhere /\ entry = Never /\ lastEnd = 0
  /\ candidate = Nowhere /\ offered = FALSE

(* update, on a fix of time t.  Only a zone just finished and that fix, or the
   candidate, date an entry; only that fix opens a candidate.              *)
Detect(t) ==
  \/ Confirm \/ Join \/ Finish(t)
  \/ \E z \in Zones : HandOver(z, t)
  \/ candidate # Nowhere /\ HandOver(candidate.zone, candidate.since)
  \/ \E c \in {Nowhere, candidate}
                \cup [zone : Zones, since : {t}, witnessed : BOOLEAN],
        o \in BOOLEAN : Look(c, o)
  \/ kind \in {"InZone", "Unmeasured"} /\ UNCHANGED tvars

TNext ==
  \/ now' \in Nat /\ now' >= now /\ Detect(now')
  \/ Reset /\ UNCHANGED now

TSpec == TInit /\ now = 0 /\ [][TNext]_<<tvars, now>>
=============================================================================
