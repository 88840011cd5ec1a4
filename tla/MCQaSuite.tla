------------------------------ MODULE MCQaSuite ------------------------------
(***************************************************************************)
(* The runs checked: the nightly run and the smoke run as the server starts  *)
(* them, the sync suite on a clean phone and on one that a killed run left    *)
(* frozen or tracking, and the other suites as a developer runs them, some of *)
(* them filtered.  All may meet one fault anywhere, the short ones two.       *)
(***************************************************************************)
EXTENDS QaSuite

LOCAL Launch(suite, live, keep, p, n) ==
  [suite |-> suite, live |-> live, keep |-> keep, phone |-> p, faults |-> n]

LOCAL Tracking == [Frozen EXCEPT !.tracking = TRUE]

MCRuns ==
  {Launch("nightly", TRUE, {}, Clean, 1),
   Launch("nightly", FALSE, {"auto_stop", "bulk", "self_test"}, Tracking, 1),
   Launch("smoke", TRUE, {}, Clean, 2),
   Launch("smoke", FALSE, {"self_test", "zones_happy"}, Clean, 2),
   Launch("full-zones", TRUE, {}, Tracking, 2),
   Launch("sync", TRUE, {}, Frozen, 1),
   Launch("sync", FALSE, {}, Tracking, 1),
   Launch("sync", FALSE, {}, Clean, 1),
   Launch("history", FALSE, {}, Frozen, 1),
   Launch("ui", FALSE, {}, Frozen, 1),
   Launch("representative", FALSE, {}, Frozen, 1),
   Launch("scenarios", FALSE, {}, Frozen, 1)}
=============================================================================
