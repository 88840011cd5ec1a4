------------------------------- MODULE QaSuite -------------------------------
(***************************************************************************)
(* A run of srednabg_qa.py on one phone: the scenarios are run one by one    *)
(* (main), SuiteRunner.run gives each a worker thread and a deadline, tears  *)
(* it down and records its result, and live_zones.release unfreezes the      *)
(* phone at the end.  All threads share the phone and the event queue, and a *)
(* thread that outlives its deadline goes on with its scenario.              *)
(***************************************************************************)
EXTENDS Scenarios, FiniteSets

CONSTANTS
  None,
  Runs,         \* the runs considered: suite, live, keep (--filter), phone as
                \* it is found, faults (bound: how much may go wrong)
  Catalogs,     \* what the server may serve, by age
  Attempts      \* _ATTEMPTS of live_zones.py

ASSUME QaAssumption ==
  /\ Bundled \in Catalogs /\ Catalogs \subseteq 1..(Future - 1)
  /\ None \notin Catalogs
  /\ Attempts \in Nat \ {0}

VARIABLES
  run,          \* the run under way
  sc,           \* index of the current scenario
  phase,        \* what the main thread does
  todo,         \* the commands it still has to give in this phase
  failure,      \* the current scenario has a failure message
  worker,       \* the thread of the current scenario, None once it ended
  orphans,      \* threads that outlived their deadline
  abort,        \* drive._abort
  queue,        \* LogObserver.queue: lines nobody has taken yet
  transit,      \* a sync result that logcat has not delivered yet
  seen,         \* type_counts: lines seen since the run began
  phone,        \* the device
  served,       \* the catalog of the server
  catalog,      \* zone_source._live: the snapshot, None for the bundled one
  frozen,       \* live_zones._frozen
  rc,           \* exit code
  faults,       \* how much has gone wrong
  hit,          \* ghost: what disturbed the current scenario
  reported,     \* ghost: an earlier scenario was reported as failed
  swallowed,    \* ghost: a reset failed inside try/except
  slipped,      \* ghost: server or app moved while the pin was under way
  borrowed,     \* ghost: a scenario used a line another one had caused
  spoilt        \* ghost: something went wrong beside the steps of a scenario

main == <<run, sc, phase, todo, failure, abort, rc>>
shared == <<queue, transit, seen, phone, catalog, frozen>>
ghosts == <<hit, reported, swallowed, slipped, borrowed, spoilt>>
vars == <<main, worker, orphans, shared, served, faults, ghosts>>

(* The filter of main; the pin is never filtered out. *)
Plans ==
  [r \in Runs |->
     SelectSeq(Plan(r.suite, r.live),
               LAMBDA s : r.keep = {} \/ s.name \in r.keep \/ s.name = "pin_live")]
Scripts == Plans[run]
Current == Scripts[sc]
Step(t) == Head(t.steps)

(* A thread: the scenario it is of, the steps it has left, the version that
   pin has read and its attempt.                                           *)
Thread(s) ==
  [sc |-> s, steps |-> Scripts[s].steps, failing |-> FALSE, stuck |-> FALSE,
   note |-> None, tries |-> 0]

UnderTest == IF catalog = None THEN Bundled ELSE catalog

Init ==
  /\ run \in Runs
  /\ sc = 0 /\ phase = "next" /\ todo = <<>> /\ failure = FALSE /\ abort = FALSE /\ rc = None
  /\ worker = None /\ orphans = {}
  /\ queue = <<>> /\ transit = None /\ seen = {} /\ catalog = None /\ frozen = FALSE
  /\ phone = run.phone /\ served \in Catalogs
  /\ faults = 0
  /\ hit = {} /\ reported = FALSE /\ swallowed = FALSE /\ slipped = FALSE
  /\ borrowed = FALSE /\ spoilt = FALSE

-----------------------------------------------------------------------------
(* What a command of thread t may come to. *)
Same(t) ==
  [ok |-> TRUE, phone |-> phone, queue |-> queue, logged |-> {}, took |-> {},
   frozen |-> frozen, catalog |-> catalog, note |-> t.note, tries |-> t.tries,
   steps |-> Tail(t.steps)]

Failed(t) == [Same(t) EXCEPT !.ok = FALSE]

Answered(t, d, lines) ==
  [Same(t) EXCEPT !.phone = d, !.logged = ToSet(lines),
                  !.queue = queue \o [i \in DOMAIN lines |-> [line |-> lines[i], of |-> t.sc]]]

(* Lines are taken up to the first at which the wait ends. *)
Sought(t, ends, accepted) ==
  LET found == {i \in DOMAIN queue : queue[i].line \in ends}
      first == CHOOSE i \in found : \A j \in found : i <= j
  IN  IF found = {} THEN [Failed(t) EXCEPT !.queue = <<>>]
      ELSE [Same(t) EXCEPT !.ok = queue[first].line \in accepted,
                           !.queue = SubSeq(queue, first + 1, Len(queue)),
                           !.took = {queue[first].of}]

(* assertions.expect: a crash is noticed here and in expect_never. *)
Expected(t, what) == Sought(t, what \cup {"crash"}, what)

(* sync.wait_for_sync: the first result there is, whichever it is;
   sync.wait_for_sync_outcome: others are skipped.                         *)
FirstResult(t, accepted) == Sought(t, Outcomes, accepted)
ResultWith(t, outcome) == Sought(t, outcome, outcome)

Lined(what) == {i \in DOMAIN queue : queue[i].line \in what}

Collected(t, needed, forbidden) ==
  [Same(t) EXCEPT !.ok = (\A l \in needed : Lined({l}) # {}) /\ Lined(forbidden) = {},
                  !.queue = <<>>,
                  !.took = {queue[i].of : i \in Lined(needed)}]

(* assertions.expect_never *)
NeverSeen(t, what) == Collected(t, {}, what \cup {"crash"})

(* bulk_loader._drain_buffered and the loops that collect until it is quiet *)
Drained(t, needed, forbidden) == Collected(t, needed, forbidden)

(* live_zones.pin: the download must be what the version call announced. *)
Downloaded(t) ==
  IF served = t.note THEN Same(t)
  ELSE IF t.tries + 1 < Attempts
       THEN [Same(t) EXCEPT !.steps = PinLive.steps, !.tries = t.tries + 1] ELSE Failed(t)

(* LogObserver.clear *)
Emptied(t) == [Same(t) EXCEPT !.queue = <<>>]

Results(c, t) ==
  CASE c.op = "set" ->
         {[Emptied(t) EXCEPT !.phone = SetSetting(phone, c.key, c.value)]}
    [] c.op = "put" -> {Answered(t, SetSetting(phone, c.key, c.value), <<"setting">>)}
    [] c.op = "system" -> {Answered(t, SetSetting(phone, c.key, c.value), <<>>)}
    [] c.op = "seed" -> {Answered(t, Seeded(phone, c.value), <<>>)}
    [] c.op = "revoke" -> {Answered(t, d, <<>>) : d \in Revoked(phone)}
    [] c.op = "start" ->
         {Answered(t, [phone EXCEPT !.tracking = TRUE],
                   IF phone.tracking THEN <<>> ELSE <<"source">>)}
    [] c.op \in {"stop", "forceStop"} ->
         {Answered(t, [phone EXCEPT !.tracking = FALSE], <<>>)}
    [] c.op = "clear" -> {Emptied(t)}
    [] c.op = "sync" ->
         {Answered(t, Synced(phone, served), <<SyncOutcome(phone, served)>>)}
    [] c.op = "syncMap" -> {Answered(t, phone, <<"skipped">>)}
    [] c.op \in {"drive", "feed"} ->
         {Answered(t, d.dev, d.lines) : d \in Driven(phone, c.key, UnderTest)}
    [] c.op = "idle" -> {Answered(t, Idled(phone).dev, Idled(phone).lines)}
    [] c.op = "baseline" -> {Answered(t, [phone EXCEPT !.grown = FALSE], <<>>)}
    [] c.op = "expect" -> {Expected(t, c.value)}
    [] c.op = "await" -> {ResultWith(t, c.value)}
    [] c.op = "awaitFirst" -> {FirstResult(t, c.value)}
    [] c.op = "gather" -> {Drained(t, c.key, c.value)}
    [] c.op = "never" -> {NeverSeen(t, c.value)}
    [] c.op = "observed" -> {[Same(t) EXCEPT !.ok = Lined({c.key}) # {}]}
    [] c.op = "check" -> {[Same(t) EXCEPT !.ok = phone[c.key] = c.value]}
    [] c.op = "seen" -> {[Same(t) EXCEPT !.ok = c.key \subseteq seen]}
    [] c.op = "readVersion" -> {[Same(t) EXCEPT !.note = served]}
    [] c.op = "download" -> {Downloaded(t)}
    [] c.op = "freeze" -> {[Same(t) EXCEPT !.frozen = TRUE]}
    [] c.op = "useSnapshot" -> {[Same(t) EXCEPT !.catalog = t.note]}
    [] c.op = "crashFree" -> {[Same(t) EXCEPT !.ok = ~phone.crashed]}
    [] c.op = "walk" -> {Same(t)}

Take(e) ==
  /\ phone' = e.phone /\ queue' = e.queue
  /\ seen' = seen \cup (e.logged \cap {"source", "InZone", "speak"})
  /\ frozen' = e.frozen /\ catalog' = e.catalog

(* An exception leaves the steps; only finally clauses are still run. *)
Onward(t, e) ==
  LET failing == t.failing \/ ~e.ok
  IN  [t EXCEPT !.failing = failing, !.note = e.note, !.tries = e.tries, !.stuck = FALSE,
                !.steps = SelectSeq(e.steps, LAMBDA c : ~failing \/ c.must)]

Over(t) == t.steps = <<>>

(* Faults are bounded by the run. *)
GoesWrong == faults < run.faults /\ faults' = faults + 1

-----------------------------------------------------------------------------
(* The worker thread of SuiteRunner.run *)
Worked(e) ==
  LET t == Onward(worker, e)
  IN  /\ worker' = IF Over(t) THEN None ELSE t
      /\ failure' = (IF Over(t) THEN t.failing ELSE FALSE)

Work ==
  /\ phase = "work" /\ worker # None /\ ~worker.stuck
  /\ \E c \in {Step(worker)} : \E e \in Results(c, worker) :
       /\ Take(e) /\ Worked(e)
       /\ borrowed' = (borrowed \/ (~worker.failing /\ ~(e.took \subseteq {sc})))
  /\ UNCHANGED <<run, sc, phase, todo, abort, rc, orphans, transit, served, faults, hit,
                 reported, swallowed, slipped, spoilt>>

(* adb fails, or the app does not do what it was asked. *)
WorkFails ==
  /\ phase = "work" /\ worker # None /\ ~worker.stuck /\ GoesWrong
  /\ Take(Failed(worker)) /\ Worked(Failed(worker))
  /\ hit' = hit \cup {"failed"}
  /\ UNCHANGED <<run, sc, phase, todo, abort, rc, orphans, transit, served, reported,
                 swallowed, slipped, borrowed, spoilt>>

(* The app crashes in the middle of a scenario, and the log says so. *)
AppCrash ==
  /\ phase = "work" /\ GoesWrong
  /\ phone' \in Crashed(phone)
  /\ queue' = Append(queue, [line |-> "crash", of |-> sc])
  /\ hit' = hit \cup {"crashed"}
  /\ UNCHANGED <<main, worker, orphans, transit, seen, catalog, frozen, served, reported,
                 swallowed, slipped, borrowed, spoilt>>

Hang ==
  /\ phase = "work" /\ worker # None /\ ~worker.stuck /\ GoesWrong
  /\ worker' = [worker EXCEPT !.stuck = TRUE]
  /\ hit' = hit \cup {"hung"}
  /\ UNCHANGED <<main, orphans, shared, served, reported, swallowed, slipped, borrowed,
                 spoilt>>

(* Mutant of TimeOut: the worker is joined without a timeout. *)
JoinForever == FALSE /\ UNCHANGED vars

(* worker.join(timeout_s), request_abort, worker.join(2.0): a drive that sleeps
   between two fixes sees the abort in time, one blocked in adb does not.  *)
TimeOut ==
  /\ phase = "work" /\ worker # None /\ worker.stuck
  /\ \E dies \in {FALSE, Step(worker).op = "drive"} :
       /\ orphans' = IF dies THEN orphans ELSE orphans \cup {worker}
       /\ spoilt' = (spoilt \/ ~dies)
  /\ worker' = None /\ failure' = TRUE /\ abort' = TRUE
  /\ phase' = "teardown" /\ todo' = Current.teardown
  /\ UNCHANGED <<run, sc, rc, shared, served, faults, hit, reported, swallowed, slipped,
                 borrowed>>

(* The call that hung returns or raises, and its thread goes on: with a drive
   only once the next scenario has cleared the abort.                      *)
Drift(t) ==
  /\ phase # "done"
  /\ \E c \in {Step(t)} :
       \E e \in {Failed(t)} \cup IF abort /\ c.op = "drive" THEN {} ELSE Results(c, t) :
         LET o == Onward(t, e)
         IN  /\ Take(e)
             /\ orphans' = (orphans \ {t}) \cup (IF Over(o) THEN {} ELSE {o})
  /\ UNCHANGED <<main, worker, transit, served, faults, ghosts>>

(* logcat delivers a sync result only after the wait for it is over. *)
Delay ==
  /\ phase = "work" /\ worker # None /\ ~worker.stuck /\ Step(worker).op = "sync"
  /\ transit = None /\ GoesWrong
  /\ Take([Same(worker) EXCEPT !.phone = Synced(phone, served)]) /\ Worked(Same(worker))
  /\ transit' = [line |-> SyncOutcome(phone, served), of |-> sc]
  /\ hit' = hit \cup {"delayed"}
  /\ UNCHANGED <<run, sc, phase, todo, abort, rc, orphans, served, reported, swallowed,
                 slipped, borrowed, spoilt>>

Deliver ==
  /\ transit # None /\ phase # "done"
  /\ queue' = Append(queue, transit) /\ transit' = None
  /\ UNCHANGED <<main, worker, orphans, seen, phone, catalog, frozen, served, faults,
                 ghosts>>

-----------------------------------------------------------------------------
(* The main thread.  A scenario that cannot be built becomes one that fails.
   (Bound: a thread and a late result outlive their scenario by one at most.) *)
Unavailable == sc > 0 /\ Current.name = "pin_live" /\ catalog = None
Buildable == {"pin_live", "source_selected", "smoke_walk", "font_scale_cards",
              "history_show_on_map", "zone_feed_unsupported"}

Disturbed(s) ==
  (IF phone.zones # (IF catalog = None THEN Bundled ELSE catalog) THEN {"otherCatalog"} ELSE {})
    \cup (IF run.phone.tracking /\ phone.tracking THEN {"leftTracking"} ELSE {})
    \cup (IF run.keep # {} /\ Scripts[s].name = "self_test" THEN {"filtered"} ELSE {})

Begin(builds) ==
  /\ phase = "next" /\ sc < Len(Scripts) /\ ~Unavailable
  /\ \A o \in orphans : o.sc = sc
  /\ transit # None => transit.of = sc
  /\ sc' = sc + 1 /\ phase' = "work" /\ todo' = <<>> /\ abort' = FALSE
  /\ queue' = <<>>
  /\ worker' = IF builds THEN Thread(sc + 1) ELSE None
  /\ failure' = ~builds
  /\ reported' = (reported \/ failure)
  /\ hit' = Disturbed(sc + 1) \cup (IF builds THEN {} ELSE {"unbuilt"})
  /\ phone' = [phone EXCEPT !.crashed = FALSE]
  /\ UNCHANGED <<run, rc, orphans, transit, seen, catalog, frozen, served,
                 swallowed, slipped, borrowed, spoilt>>

NextScenario == Begin(TRUE) /\ UNCHANGED faults
BuildFails ==
  /\ phase = "next" /\ sc < Len(Scripts)
  /\ Scripts[sc + 1].name \notin Buildable /\ run.suite # "smoke"
  /\ GoesWrong /\ Begin(FALSE)

WorkerEnded ==
  /\ phase = "work" /\ worker = None
  /\ IF "unbuilt" \in hit
     THEN phase' = "next" /\ UNCHANGED todo
     ELSE phase' = "teardown" /\ todo' = Current.teardown
  /\ UNCHANGED <<run, sc, failure, abort, rc, worker, orphans, shared, served, faults,
                 ghosts>>

(* The commands of the main thread: a list ends at its first failure. *)
ReleaseCommands == IF frozen THEN Release ELSE <<>>
CloseCommands == <<Quietly(Stop), Quietly(ForceStop)>>

MainThread == [sc |-> sc, steps |-> todo, note |-> None, tries |-> 0]

Proceed(c, e) ==
  LET goesOn == e.ok \/ c.quiet
  IN  /\ todo' = IF goesOn THEN Tail(todo) ELSE <<>>
      /\ failure' = (failure \/ (phase = "teardown" /\ ~goesOn))
      /\ swallowed' = (swallowed \/ (~e.ok /\ phase = "teardown" /\ c.quiet
                                  /\ c.op \in {"set", "put"}))

Direct ==
  /\ phase \in {"teardown", "release", "close"} /\ todo # <<>>
  /\ \E c \in {Head(todo)} : \E e \in Results(c, MainThread) :
       Take([e EXCEPT !.frozen = (@ /\ phase # "release")]) /\ Proceed(c, e)
  /\ UNCHANGED <<run, sc, phase, abort, rc, worker, orphans, transit, served, faults, hit,
                 reported, slipped, borrowed, spoilt>>

DirectFails ==
  /\ phase \in {"teardown", "release", "close"} /\ todo # <<>> /\ GoesWrong
  /\ Take([Failed(MainThread) EXCEPT !.frozen = (@ /\ phase # "release")])
  /\ Proceed(Head(todo), Failed(MainThread))
  /\ hit' = hit \cup {"failed"} /\ spoilt' = TRUE
  /\ UNCHANGED <<run, sc, phase, abort, rc, worker, orphans, transit, served, reported,
                 slipped, borrowed>>

DirectDelay ==
  /\ phase = "teardown" /\ todo # <<>> /\ Head(todo).op = "sync"
  /\ transit = None /\ GoesWrong
  /\ Take([Same(MainThread) EXCEPT !.phone = Synced(phone, served)])
  /\ Proceed(Head(todo), Same(MainThread))
  /\ transit' = [line |-> SyncOutcome(phone, served), of |-> sc]
  /\ hit' = hit \cup {"delayed"}
  /\ UNCHANGED <<run, sc, phase, abort, rc, worker, orphans, served, reported, slipped,
                 borrowed, spoilt>>

Code == IF reported \/ failure THEN 1 ELSE 0

Directed ==
  /\ phase \in {"teardown", "release", "close"} /\ todo = <<>>
  /\ phase' = CASE phase = "teardown" -> "next" [] phase = "release" -> "close"
                [] phase = "close" -> "done"
  /\ todo' = IF phase = "release" THEN CloseCommands ELSE <<>>
  /\ rc' = IF phase = "close" /\ rc = None THEN Code ELSE rc
  /\ UNCHANGED <<run, sc, failure, abort, worker, orphans, shared, served, faults, ghosts>>

(* The scenarios are through, or those after a failed pin are not run. *)
Finish ==
  /\ phase = "next" /\ (sc = Len(Scripts) \/ Unavailable)
  /\ phase' = "release" /\ todo' = ReleaseCommands
  /\ UNCHANGED <<run, sc, failure, abort, rc, worker, orphans, shared, served, faults,
                 ghosts>>

(* Ctrl-C or SIGTERM reaches the main thread; no teardown is run, and the
   worker, a daemon thread, goes on until the process ends.                *)
Interrupt ==
  /\ phase \in {"next", "work", "teardown"} /\ GoesWrong
  /\ phase' = "release" /\ todo' = ReleaseCommands /\ rc' = 130
  /\ orphans' = IF worker = None THEN orphans ELSE orphans \cup {worker}
  /\ worker' = None /\ spoilt' = TRUE
  /\ UNCHANGED <<run, sc, failure, abort, shared, served, hit, reported, swallowed,
                 slipped, borrowed>>

-----------------------------------------------------------------------------
(* The world outside: a publication, the app's own sync and its bundle. *)
Pinning ==
  \/ sc > 0 /\ phase \in {"work", "teardown"} /\ Current.name = "pin_live"
  \/ \E t \in orphans : Scripts[t.sc].name = "pin_live"

Move ==
  /\ phase # "done" /\ GoesWrong
  /\ hit' = hit \cup {"moved"}
  /\ slipped' = (slipped \/ Pinning)
  /\ UNCHANGED <<main, worker, orphans, queue, transit, seen, catalog, frozen, reported,
                 swallowed, borrowed, spoilt>>

Publish ==
  /\ Move /\ UNCHANGED phone
  /\ served' \in {c \in Catalogs : c > served}
Refresh ==
  /\ Move /\ UNCHANGED served
  /\ phone' \in {Refreshed(phone, served), Reseeded(phone)} \ {phone}

Main == NextScenario \/ WorkerEnded \/ TimeOut \/ Direct \/ Directed \/ Finish

Next ==
  \/ Main \/ Work \/ Deliver
  \/ \E t \in orphans : Drift(t)
  \/ WorkFails \/ AppCrash \/ Hang \/ Delay \/ BuildFails \/ DirectFails \/ DirectDelay \/ Interrupt
  \/ Publish \/ Refresh

(* Threads are scheduled, calls to adb end (each has a timeout) and logcat
   keeps up in the end.                                                    *)
Spec ==
  /\ Init /\ [][Next]_vars
  /\ WF_vars(Main) /\ WF_vars(Work) /\ WF_vars(Deliver)
  /\ WF_vars(\E t \in orphans : Drift(t))

-----------------------------------------------------------------------------
(* A scenario is reported as failed only if it was disturbed itself, or an
   earlier scenario of the run was reported (the queue, the phone and the
   threads are shared), or a teardown swallowed the failure of a reset.  And
   a scenario during which the app crashed fails, whatever it waited for, if
   it has a teardown (expect_crash_free).                                  *)
FailuresAreExplained ==
  phase = "next" =>
    /\ failure => hit # {} \/ reported \/ swallowed
    /\ "crashed" \in hit /\ Current.teardown # <<>> => failure

(* What a scenario takes for its evidence it has caused itself, as long as no
   earlier scenario was reported as failed.                                *)
EvidenceIsOwn == borrowed => reported

(* A drive built from the live snapshot meets a phone with the same catalog,
   whatever is published meanwhile, unless it slipped in during the pin.   *)
DrivesOnPinnedCatalog ==
  (/\ catalog # None /\ ~slipped
   /\ phase = "work" /\ worker # None /\ Step(worker).op \in {"drive", "feed"})
    => phone.zones = catalog

(* What scenarios turn over for their own purposes is turned back by the end of
   a run, whatever fails in their steps: the phone is online, nothing tracks,
   history is kept, font, permission, auto-stop and feed notice are as usual.
   If the run found the phone unfrozen, pinned it, or passed the sync scenarios,
   its updates are on, and the next one brings it what is served by then,
   whatever hash and version the scenarios left in its settings.
   Voice, vehicle and language nobody restores: they stay as the last scenario
   set them, and only a run that passed is known to end with voice and car, as
   every phone of Runs begins.                                             *)
Heals ==
  \/ run.phone.syncOn \/ catalog # None
  \/ rc = 0 /\ \E i \in DOMAIN Scripts : Scripts[i].name = "zones_toggle_off"

CatchesUp(d) == \A c \in served..(Future - 1) : Synced(d, c).zones >= c

DeviceHandedBack ==
  phase = "done" /\ ~spoilt =>
    /\ ~phone.tracking /\ phone.online /\ phone.retention
    /\ ~phone.large /\ phone.allowed /\ ~phone.unsupported
    /\ phone.autoStop = FALSE
    /\ Heals => phone.syncOn /\ CatchesUp(phone)
    /\ rc = 0 => phone.voice /\ phone.vehicle = "car"

(* Every run comes to its end. *)
SuiteEnds == <>(phase = "done")
=============================================================================
