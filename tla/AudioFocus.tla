----------------------------- MODULE AudioFocus -----------------------------
(***************************************************************************)
(* How AudioAlertManager.kt shares the phone's audio focus: it asks for     *)
(* focus before it speaks, counts the utterances it has handed to the TTS   *)
(* engine, and lets go of the focus when the count is back at zero.         *)
(*                                                                         *)
(* Three parties move: the Main thread (speak, initialize, shutdown and the *)
(* posted callbacks), the engine, which plays its queue, and the binder     *)
(* threads on which the engine's callbacks arrive before they are posted to *)
(* Main.  The engine is external: it plays what it accepted, reports each   *)
(* utterance it played, and reports nothing for what was flushed.           *)
(***************************************************************************)
EXTENDS Integers

CONSTANTS
  MaxSpoken,     \* bound on speak() calls; no code counterpart
  MaxSessions    \* bound on initialize() calls; no code counterpart

ASSUME BoundsAssumption == MaxSpoken \in Nat /\ MaxSessions \in Nat

VARIABLES
  tts,           \* "none" (null), "binding" or "bound"
  isInitialized,
  languageJob,   \* the language collector is running
  initCallbacks, \* OnInitListener calls under way, of any engine instance
  pendingUtterances,
  focus,         \* whether the focus request is granted and not abandoned
  queued,        \* utterances in the engine, the one playing included
  calling,       \* onDone / onError calls still on a binder thread
  posted,        \* onUtteranceFinished runnables in the Main queue
  spoken, sessions

engine == <<tts, isInitialized, languageJob, initCallbacks, sessions>>
speech == <<pendingUtterances, focus, queued, calling, posted, spoken>>
vars == <<engine, speech>>

QUEUE_ADD == "QUEUE_ADD"
QUEUE_FLUSH == "QUEUE_FLUSH"

Larger(a, b) == IF a >= b THEN a ELSE b
Count(b) == IF b THEN 1 ELSE 0

-----------------------------------------------------------------------------
(* initialize: one engine at a time. *)
Initialize ==
  /\ tts = "none" /\ sessions < MaxSessions
  /\ tts' = "binding"
  /\ sessions' = sessions + 1
  /\ UNCHANGED <<isInitialized, languageJob, initCallbacks, speech>>

(* The service connects and the listener is called, in its own time. *)
EngineBinds ==
  /\ tts = "binding"
  /\ tts' = "bound"
  /\ initCallbacks' = initCallbacks + 1
  /\ UNCHANGED <<isInitialized, languageJob, sessions, speech>>

(* A callback that reports failure does nothing, nor does one that finds no
   engine, raced by shutdown; one of an earlier engine is taken for the
   current one's.                                                          *)
OnInit(success) ==
  /\ initCallbacks > 0
  /\ initCallbacks' = initCallbacks - 1
  /\ languageJob' = (languageJob \/ (success /\ tts # "none"))
  /\ UNCHANGED <<tts, isInitialized, sessions, speech>>

(* The collector applies the language, and only then may anything be said. *)
LanguageApplied ==
  /\ languageJob /\ ~isInitialized
  /\ isInitialized' = TRUE
  /\ UNCHANGED <<tts, languageJob, initCallbacks, sessions, speech>>

(* Mutant of Shutdown: the flushed utterances stay counted. *)
ShutdownKeepsCount ==
  /\ tts' = "none" /\ isInitialized' = FALSE /\ languageJob' = FALSE
  /\ queued' = 0 /\ posted' = 0
  /\ UNCHANGED <<pendingUtterances, focus, initCallbacks, sessions, calling,
                 spoken>>

(* shutdown: stopping the engine flushes its queue, the callbacks already in
   the Main queue are removed, those on a binder thread are not.           *)
Shutdown ==
  /\ tts' = "none" /\ isInitialized' = FALSE /\ languageJob' = FALSE
  /\ queued' = 0 /\ posted' = 0
  /\ pendingUtterances' = 0 /\ focus' = FALSE
  /\ UNCHANGED <<initCallbacks, sessions, calling, spoken>>

-----------------------------------------------------------------------------
(* Mutant of Speak: a rejected enqueue stays counted. *)
SpeakWithoutUndo(mode, leadIn, words) ==
  LET coldStart == pendingUtterances = 0
      flushing == mode = QUEUE_FLUSH
      flushed == flushing /\ (IF coldStart THEN leadIn ELSE words)
  IN /\ isInitialized /\ spoken < MaxSpoken
     /\ leadIn \/ words => tts = "bound"
     /\ leadIn => coldStart
     /\ pendingUtterances' =
          (IF flushing THEN 0 ELSE pendingUtterances) + 1 + Count(coldStart)
     /\ focus' = TRUE
     /\ queued' = (IF flushed THEN 0 ELSE queued) + Count(leadIn) + Count(words)
     /\ spoken' = spoken + 1
     /\ UNCHANGED <<engine, calling, posted>>

(* speak(text, queueMode).  A cold start is led in by a silent utterance; a
   flush wipes the queue with the first utterance the engine accepts in that
   mode.  leadIn and words say whether the engine accepted each of the two:
   what it rejects is uncounted on the spot, as if it had finished.        *)
Speak(mode, leadIn, words) ==
  LET coldStart == pendingUtterances = 0
      flushing == mode = QUEUE_FLUSH
      counted == (IF flushing THEN 0 ELSE pendingUtterances)
                   + 1 + Count(coldStart)
      rejected == Count(coldStart /\ ~leadIn) + Count(~words)
      flushed == flushing /\ (IF coldStart THEN leadIn ELSE words)
  IN /\ isInitialized /\ spoken < MaxSpoken
     /\ leadIn \/ words => tts = "bound"
     /\ leadIn => coldStart
     /\ pendingUtterances' = counted - rejected
     /\ focus' = (pendingUtterances' # 0)
     /\ queued' = (IF flushed THEN 0 ELSE queued) + Count(leadIn) + Count(words)
     /\ spoken' = spoken + 1
     /\ UNCHANGED <<engine, calling, posted>>

(* The engine is done with an utterance and calls onDone or onError. *)
EngineFinishes ==
  /\ queued > 0
  /\ queued' = queued - 1
  /\ calling' = calling + 1
  /\ UNCHANGED <<engine, pendingUtterances, focus, posted, spoken>>

(* postUtteranceFinished, on the binder thread *)
PostUtteranceFinished ==
  /\ calling > 0
  /\ calling' = calling - 1
  /\ posted' = posted + 1
  /\ UNCHANGED <<engine, pendingUtterances, focus, queued, spoken>>

(* Mutant of OnUtteranceFinished: the counter is not clamped at zero. *)
UnclampedFinish ==
  /\ posted > 0
  /\ posted' = posted - 1
  /\ pendingUtterances' = pendingUtterances - 1
  /\ focus' = (focus /\ pendingUtterances' # 0)
  /\ UNCHANGED <<engine, queued, calling, spoken>>

(* onUtteranceFinished, on Main *)
OnUtteranceFinished ==
  /\ posted > 0
  /\ posted' = posted - 1
  /\ pendingUtterances' = Larger(pendingUtterances - 1, 0)
  /\ focus' = (focus /\ pendingUtterances' # 0)
  /\ UNCHANGED <<engine, queued, calling, spoken>>

-----------------------------------------------------------------------------
Init ==
  /\ tts = "none" /\ isInitialized = FALSE /\ languageJob = FALSE
  /\ initCallbacks = 0 /\ sessions = 0
  /\ pendingUtterances = 0 /\ focus = FALSE
  /\ queued = 0 /\ calling = 0 /\ posted = 0
  /\ spoken = 0

Next ==
  \/ Initialize \/ EngineBinds \/ LanguageApplied \/ Shutdown
  \/ \E success \in BOOLEAN : OnInit(success)
  \/ \E mode \in {QUEUE_ADD, QUEUE_FLUSH}, leadIn, words \in BOOLEAN :
       Speak(mode, leadIn, words)
  \/ EngineFinishes \/ PostUtteranceFinished \/ OnUtteranceFinished

Spec == Init /\ [][Next]_vars

(* The engine plays its queue; binder threads and the Main queue run. *)
Fairness ==
  /\ WF_vars(EngineFinishes)
  /\ WF_vars(PostUtteranceFinished)
  /\ WF_vars(OnUtteranceFinished)

FairSpec == Spec /\ Fairness

-----------------------------------------------------------------------------
(* The fields keep their types; in particular a callback that outlives a
   shutdown cannot drive the counter below zero (line 452).                *)
TypeOK ==
  /\ tts \in {"none", "binding", "bound"}
  /\ isInitialized \in BOOLEAN /\ languageJob \in BOOLEAN
  /\ initCallbacks \in Nat /\ pendingUtterances \in Nat
  /\ focus \in BOOLEAN
  /\ queued \in Nat /\ calling \in Nat /\ posted \in Nat
  /\ spoken \in Nat /\ sessions \in Nat

(* Focus is never held for nothing: the counter behind it is positive, and
   each unit of it is owed by an utterance whose end has yet to be seen, so
   it will come down again.  It must hold across flushes, rejected enqueues,
   late callbacks, shutdown and a second engine (lines 63-72, 136-147,
   405-437).                                                               *)
FocusIsOwed ==
  /\ focus => pendingUtterances > 0
  /\ pendingUtterances <= queued + calling + posted

(* Once nothing more is said, other apps get the audio back for good ("would
   stay held until process death -- other apps stuck ducked", lines 137-139). *)
FocusIsReleased == <>[]~focus

(* "focus is only abandoned when the queue drains, so QUEUE_ADD speech isn't
   cut off by an early onDone from the first utterance" (lines 63-66).     *)
FocusHeldWhileSpeaking == queued > 0 => focus
=============================================================================
