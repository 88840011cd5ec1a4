--------------------------- MODULE AudioFocusProofs ---------------------------
(***************************************************************************)
(* The accounting behind the audio focus, for any number of announcements   *)
(* and of tracking sessions: every unit of the counter is owed by an        *)
(* utterance or by a callback on its way.                                   *)
(***************************************************************************)
EXTENDS AudioFocus, TLAPS

IInv == TypeOK /\ FocusIsOwed

(* What a speak() adds to the counter is what it adds to the queue. *)
LEMMA SpeakCounts ==
  ASSUME TypeOK, NEW mode \in {QUEUE_ADD, QUEUE_FLUSH},
         NEW leadIn \in BOOLEAN, NEW words \in BOOLEAN,
         Speak(mode, leadIn, words)
  PROVE  LET added == Count(leadIn) + Count(words)
             kept == IF mode = QUEUE_FLUSH THEN 0 ELSE pendingUtterances
         IN /\ added \in Nat
            /\ pendingUtterances' = kept + added
            /\ \/ queued' = queued + added
               \/ queued' = added /\ kept = 0
<1>1. /\ Count(leadIn) \in Nat /\ Count(words) \in Nat
      /\ pendingUtterances \in Nat /\ queued \in Nat
  BY DEF Count, TypeOK
<1>2. pendingUtterances' =
        (IF mode = QUEUE_FLUSH THEN 0 ELSE pendingUtterances)
          + Count(leadIn) + Count(words)
  <2>1. CASE pendingUtterances = 0
    BY <1>1, <2>1 DEF Speak, Count
  <2>2. CASE pendingUtterances # 0
    BY <1>1, <2>2 DEF Speak, Count
  <2>3. QED BY <2>1, <2>2
<1>3. \/ queued' = queued + Count(leadIn) + Count(words)
      \/ queued' = 0 + Count(leadIn) + Count(words) /\ mode = QUEUE_FLUSH
  BY DEF Speak
<1>4. QED BY <1>1, <1>2, <1>3

LEMMA SpeakStep ==
  ASSUME IInv, NEW mode \in {QUEUE_ADD, QUEUE_FLUSH},
         NEW leadIn \in BOOLEAN, NEW words \in BOOLEAN,
         Speak(mode, leadIn, words)
  PROVE  IInv'
<1> DEFINE added == Count(leadIn) + Count(words)
           kept == IF mode = QUEUE_FLUSH THEN 0 ELSE pendingUtterances
<1>1. /\ added \in Nat
      /\ pendingUtterances' = kept + added
      /\ \/ queued' = queued + added
         \/ queued' = added /\ kept = 0
  BY SpeakCounts DEF IInv
<1>2. /\ pendingUtterances \in Nat /\ queued \in Nat
      /\ calling \in Nat /\ posted \in Nat /\ spoken \in Nat
      /\ pendingUtterances <= queued + calling + posted
  BY DEF IInv, TypeOK, FocusIsOwed
<1>3. kept \in Nat /\ kept <= pendingUtterances
  BY <1>2
<1>4. calling' = calling /\ posted' = posted /\ spoken' = spoken + 1
      /\ UNCHANGED engine
  BY DEF Speak
<1>5. focus' \in BOOLEAN /\ (focus' => pendingUtterances' # 0)
  BY Zenon DEF Speak
<1> HIDE DEF added, kept
<1>6. /\ pendingUtterances' \in Nat /\ queued' \in Nat
      /\ pendingUtterances' <= queued' + calling' + posted'
  BY <1>1, <1>2, <1>3, <1>4
<1>7. TypeOK'
  BY <1>2, <1>4, <1>5, <1>6 DEF IInv, TypeOK, engine
<1>8. FocusIsOwed'
  BY <1>5, <1>6 DEF FocusIsOwed
<1>9. QED BY <1>7, <1>8 DEF IInv

(* A callback takes one from the counter and is itself consumed. *)
LEMMA FinishedStep ==
  ASSUME IInv, OnUtteranceFinished
  PROVE  IInv'
<1>1. TypeOK'
  BY DEF IInv, TypeOK, OnUtteranceFinished, engine, Larger
<1>2. FocusIsOwed'
  <2>1. pendingUtterances' \in Nat
    BY <1>1 DEF TypeOK
  <2>2. focus' => pendingUtterances' # 0
    BY Zenon DEF OnUtteranceFinished
  <2>3. pendingUtterances' <= queued' + calling' + posted'
    BY DEF IInv, TypeOK, FocusIsOwed, OnUtteranceFinished, engine, Larger
  <2>4. QED BY <2>1, <2>2, <2>3 DEF FocusIsOwed
<1>3. QED BY <1>1, <1>2 DEF IInv

LEMMA NextStep ==
  ASSUME IInv, [Next]_vars
  PROVE  IInv'
<1> USE DEF IInv, TypeOK, FocusIsOwed, engine, speech
<1>1. CASE Initialize
  BY <1>1 DEF Initialize
<1>2. CASE EngineBinds
  BY <1>2 DEF EngineBinds
<1>3. CASE \E success \in BOOLEAN : OnInit(success)
  <2>1. PICK success \in BOOLEAN : OnInit(success)
    BY <1>3
  <2>2. languageJob' \in BOOLEAN
    BY <2>1, Zenon DEF OnInit
  <2>3. QED BY <2>1, <2>2 DEF OnInit
<1>4. CASE LanguageApplied
  BY <1>4 DEF LanguageApplied
<1>5. CASE Shutdown
  <2>1. ~focus' /\ focus' \in BOOLEAN
    BY <1>5, Zenon DEF Shutdown
  <2>2. isInitialized' \in BOOLEAN /\ languageJob' \in BOOLEAN
    BY <1>5, Zenon DEF Shutdown
  <2>3. QED BY <1>5, <2>1, <2>2 DEF Shutdown
<1>6. CASE \E mode \in {QUEUE_ADD, QUEUE_FLUSH}, leadIn, words \in BOOLEAN :
             Speak(mode, leadIn, words)
  BY <1>6, SpeakStep
<1>7. CASE EngineFinishes
  BY <1>7 DEF EngineFinishes
<1>8. CASE PostUtteranceFinished
  BY <1>8 DEF PostUtteranceFinished
<1>9. CASE OnUtteranceFinished
  BY <1>9, FinishedStep
<1>10. CASE UNCHANGED vars
  BY <1>10 DEF vars
<1>11. QED BY <1>1, <1>2, <1>3, <1>4, <1>5, <1>6, <1>7, <1>8, <1>9, <1>10
           DEF Next

LEMMA AccountingInvariant == Spec => []IInv
<1>1. Init => IInv
  <2> SUFFICES ASSUME Init PROVE IInv
    OBVIOUS
  <2>1. ~focus /\ focus \in BOOLEAN
    BY Zenon DEF Init
  <2>2. isInitialized \in BOOLEAN /\ languageJob \in BOOLEAN
    BY Zenon DEF Init
  <2>3. QED BY <2>1, <2>2 DEF Init, IInv, TypeOK, FocusIsOwed
<1>2. IInv /\ [Next]_vars => IInv'
  BY NextStep
<1>3. QED BY <1>1, <1>2, PTL DEF Spec

(* The counter stays a natural number, however late a callback arrives. *)
THEOREM TypeCorrect == Spec => []TypeOK
<1>1. IInv => TypeOK
  BY DEF IInv
<1>2. QED BY <1>1, AccountingInvariant, PTL

(* Focus is held only while the counter is positive, and the counter never
   exceeds the utterances and callbacks that will bring it down.           *)
THEOREM FocusIsOwedHolds == Spec => []FocusIsOwed
<1>1. IInv => FocusIsOwed
  BY DEF IInv
<1>2. QED BY <1>1, AccountingInvariant, PTL
=============================================================================
