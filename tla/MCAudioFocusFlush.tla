-------------------------- MODULE MCAudioFocusFlush --------------------------
(***************************************************************************)
(* AudioFocus with an engine that accepts everything it is given, so that   *)
(* only the order of the callbacks is left to chance.                       *)
(***************************************************************************)
EXTENDS AudioFocus

Accepting ==
  spoken' # spoken =>
    \E mode \in {QUEUE_ADD, QUEUE_FLUSH} :
      Speak(mode, pendingUtterances = 0, TRUE)

AcceptingSpec == Init /\ [][Next /\ Accepting]_vars
=============================================================================
