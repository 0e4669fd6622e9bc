------------------------- MODULE OnlineStateTracker -------------------------
(***************************************************************************)
(* Whether Firestore believes to be online (remote/online_state_tracker):  *)
(* Unknown becomes Offline when the timer elapses or the watch stream has  *)
(* failed often enough, and Online with a message of the server.           *)
(***************************************************************************)
EXTENDS Naturals

CONSTANT kMaxWatchStreamFailures  \* failures before Offline

ASSUME FailuresAssumption == kMaxWatchStreamFailures \in Nat \ {0}

\* failures is watch_stream_failures_, of which no value above the maximum is
\* told from it; timer is online_state_timer_.
Trackers == [state : {"Unknown", "Online", "Offline"},
             failures : 0..kMaxWatchStreamFailures, timer : BOOLEAN]

UpdateState(state) == [state |-> state, failures |-> 0, timer |-> FALSE]

HandleWatchStreamStart(t) ==
    IF t.failures # 0 THEN t
    ELSE [t EXCEPT !.state = "Unknown", !.timer = TRUE]

\* Variant with a bug: it never gives up.
HandleWatchStreamFailure_NeverGivesUp(t) ==
    IF t.state = "Online" THEN [t EXCEPT !.state = "Unknown"]
    ELSE [t EXCEPT !.failures = @ + 1]

HandleWatchStreamFailure(t) ==
    IF t.state = "Online" THEN [t EXCEPT !.state = "Unknown"]
    ELSE IF t.failures + 1 < kMaxWatchStreamFailures
    THEN [t EXCEPT !.failures = @ + 1]
    ELSE [state |-> "Offline", failures |-> kMaxWatchStreamFailures,
          timer |-> FALSE]

\* The timer has elapsed.
OnlineStateTimeout(t) == [t EXCEPT !.state = "Offline", !.timer = FALSE]
=============================================================================
