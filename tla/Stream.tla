------------------------------- MODULE Stream -------------------------------
(***************************************************************************)
(* The state of a gRPC stream (remote/stream.cc), as the watch stream and  *)
(* the write stream of Firestore share it.  Initial and Error are stopped: *)
(* after an error the next start waits for the backoff first.  Starting    *)
(* waits for a token.  How long a timer runs is left out.                  *)
(***************************************************************************)

StreamStates == [state : {"Initial", "Starting", "Open", "Error", "Backoff"},
                 idle : BOOLEAN]   \* idleness_timer_ is scheduled

IsOpen(s) == s.state = "Open"

IsStarted(s) == s.state \in {"Starting", "Backoff", "Open"}

\* Start of a stopped stream.
Start(s) == [s EXCEPT !.state = IF @ = "Error" THEN "Backoff" ELSE "Starting"]

OnStreamStart(s) == [s EXCEPT !.state = "Open"]

MarkIdle(s) == IF IsOpen(s) THEN [s EXCEPT !.idle = TRUE] ELSE s

\* Every message sent cancels the check for idleness.
Write(s) == [s EXCEPT !.idle = FALSE]

\* Stop, and InhibitBackoff of what has stopped already.
Stopped == [state |-> "Initial", idle |-> FALSE]

\* Close for any other reason than Stop.
Failed == [state |-> "Error", idle |-> FALSE]
=============================================================================
