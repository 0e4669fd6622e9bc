----------------------------- MODULE HighScore -----------------------------
(***************************************************************************)
(* What "BEST SCORE" on the training screen promises its player: the       *)
(* score stored in the profile is raised to every record that is claimed,  *)
(* one claim after another, and is never lowered.  The code keeps this     *)
(* promise only while each record is judged against the stored score; from *)
(* the first record judged without it (careless) nothing is promised.      *)
(***************************************************************************)
EXTENDS Naturals

VARIABLES stored,    \* the score the profile holds
          claim,     \* the score the player has been told is the best
          careless   \* a record was judged without the stored score

vars == <<stored, claim, careless>>

Init == /\ stored \in Nat
        /\ claim = stored
        /\ careless = FALSE

\* A finished game beats the best score.
Claim == /\ ~careless
         /\ claim' \in Nat
         /\ claim' > claim
         /\ UNCHANGED <<stored, careless>>

\* The best score claimed so far reaches the profile.
Save == /\ ~careless
        /\ stored' = claim
        /\ UNCHANGED <<claim, careless>>

\* A game beats a best score that was never fetched.
Forget == /\ ~careless
          /\ careless' = TRUE
          /\ stored' = stored
          /\ claim' \in Nat

Anything == /\ careless
            /\ stored' \in Nat
            /\ claim' \in Nat
            /\ careless' = TRUE

Next == Claim \/ Save \/ Forget \/ Anything

Spec == Init /\ [][Next]_vars
=============================================================================
