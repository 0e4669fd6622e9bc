----------------------------- MODULE MCTraining -----------------------------
(***************************************************************************)
(* Instances of Training for TLC, and the mapping under which one screen   *)
(* keeps the promise of HighScore.                                         *)
(***************************************************************************)
EXTENDS Training, TLC

\* One verb, with two words for its first form, of which cut keeps one.
MCWords      == {"be", "up", "was"}
MCDictionary == {[tense \in 1..3 |-> IF tense = 1 THEN <<"be", "up">> ELSE <<"was">>]}

\* Screens start alike and nothing tells them apart.
ScreenSymmetry == Permutations(Screens)

Only == CHOOSE s \in Screens : TRUE

\* What the player of the only screen was told is the best score.
ToldBest == IF basis[Only] = "none" THEN profile ELSE best[Only]

Promise == INSTANCE HighScore WITH
              stored <- profile, claim <- ToldBest,
              careless <- basis[Only] = "blind"

\* Training with one screen implements HighScore: as long as each record is
\* judged against the loaded score, the store takes claimed scores only.
KeepsPromise == Promise!Spec
=============================================================================
