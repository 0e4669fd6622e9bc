---------------------------- MODULE QueryPromise ----------------------------
(***************************************************************************)
(* What a screen is promised when it asks Firestore for the one query of   *)
(* its user: whoever waits is answered together, with the same snapshot or *)
(* the same error, once.  The models of the screens are written against    *)
(* this promise (QueryAnswered and QueryFailed there).                     *)
(***************************************************************************)
CONSTANTS Gets,     \* the questions
          Answers,  \* snapshots and errors
          NoAnswer

VARIABLES asked,    \* the questions that were put
          answer    \* what each was answered

Waiting == {g \in asked : answer[g] = NoAnswer}

Init == /\ asked = {}
        /\ answer = [g \in Gets |-> NoAnswer]

Ask(g) == /\ g \notin asked
          /\ asked' = asked \cup {g}
          /\ UNCHANGED answer

\* All that wait.
AnswerAll(a) == /\ Waiting # {}
                /\ answer' = [g \in Gets |-> IF g \in Waiting THEN a
                                             ELSE answer[g]]
                /\ UNCHANGED asked

\* A question to which the answer is known: then nobody waits for it.
AnswerAtOnce(g, a) == /\ Waiting = {} /\ g \notin asked
                      /\ asked' = asked \cup {g}
                      /\ answer' = [answer EXCEPT ![g] = a]

Next == \/ \E g \in Gets : Ask(g) \/ \E a \in Answers : AnswerAtOnce(g, a)
        \/ \E a \in Answers : AnswerAll(a)

vars == <<asked, answer>>

Spec == Init /\ [][Next]_vars /\ \A g \in Gets : g \in asked ~> answer[g] # NoAnswer
=============================================================================
