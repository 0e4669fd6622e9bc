--------------------------- MODULE TrainingProofs ---------------------------
(***************************************************************************)
(* What holds of the training game for any number of screens, any          *)
(* dictionary and any bounds; one screen implements HighScore.             *)
(***************************************************************************)
EXTENDS MCTraining, SequenceTheorems, TLAPS

-----------------------------------------------------------------------------
(* Helpers: what the questions, the requests and the queues are made of.   *)

\* Whatever the dictionary holds, the expected answer is a word or blank.
LEMMA QuestionTyped ==
    ASSUME NEW vs \in SUBSET Dictionary
    PROVE  Questions(vs) \subseteq Words \cup {Blank}
<1> SUFFICES ASSUME vs # {}, NEW v \in vs, NEW tense \in 1..3
             PROVE  Cut(v[tense]) \in Words \cup {Blank}
  BY DEF Questions
<1>1. v[tense] \in Seq(Words)
  BY DictionaryAssumption
<1>2. CASE v[tense] = <<>>
  BY <1>2 DEF Cut
<1>3. CASE v[tense] # <<>>
  BY <1>1, <1>3, HeadTailProperties DEF Cut
<1> QED BY <1>2, <1>3

\* logicOfGame leaves an expected answer of the right type on every screen.
LEMMA LogicTyped ==
    ASSUME TypeOK, NEW s \in Screens, LogicOfGame(s)
    PROVE  expected' \in [Screens -> Words \cup {Blank}]
<1>1. verbs[s] \in SUBSET Dictionary
  BY DEF TypeOK
<1>2. PICK q \in Questions(verbs[s]) : expected' = [expected EXCEPT ![s] = q]
  BY DEF LogicOfGame
<1>3. q \in Words \cup {Blank}
  BY <1>1, <1>2, QuestionTyped
<1> QED BY <1>2, <1>3 DEF TypeOK

\* A query that is asked is a typed entry of the list of waiting ones.
LEMMA AskTyped ==
    ASSUME TypeOK, NEW s \in Screens, NEW do \in {"load", "update"}, Ask(do, s)
    PROVE  waiting' \in Seq(Queries)
<1>1. [do |-> do, by |-> s] \in Queries
  BY DEF Queries
<1>2. waiting \in Seq(Queries)
  BY DEF TypeOK
<1> QED BY <1>1, <1>2, AppendProperties DEF Ask

\* Running the head of the main queue leaves a typed queue and a typed head.
LEMMA HeadTyped ==
    ASSUME TypeOK, NEW s \in Screens, NEW do, Running(do, s)
    PROVE  /\ Head(mainQ) \in Closures
           /\ Tail(mainQ) \in Seq(Closures)
           /\ Head(mainQ).doc \in Nat
<1>1. mainQ \in Seq(Closures) /\ mainQ # <<>>
  BY DEF TypeOK, Running
<1>2. Head(mainQ) \in Closures /\ Tail(mainQ) \in Seq(Closures)
  BY <1>1, HeadTailProperties
<1> QED BY <1>2 DEF Closures

\* Firestore's answers: none, or one per waiting query with the stored score.
LEMMA AnswersTyped ==
    ASSUME TypeOK
    PROVE  /\ Answers \in Seq(Closures)
           /\ DOMAIN Answers \subseteq DOMAIN waiting
           /\ \A i \in DOMAIN Answers :
                 /\ Answers[i].do = waiting[i].do
                 /\ Answers[i].by = waiting[i].by
                 /\ Answers[i].doc = profile
<1>1. waiting \in Seq(Queries) /\ profile \in Nat
  BY DEF TypeOK
<1>2. Len(waiting) \in Nat /\ DOMAIN waiting = 1..Len(waiting)
  BY <1>1, LenProperties
<1>3. \A i \in 1..Len(waiting) : waiting[i] \in Queries
  BY <1>1, ElementOfSeq
<1>4. CASE account # "full"
  <2>1. Answers = <<>> /\ DOMAIN Answers = {}
    BY <1>4 DEF Answers
  <2> QED BY <2>1, EmptySeq
<1>5. CASE account = "full"
  <2> DEFINE A == [i \in 1..Len(waiting) |->
                     [do |-> waiting[i].do, by |-> waiting[i].by,
                      doc |-> profile]]
  <2>1. Answers = A
    BY <1>5 DEF Answers
  <2>2. \A i \in 1..Len(waiting) :
           [do |-> waiting[i].do, by |-> waiting[i].by, doc |-> profile]
             \in Closures
    BY <1>1, <1>3 DEF Queries, Closures
  <2>3. A \in [1..Len(waiting) -> Closures]
    BY <2>2
  <2>4. A \in Seq(Closures)
    <3> HIDE DEF A
    <3> QED BY <1>2, <2>3, SeqDef
  <2>5. DOMAIN A = DOMAIN waiting
    BY <1>2
  <2>6. \A i \in DOMAIN A : /\ A[i].do = waiting[i].do
                            /\ A[i].by = waiting[i].by
                            /\ A[i].doc = profile
    OBVIOUS
  <2> HIDE DEF A
  <2> QED BY <2>1, <2>4, <2>5, <2>6
<1> QED BY <1>4, <1>5

-----------------------------------------------------------------------------
(* The game on one screen: its clock, its seconds and its score label.     *)
(* Together the four facts are inductive: START is only tapped with no     *)
(* timer (OneClock), so the time is set before a timer fires, and a timer  *)
(* that finds one second left is the one that is invalidated.              *)

GameInv == OneClock /\ NeverMissesZero /\ TimeIsEarned /\ ScoreShown

-----------------------------------------------------------------------------
(* Type correctness.  That the time is never negative rests on the clock:   *)
(* a timer that fires finds a second left.                                  *)

\* Every step of the training game keeps the types.
LEMMA TypeStep == TypeOK /\ GameInv /\ [Next]_vars => TypeOK'
<1> SUFFICES ASSUME TypeOK, GameInv, [Next]_vars
             PROVE  TypeOK'
  OBVIOUS
<1> USE TimeAssumption, FailureAssumption
<1>1. ASSUME NEW s \in Screens, Open(s)
      PROVE  TypeOK'
  BY <1>1, AskTyped DEF Open, TypeOK
<1>2. ASSUME NEW s \in Screens, StartLearning(s)
      PROVE  TypeOK'
  <2>1. expected' \in [Screens -> Words \cup {Blank}]
    BY <1>2, LogicTyped DEF StartLearning
  <2>2. /\ timers' \in [Screens -> Nat]
        /\ time' \in [Screens -> Nat]
        /\ score' \in [Screens -> Nat]
        /\ board' \in [Screens -> {"start", "game"}]
    BY <1>2 DEF StartLearning, TypeOK
  <2> QED BY <1>2, <2>1, <2>2 DEF StartLearning, TypeOK
<1>3. ASSUME NEW s \in Screens, NEW typed, GoToNextVerb(s, typed)
      PROVE  TypeOK'
  <2>1. expected' \in [Screens -> Words \cup {Blank}]
    BY <1>3, LogicTyped DEF GoToNextVerb
  <2>2. /\ time' \in [Screens -> Nat]
        /\ score' \in [Screens -> Nat]
        /\ scoreLabel' \in [Screens -> Nat]
    BY <1>3 DEF GoToNextVerb, Answered, TypeOK
  <2> QED BY <1>3, <2>1, <2>2 DEF GoToNextVerb, Answered, TypeOK
<1>4. ASSUME NEW s \in Screens, BackButtonDidTap(s)
      PROVE  TypeOK'
  BY <1>4 DEF BackButtonDidTap, TypeOK
<1>5. ASSUME NEW s \in Screens, ActionForTimer(s)
      PROVE  TypeOK'
  <2>1. /\ timers[s] > 0
        /\ time' = [time EXCEPT ![s] = @ - 1]
        /\ \/ /\ timers' = [timers EXCEPT ![s] = @ - 1]
              /\ board' = [board EXCEPT ![s] = "start"]
           \/ UNCHANGED <<timers, board>>
    BY <1>5 DEF ActionForTimer, TimerFires
  <2>2. /\ timers' \in [Screens -> Nat]
        /\ time' \in [Screens -> Nat]
        /\ board' \in [Screens -> {"start", "game"}]
    <3>1. timers[s] - 1 \in Nat /\ timers \in [Screens -> Nat]
      BY <2>1 DEF TypeOK
    <3>2. timers' \in [Screens -> Nat]
      BY <2>1, <3>1
    <3>3. time' \in [Screens -> Nat]
      <4>1. time[s] \in Nat /\ time[s] >= 1
        BY <2>1 DEF TypeOK, GameInv, NeverMissesZero
      <4>2. time[s] - 1 \in Nat
        BY <4>1
      <4> QED BY <2>1, <4>2 DEF TypeOK
    <3>4. board' \in [Screens -> {"start", "game"}]
      BY <2>1 DEF TypeOK
    <3> QED BY <3>2, <3>3, <3>4
  <2>3. CASE time[s] = 1 /\ score[s] > best[s]
    <3>1. /\ best' = [best EXCEPT ![s] = score[s]]
          /\ Ask("update", s)
          /\ basis' = [basis EXCEPT ![s] = IF @ = "none" THEN "blind" ELSE @]
      BY <1>5, <2>3 DEF ActionForTimer, TimerFires, EndGame
    <3>2. /\ best' \in [Screens -> Nat]
          /\ basis' \in [Screens -> {"none", "loaded", "blind", "overtaken"}]
      BY <3>1 DEF TypeOK
    <3>3. waiting' \in Seq(Queries)
      BY <3>1, AskTyped
    <3>4. UNCHANGED <<screen, score, scoreLabel, expected, verbs, account,
                      profile, downloads, mainQ, failures>>
      BY <1>5 DEF ActionForTimer, TimerFires
    <3> QED BY <2>2, <3>2, <3>3, <3>4 DEF TypeOK
  <2>4. CASE ~(time[s] = 1 /\ score[s] > best[s])
    <3>1. UNCHANGED <<best, waiting, basis>>
      BY <1>5, <2>4 DEF ActionForTimer, TimerFires, EndGame
    <3> QED BY <1>5, <2>2, <3>1 DEF ActionForTimer, TimerFires, TypeOK
  <2> QED BY <2>3, <2>4
<1>6. ASSUME NEW s \in Screens, StorageReply(s)
      PROVE  TypeOK'
  <2>1. [do |-> "decode", by |-> s, doc |-> 0] \in Closures
    BY DEF Closures
  <2>2. mainQ' \in Seq(Closures)
    BY <1>6, <2>1, AppendProperties DEF StorageReply, TypeOK
  <2> QED BY <1>6, <2>2 DEF StorageReply, TypeOK, viewVars
<1>7. ASSUME NEW s \in Screens, StorageFailed(s)
      PROVE  TypeOK'
  BY <1>7 DEF StorageFailed, TypeOK, viewVars
<1>8. CASE QueryAnswered
  <2>1. mainQ' \in Seq(Closures)
    BY <1>8, AnswersTyped, ConcatProperties DEF QueryAnswered, TypeOK
  <2>2. waiting' \in Seq(Queries)
    BY <1>8, EmptySeq DEF QueryAnswered
  <2> QED BY <1>8, <2>1, <2>2 DEF QueryAnswered, TypeOK, viewVars
<1>9. CASE QueryFailed
  <2>1. waiting' \in Seq(Queries)
    BY <1>9, EmptySeq DEF QueryFailed
  <2> QED BY <1>9, <2>1 DEF QueryFailed, TypeOK, viewVars
<1>10. ASSUME NEW s \in Screens, RunLoad(s)
       PROVE  TypeOK'
  <2>1. Tail(mainQ) \in Seq(Closures) /\ Head(mainQ).doc \in Nat
    BY <1>10, HeadTyped DEF RunLoad
  <2>2. [do |-> "setBest", by |-> s, doc |-> Head(mainQ).doc] \in Closures
    BY <2>1 DEF Closures
  <2>3. mainQ' \in Seq(Closures)
    BY <1>10, <2>1, <2>2, AppendProperties DEF RunLoad
  <2> QED BY <1>10, <2>3 DEF RunLoad, TypeOK, viewVars
<1>11. ASSUME NEW s \in Screens, RunSetBest(s)
       PROVE  TypeOK'
  <2>1. Tail(mainQ) \in Seq(Closures) /\ Head(mainQ).doc \in Nat
    BY <1>11, HeadTyped DEF RunSetBest
  <2> QED BY <1>11, <2>1 DEF RunSetBest, TypeOK, viewVars
<1>12. ASSUME NEW s \in Screens, RunUpdate(s)
       PROVE  TypeOK'
  <2>1. Tail(mainQ) \in Seq(Closures)
    BY <1>12, HeadTyped DEF RunUpdate
  <2> QED BY <1>12, <2>1 DEF RunUpdate, Write, TypeOK, viewVars
<1>13. ASSUME NEW s \in Screens, RunDecode(s)
       PROVE  TypeOK'
  <2>1. Tail(mainQ) \in Seq(Closures)
    BY <1>13, HeadTyped DEF RunDecode
  <2>2. [do |-> "setVerbs", by |-> s, doc |-> 0] \in Closures
    BY DEF Closures
  <2>3. mainQ' \in Seq(Closures)
    BY <1>13, <2>1, <2>2, AppendProperties DEF RunDecode
  <2> QED BY <1>13, <2>3 DEF RunDecode, TypeOK, viewVars
<1>14. ASSUME NEW s \in Screens, RunSetVerbs(s)
       PROVE  TypeOK'
  <2>1. Tail(mainQ) \in Seq(Closures)
    BY <1>14, HeadTyped DEF RunSetVerbs
  <2> QED BY <1>14, <2>1 DEF RunSetVerbs, TypeOK, viewVars
<1>15. CASE UNCHANGED vars
  BY <1>15 DEF vars, viewVars, TypeOK
<1> QED BY <1>1, <1>2, <1>3, <1>4, <1>5, <1>6, <1>7, <1>8, <1>9, <1>10,
           <1>11, <1>12, <1>13, <1>14, <1>15 DEF Next, User, RunMain


\* Closures, answers and the user's arrows do not touch the game.
LEMMA GameUntouched ==
    ASSUME GameInv,
           UNCHANGED <<board, timers, time, score, scoreLabel>>
    PROVE  GameInv'
BY DEF GameInv, OneClock, NeverMissesZero, TimeIsEarned, ScoreShown

\* Every step keeps the clock, the seconds and the label of every game.
LEMMA GameStep == TypeOK /\ GameInv /\ [Next]_vars => GameInv'
<1> SUFFICES ASSUME TypeOK, GameInv, [Next]_vars
             PROVE  GameInv'
  OBVIOUS
<1> USE TimeAssumption
<1>1. ASSUME NEW s \in Screens, StartLearning(s)
      PROVE  GameInv'
  <2>1. /\ board[s] = "start"
        /\ time' = [time EXCEPT ![s] = StartTime]
        /\ score' = [score EXCEPT ![s] = 0]
        /\ timers' = [timers EXCEPT ![s] = @ + 1]
        /\ board' = [board EXCEPT ![s] = "game"]
        /\ scoreLabel' = scoreLabel
    BY <1>1 DEF StartLearning
  <2>2. OneClock'
    BY <2>1 DEF GameInv, OneClock, TypeOK
  <2>3. NeverMissesZero'
    BY <2>1 DEF GameInv, NeverMissesZero, TypeOK
  <2>4. TimeIsEarned'
    BY <2>1 DEF GameInv, TimeIsEarned, TypeOK
  <2>5. ScoreShown'
    BY <2>1 DEF GameInv, ScoreShown, TypeOK
  <2> QED BY <2>2, <2>3, <2>4, <2>5 DEF GameInv
<1>2. ASSUME NEW s \in Screens, NEW typed, GoToNextVerb(s, typed)
      PROVE  GameInv'
  <2>1. /\ board[s] = "game"
        /\ time' = [time EXCEPT ![s] = @ + Bonus]
        /\ score' = [score EXCEPT ![s] = @ + 1]
        /\ scoreLabel' = [scoreLabel EXCEPT ![s] = score[s] + 1]
        /\ UNCHANGED <<board, timers>>
    BY <1>2 DEF GoToNextVerb, Answered
  <2>2. OneClock'
    BY <2>1 DEF GameInv, OneClock
  <2>3. NeverMissesZero'
    BY <2>1 DEF GameInv, NeverMissesZero, TypeOK
  <2>4. TimeIsEarned'
    <3> SUFFICES ASSUME NEW t \in Screens, board'[t] = "game"
                 PROVE  time'[t] <= StartTime + Bonus * score'[t]
      BY DEF TimeIsEarned
    <3>1. time[t] <= StartTime + Bonus * score[t]
      BY <2>1 DEF GameInv, TimeIsEarned
    <3>2. CASE t = s
      <4>1. time'[t] = time[t] + Bonus /\ score'[t] = score[t] + 1
        BY <2>1, <3>2 DEF TypeOK
      <4>2. score[t] \in Nat /\ time[t] \in Int
        BY DEF TypeOK
      <4>3. Bonus * (score[t] + 1) = Bonus * score[t] + Bonus
        BY <4>2
      <4>4. Bonus * score[t] \in Int
        BY <4>2
      <4> QED BY <3>1, <4>1, <4>2, <4>3, <4>4
    <3>3. CASE t # s
      BY <2>1, <3>1, <3>3 DEF TypeOK
    <3> QED BY <3>2, <3>3
  <2>5. ScoreShown'
    BY <2>1 DEF GameInv, ScoreShown, TypeOK
  <2> QED BY <2>2, <2>3, <2>4, <2>5 DEF GameInv
<1>3. ASSUME NEW s \in Screens, ActionForTimer(s)
      PROVE  GameInv'
  <2>1. /\ timers[s] > 0
        /\ time' = [time EXCEPT ![s] = @ - 1]
        /\ UNCHANGED <<score, scoreLabel>>
    BY <1>3 DEF ActionForTimer, TimerFires
  <2>2. board[s] = "game" /\ timers[s] = 1
    BY <2>1 DEF GameInv, OneClock
  <2>3. CASE time[s] = 1
    <3>1. /\ timers' = [timers EXCEPT ![s] = @ - 1]
          /\ board' = [board EXCEPT ![s] = "start"]
      BY <1>3, <2>3 DEF ActionForTimer, TimerFires
    <3>2. OneClock'
      BY <2>2, <3>1 DEF GameInv, OneClock, TypeOK
    <3>3. NeverMissesZero'
      BY <2>1, <2>2, <3>1 DEF GameInv, NeverMissesZero, TypeOK
    <3>4. TimeIsEarned'
      BY <2>1, <3>1 DEF GameInv, TimeIsEarned, TypeOK
    <3>5. ScoreShown'
      BY <2>1, <3>1 DEF GameInv, ScoreShown, TypeOK
    <3> QED BY <3>2, <3>3, <3>4, <3>5 DEF GameInv
  <2>4. CASE time[s] # 1
    <3>1. UNCHANGED <<timers, board>>
      BY <1>3, <2>4 DEF ActionForTimer, TimerFires
    <3>2. OneClock' /\ ScoreShown'
      BY <2>1, <3>1 DEF GameInv, OneClock, ScoreShown
    <3>3. NeverMissesZero'
      BY <2>1, <2>4, <3>1 DEF GameInv, NeverMissesZero, TypeOK
    <3>4. TimeIsEarned'
      <4> SUFFICES ASSUME NEW t \in Screens, board[t] = "game"
                   PROVE  time'[t] <= StartTime + Bonus * score[t]
        BY <2>1, <3>1 DEF TimeIsEarned
      <4>1. time[t] <= StartTime + Bonus * score[t]
        BY DEF GameInv, TimeIsEarned
      <4>2. time[t] \in Int /\ score[t] \in Nat
        BY DEF TypeOK
      <4>3. time'[t] \in Int /\ time'[t] <= time[t]
        BY <2>1, <4>2 DEF TypeOK
      <4>4. Bonus * score[t] \in Int
        BY <4>2
      <4> QED BY <4>1, <4>2, <4>3, <4>4
    <3> QED BY <3>2, <3>3, <3>4 DEF GameInv
  <2> QED BY <2>3, <2>4
<1>4. ASSUME NEW s \in Screens,
             \/ Open(s) \/ BackButtonDidTap(s)
             \/ StorageReply(s) \/ StorageFailed(s)
             \/ RunLoad(s) \/ RunSetBest(s) \/ RunUpdate(s)
             \/ RunDecode(s) \/ RunSetVerbs(s)
      PROVE  GameInv'
  <2>1. UNCHANGED <<board, timers, time, score, scoreLabel>>
    BY <1>4 DEF Open, BackButtonDidTap, StorageReply, StorageFailed,
       RunLoad, RunSetBest, RunUpdate, Write,
       RunDecode, RunSetVerbs, viewVars
  <2> QED BY <2>1, GameUntouched
<1>5. CASE QueryAnswered \/ QueryFailed
  <2>1. UNCHANGED <<board, timers, time, score, scoreLabel>>
    BY <1>5 DEF QueryAnswered, QueryFailed, viewVars
  <2> QED BY <2>1, GameUntouched
<1>6. CASE UNCHANGED vars
  <2>1. UNCHANGED <<board, timers, time, score, scoreLabel>>
    BY <1>6 DEF vars, viewVars
  <2> QED BY <2>1, GameUntouched
<1> QED BY <1>1, <1>2, <1>3, <1>4, <1>5, <1>6 DEF Next, User, RunMain

\* Hence types and game are together an invariant of the training game.
LEMMA TypedGame == Spec => [](TypeOK /\ GameInv)
<1>1. Init => TypeOK
  <2> SUFFICES ASSUME Init PROVE TypeOK
    OBVIOUS
  <2>1. waiting \in Seq(Queries) /\ mainQ \in Seq(Closures)
    BY EmptySeq DEF Init
  <2> QED BY <2>1, TimeAssumption, ScoreAssumption, FailureAssumption
          DEF Init, TypeOK
<1>2. Init => GameInv
  BY TimeAssumption DEF Init, GameInv, OneClock, NeverMissesZero,
     TimeIsEarned, ScoreShown
<1> QED BY <1>1, <1>2, TypeStep, GameStep, PTL DEF Spec

\* The training game, of the view and the presenter together, is well typed
\* in every state it reaches: no score and no time is ever negative.
THEOREM TypeCorrect == Spec => []TypeOK
BY TypedGame, PTL

\* The game is right in every state.
LEMMA GameInvariant == Spec => []GameInv
BY TypedGame, PTL

\* startLearning schedules a timer that actionForTimer invalidates: however
\* long the screen is used, a game has exactly one clock.
THEOREM ClockCorrect == Spec => []OneClock
<1>1. GameInv => OneClock
  BY DEF GameInv
<1> QED BY <1>1, GameInvariant, PTL

\* The test time == 0 in actionForTimer is never stepped over.
THEOREM ZeroNotMissed == Spec => []NeverMissesZero
<1>1. GameInv => NeverMissesZero
  BY DEF GameInv
<1> QED BY <1>1, GameInvariant, PTL

\* No game lasts longer than its start time and the bonus of its answers.
THEOREM SecondsEarned == Spec => []TimeIsEarned
<1>1. GameInv => TimeIsEarned
  BY DEF GameInv
<1> QED BY <1>1, GameInvariant, PTL

\* The label is right from the first point on, and only then.
THEOREM LabelRight == Spec => []ScoreShown
<1>1. GameInv => ScoreShown
  BY DEF GameInv
<1> QED BY <1>1, GameInvariant, PTL

-----------------------------------------------------------------------------
(* The record.  A screen whose best score is loaded holds at least the     *)
(* stored one; the load that makes it so must be its only one, and what it *)
(* carries must still be the stored score when it is applied.              *)

\* The entries of a queue from which the head was taken are those of the queue.
LEMMA TailItems ==
    ASSUME NEW S, NEW q \in Seq(S), q # <<>>
    PROVE  /\ 1 \in DOMAIN q
           /\ Head(q) = q[1]
           /\ \A i \in DOMAIN Tail(q) :
                 i \in Nat \ {0} /\ i + 1 \in DOMAIN q /\ Tail(q)[i] = q[i + 1]
<1>1. Len(q) \in Nat /\ DOMAIN q = 1..Len(q) /\ Len(q) # 0
  BY LenProperties, EmptySeq
<1>2. Tail(q) \in Seq(S) /\ Len(Tail(q)) = Len(q) - 1
      /\ \A i \in 1..Len(Tail(q)) : Tail(q)[i] = q[i + 1]
  BY HeadTailProperties
<1>3. DOMAIN Tail(q) = 1..Len(q) - 1
  BY <1>2, LenProperties
<1>4. Head(q) = q[1]
  OBVIOUS
<1> QED BY <1>1, <1>2, <1>3, <1>4

\* The entries of a queue to which one was added: the old ones and that one.
LEMMA AppendItems ==
    ASSUME NEW S, NEW q \in Seq(S), NEW e \in S
    PROVE  /\ DOMAIN q \subseteq Nat
           /\ \A i \in DOMAIN Append(q, e) :
                 \/ i \in DOMAIN q /\ Append(q, e)[i] = q[i]
                 \/ i = Len(q) + 1 /\ i \notin DOMAIN q /\ Append(q, e)[i] = e
<1>1. Len(q) \in Nat /\ DOMAIN q = 1..Len(q)
  BY LenProperties
<1>2. /\ Append(q, e) \in Seq(S)
      /\ Len(Append(q, e)) = Len(q) + 1
      /\ \A i \in 1..Len(q) : Append(q, e)[i] = q[i]
      /\ Append(q, e)[Len(q) + 1] = e
  BY AppendProperties
<1>3. DOMAIN Append(q, e) = 1..Len(q) + 1
  BY <1>2, LenProperties
<1> QED BY <1>1, <1>2, <1>3

\* Closures that are neither a load nor an update may leave or join the main
\* queue, and waiting queries may be dropped: the record is not concerned.
LEMMA QueueIndifferent ==
    ASSUME RecordInv, NEW k \in {0, 1},
           UNCHANGED <<screen, timers, board, best, profile, basis>>,
           waiting' \in {waiting, <<>>},
           \A i \in DOMAIN mainQ' : i \in Nat,
           \A i \in DOMAIN mainQ' :
              \/ mainQ'[i].do \in {"decode", "setVerbs"}
              \/ i + k \in DOMAIN mainQ /\ mainQ'[i] = mainQ[i + k]
    PROVE  RecordInv'
<1>1. \A t \in Screens, i \in DOMAIN waiting' :
         i \in DOMAIN waiting /\ waiting'[i] = waiting[i]
  OBVIOUS
<1>2. \A t \in Screens, i \in DOMAIN waiting' :
         LoadAsked(t, i)' => i \in DOMAIN waiting /\ LoadAsked(t, i)
  BY <1>1 DEF LoadAsked
<1>3. \A t \in Screens, i \in DOMAIN mainQ' :
         LoadArrived(t, i)' => i + k \in DOMAIN mainQ /\ LoadArrived(t, i + k)
  BY DEF LoadArrived
<1>4. \A t \in Screens : NoLoad(t) => NoLoad(t)'
  BY <1>2, <1>3 DEF NoLoad
<1>5. BestIsCurrent' /\ LoadedOnce' /\ Unopened'
  BY <1>4 DEF RecordInv, BestIsCurrent, LoadedOnce, Unopened
<1>6. OneLoad'
  <2>1. \A i, j \in DOMAIN mainQ' : i + k = j + k => i = j
    OBVIOUS
  <2> QED BY <1>2, <1>3, <2>1 DEF RecordInv, OneLoad
<1>7. Unloaded'
  <2> SUFFICES ASSUME NEW t \in Screens, basis[t] = "none"
               PROVE  /\ \A i \in DOMAIN waiting' :
                            ~(waiting'[i].do = "update" /\ waiting'[i].by = t)
                      /\ \A i \in DOMAIN mainQ' : mainQ'[i].by = t =>
                            /\ mainQ'[i].do # "update"
                            /\ LoadArrived(t, i)' => mainQ'[i].doc = profile
    BY DEF Unloaded
  <2>1. /\ \A i \in DOMAIN waiting :
              ~(waiting[i].do = "update" /\ waiting[i].by = t)
        /\ \A i \in DOMAIN mainQ : mainQ[i].by = t =>
              /\ mainQ[i].do # "update"
              /\ LoadArrived(t, i) => mainQ[i].doc = profile
    BY DEF RecordInv, Unloaded
  <2>2. \A i \in DOMAIN waiting' :
           ~(waiting'[i].do = "update" /\ waiting'[i].by = t)
    BY <1>1, <2>1
  <2>3. ASSUME NEW i \in DOMAIN mainQ', mainQ'[i].by = t
        PROVE  /\ mainQ'[i].do # "update"
               /\ LoadArrived(t, i)' => mainQ'[i].doc = profile
    <3>1. CASE mainQ'[i].do \in {"decode", "setVerbs"}
      BY <3>1 DEF LoadArrived
    <3>2. CASE i + k \in DOMAIN mainQ /\ mainQ'[i] = mainQ[i + k]
      BY <1>3, <2>1, <2>3, <3>2
    <3> QED BY <3>1, <3>2
  <2> QED BY <2>2, <2>3
<1> QED BY <1>5, <1>6, <1>7 DEF RecordInv

\* What the game does on an open screen is no concern of the record either.
LEMMA ScreenIndifferent ==
    ASSUME TypeOK, RecordInv, NEW s \in Screens, screen[s] # "new",
           UNCHANGED <<best, profile, basis, waiting, mainQ>>,
           \A t \in Screens \ {s} : /\ screen'[t] = screen[t]
                                    /\ timers'[t] = timers[t]
                                    /\ board'[t] = board[t],
           screen'[s] # "new"
    PROVE  RecordInv'
<1>1. \A t \in Screens : NoLoad(t)' = NoLoad(t)
  BY DEF NoLoad, LoadAsked, LoadArrived
<1>2. BestIsCurrent' /\ LoadedOnce'
  BY <1>1 DEF RecordInv, BestIsCurrent, LoadedOnce
<1>3. OneLoad' /\ Unloaded'
  BY DEF RecordInv, OneLoad, Unloaded, LoadAsked, LoadArrived
<1>4. Unopened'
  BY <1>1 DEF RecordInv, Unopened
<1> QED BY <1>2, <1>3, <1>4 DEF RecordInv

\* The load that viewDidLoad asks for is the first of its screen.
LEMMA OpenKeepsRecord ==
    ASSUME TypeOK, RecordInv, NEW s \in Screens, Open(s)
    PROVE  RecordInv'
<1> DEFINE e == [do |-> "load", by |-> s]
<1>1. /\ screen[s] = "new"
      /\ screen' = [screen EXCEPT ![s] = "open"]
      /\ UNCHANGED <<best, profile, basis, mainQ, timers, board>>
  BY DEF Open
<1>2. basis[s] = "none" /\ NoLoad(s)
  BY <1>1 DEF RecordInv, Unopened
<1>3. \A t \in Screens : t # s => screen'[t] = screen[t]
  BY <1>1 DEF TypeOK
<1>3a. screen'[s] = "open"
  BY <1>1 DEF TypeOK
<1>4. CASE account = "signedOut"
  <2>1. waiting' = waiting
    BY <1>4 DEF Open, Ask
  <2>2. \A t \in Screens : NoLoad(t)' = NoLoad(t)
    BY <1>1, <2>1 DEF NoLoad, LoadAsked, LoadArrived
  <2>3. BestIsCurrent' /\ LoadedOnce'
    BY <1>1, <2>2 DEF RecordInv, BestIsCurrent, LoadedOnce
  <2>4. OneLoad' /\ Unloaded'
    BY <1>1, <2>1 DEF RecordInv, OneLoad, Unloaded, LoadAsked, LoadArrived
  <2>5. Unopened'
    BY <1>1, <1>3, <1>3a, <2>2 DEF RecordInv, Unopened
  <2> QED BY <2>3, <2>4, <2>5 DEF RecordInv
<1>5. CASE account # "signedOut"
  <2>1. waiting' = Append(waiting, e)
    BY <1>5 DEF Open, Ask
  <2>2. e \in Queries /\ waiting \in Seq(Queries)
    BY DEF Queries, TypeOK
  <2>3. e.do = "load" /\ e.by = s
    OBVIOUS
  <2> HIDE DEF e
  <2>4. \A i \in DOMAIN waiting' :
           \/ i \in DOMAIN waiting /\ waiting'[i] = waiting[i]
           \/ i = Len(waiting) + 1 /\ waiting'[i] = e
    BY <2>1, <2>2, AppendItems
  <2>5. \A t \in Screens, i \in DOMAIN waiting' :
           LoadAsked(t, i)' => \/ i \in DOMAIN waiting /\ LoadAsked(t, i)
                               \/ t = s /\ i = Len(waiting) + 1
    BY <2>3, <2>4 DEF LoadAsked
  <2>6. \A t \in Screens : \A i : LoadArrived(t, i)' = LoadArrived(t, i)
    BY <1>1 DEF LoadArrived
  <2>7. \A t \in Screens : t # s /\ NoLoad(t) => NoLoad(t)'
    BY <1>1, <2>5, <2>6 DEF NoLoad
  <2>8. BestIsCurrent' /\ LoadedOnce'
    BY <1>1, <1>2, <2>7 DEF RecordInv, BestIsCurrent, LoadedOnce
  <2>9. OneLoad'
    <3> SUFFICES ASSUME NEW t \in Screens
                 PROVE  /\ \A i, j \in DOMAIN waiting' :
                             LoadAsked(t, i)' /\ LoadAsked(t, j)' => i = j
                        /\ \A i, j \in DOMAIN mainQ :
                             LoadArrived(t, i) /\ LoadArrived(t, j) => i = j
                        /\ \A i \in DOMAIN waiting', j \in DOMAIN mainQ :
                             ~(LoadAsked(t, i)' /\ LoadArrived(t, j))
      BY <1>1, <2>6 DEF OneLoad
    <3>1. CASE t = s
      BY <1>2, <2>5, <3>1 DEF NoLoad
    <3>2. CASE t # s
      BY <2>5, <3>2 DEF RecordInv, OneLoad
    <3> QED BY <3>1, <3>2
  <2>10. Unloaded'
    <3>1. \A t \in Screens, i \in DOMAIN waiting' :
            waiting'[i].do = "update" /\ waiting'[i].by = t =>
              i \in DOMAIN waiting /\ waiting[i].do = "update" /\ waiting[i].by = t
      BY <2>3, <2>4
    <3> QED BY <1>1, <2>6, <3>1 DEF RecordInv, Unloaded
  <2>11. Unopened'
    BY <1>1, <1>3, <1>3a, <2>7 DEF RecordInv, Unopened
  <2> QED BY <2>8, <2>9, <2>10, <2>11 DEF RecordInv
<1> QED BY <1>4, <1>5

\* A game that ends with a record raises the best score of its screen; if that
\* screen had none, it is blind from here on.
LEMMA TimerKeepsRecord ==
    ASSUME TypeOK, RecordInv, NEW s \in Screens, ActionForTimer(s)
    PROVE  RecordInv'
<1> DEFINE e == [do |-> "update", by |-> s]
<1>1. /\ timers[s] > 0
      /\ UNCHANGED <<screen, profile, mainQ>>
  BY DEF ActionForTimer, TimerFires
<1>2. screen[s] # "new"
  BY <1>1 DEF RecordInv, Unopened
<1>3. \A t \in Screens \ {s} : timers'[t] = timers[t] /\ board'[t] = board[t]
  BY DEF ActionForTimer, TimerFires, TypeOK
<1>4. CASE ~(time[s] = 1 /\ score[s] > best[s])
  <2>1. UNCHANGED <<best, waiting, basis>>
    BY <1>4 DEF ActionForTimer, TimerFires, EndGame
  <2> QED BY <1>1, <1>2, <1>3, <2>1, ScreenIndifferent
<1>5. CASE time[s] = 1 /\ score[s] > best[s]
  <2>1. /\ best' = [best EXCEPT ![s] = score[s]]
        /\ Ask("update", s)
        /\ basis' = [basis EXCEPT ![s] = IF @ = "none" THEN "blind" ELSE @]
    BY <1>5 DEF ActionForTimer, TimerFires, EndGame
  <2>2. e \in Queries /\ waiting \in Seq(Queries)
    BY DEF Queries, TypeOK
  <2>3. e.do = "update" /\ e.by = s
    OBVIOUS
  <2>4. waiting' = waiting \/ waiting' = Append(waiting, e)
    BY <2>1 DEF Ask
  <2> HIDE DEF e
  <2>5. \A i \in DOMAIN waiting' :
           \/ i \in DOMAIN waiting /\ waiting'[i] = waiting[i]
           \/ waiting'[i] = e
    BY <2>2, <2>4, AppendItems
  <2>6. \A t \in Screens, i \in DOMAIN waiting' :
           LoadAsked(t, i)' => i \in DOMAIN waiting /\ LoadAsked(t, i)
    BY <2>3, <2>5 DEF LoadAsked
  <2>7. \A t \in Screens : \A i : LoadArrived(t, i)' = LoadArrived(t, i)
    BY <1>1 DEF LoadArrived
  <2>8. \A t \in Screens : NoLoad(t) => NoLoad(t)'
    BY <1>1, <2>6, <2>7 DEF NoLoad
  <2>9. /\ basis'[s] # "none"
        /\ basis'[s] = "loaded" => basis[s] = "loaded"
        /\ \A t \in Screens \ {s} : basis'[t] = basis[t]
    BY <2>1 DEF TypeOK
  <2>10. BestIsCurrent'
    <3>1. best'[s] = score[s] /\ \A t \in Screens \ {s} : best'[t] = best[t]
      BY <2>1 DEF TypeOK
    <3>2. /\ best[s] \in Nat /\ score[s] \in Nat /\ profile \in Nat
      BY DEF TypeOK
    <3>3. basis'[s] = "loaded" => best'[s] >= profile'
      BY <1>1, <1>5, <2>9, <3>1, <3>2 DEF RecordInv, BestIsCurrent
    <3> QED BY <1>1, <2>9, <3>1, <3>3 DEF RecordInv, BestIsCurrent
  <2>11. LoadedOnce'
    BY <2>8, <2>9 DEF RecordInv, LoadedOnce
  <2>12. OneLoad'
    BY <1>1, <2>6, <2>7 DEF RecordInv, OneLoad
  <2>13. Unloaded'
    <3>1. \A t \in Screens, i \in DOMAIN waiting' :
            t # s /\ waiting'[i].do = "update" /\ waiting'[i].by = t =>
              i \in DOMAIN waiting /\ waiting[i].do = "update" /\ waiting[i].by = t
      BY <2>3, <2>5
    <3> QED BY <1>1, <2>7, <2>9, <3>1 DEF RecordInv, Unloaded
  <2>14. Unopened'
    BY <1>1, <1>2, <1>3, <2>8, <2>9 DEF RecordInv, Unopened
  <2> QED BY <2>10, <2>11, <2>12, <2>13, <2>14 DEF RecordInv
<1> QED BY <1>4, <1>5

\* The answer carries the stored score of this moment to each load.
LEMMA AnswerKeepsRecord ==
    ASSUME TypeOK, RecordInv, QueryAnswered
    PROVE  RecordInv'
<1> DEFINE n == Len(mainQ)
<1>1. /\ UNCHANGED <<screen, timers, board, best, profile, basis>>
      /\ waiting' = <<>>
      /\ mainQ' = mainQ \o Answers
  BY DEF QueryAnswered, viewVars
<1>2. mainQ \in Seq(Closures) /\ Answers \in Seq(Closures)
  BY AnswersTyped DEF TypeOK
<1>3. /\ n \in Nat /\ DOMAIN mainQ = 1..n
      /\ Len(Answers) \in Nat /\ DOMAIN Answers = 1..Len(Answers)
  BY <1>2, LenProperties
<1>4. /\ DOMAIN mainQ' = 1..n + Len(Answers)
      /\ \A i \in DOMAIN mainQ' :
            mainQ'[i] = IF i <= n THEN mainQ[i] ELSE Answers[i - n]
  BY <1>1, <1>2, ConcatProperties, LenProperties
<1>5. \A i \in DOMAIN mainQ' :
         \/ i \in DOMAIN mainQ /\ mainQ'[i] = mainQ[i]
         \/ /\ i \in Int /\ i > n /\ i - n \in DOMAIN Answers
            /\ mainQ'[i] = Answers[i - n]
  BY <1>3, <1>4
<1>6. n \in Nat /\ \A i \in DOMAIN mainQ : i \in Int /\ i <= n
  BY <1>3
<1> HIDE DEF n
<1>7. \A i \in DOMAIN mainQ' :
         \/ i \in DOMAIN mainQ /\ mainQ'[i] = mainQ[i]
         \/ /\ i \in Int /\ i > n /\ i - n \in DOMAIN waiting
            /\ mainQ'[i].do = waiting[i - n].do
            /\ mainQ'[i].by = waiting[i - n].by
            /\ mainQ'[i].doc = profile
            /\ waiting[i - n].do \in {"load", "update"}
  <2>1. \A j \in DOMAIN waiting : waiting[j].do \in {"load", "update"}
    <3>1. \A j \in DOMAIN waiting : waiting[j] \in Queries
      BY LenProperties, ElementOfSeq DEF TypeOK
    <3> QED BY <3>1 DEF Queries
  <2> QED BY <1>5, <2>1, AnswersTyped
<1>8. \A t \in Screens, i \in DOMAIN mainQ' : LoadArrived(t, i)' =>
         \/ i \in DOMAIN mainQ /\ LoadArrived(t, i)
         \/ /\ i \in Int /\ i > n /\ i - n \in DOMAIN waiting
            /\ LoadAsked(t, i - n)
  BY <1>7 DEF LoadArrived, LoadAsked
<1>9. DOMAIN waiting' = {}
  BY <1>1
<1>10. \A t \in Screens : NoLoad(t) => NoLoad(t)'
  BY <1>8, <1>9 DEF NoLoad
<1>11. BestIsCurrent' /\ LoadedOnce' /\ Unopened'
  BY <1>1, <1>10 DEF RecordInv, BestIsCurrent, LoadedOnce, Unopened
<1>12. OneLoad'
  <2> SUFFICES ASSUME NEW t \in Screens, NEW i \in DOMAIN mainQ',
                      NEW j \in DOMAIN mainQ',
                      LoadArrived(t, i)', LoadArrived(t, j)'
               PROVE  i = j
    BY <1>9 DEF OneLoad
  <2>1. CASE i \in DOMAIN mainQ /\ LoadArrived(t, i)
             /\ j \in DOMAIN mainQ /\ LoadArrived(t, j)
    BY <2>1 DEF RecordInv, OneLoad
  <2>2. CASE /\ i \in Int /\ i - n \in DOMAIN waiting /\ LoadAsked(t, i - n)
             /\ j \in Int /\ j - n \in DOMAIN waiting /\ LoadAsked(t, j - n)
    <3>1. i - n = j - n
      BY <2>2 DEF RecordInv, OneLoad
    <3> QED BY <1>6, <2>2, <3>1
  <2>3. ASSUME NEW k \in DOMAIN waiting, NEW l \in DOMAIN mainQ,
               LoadAsked(t, k), LoadArrived(t, l)
        PROVE  FALSE
    BY <2>3 DEF RecordInv, OneLoad
  <2> QED BY <1>8, <2>1, <2>2, <2>3
<1>13. Unloaded'
  <2> SUFFICES ASSUME NEW t \in Screens, basis[t] = "none",
                      NEW i \in DOMAIN mainQ', mainQ'[i].by = t
               PROVE  /\ mainQ'[i].do # "update"
                      /\ LoadArrived(t, i)' => mainQ'[i].doc = profile
    BY <1>1, <1>9 DEF Unloaded
  <2>1. CASE i \in DOMAIN mainQ /\ mainQ'[i] = mainQ[i]
    <3>1. LoadArrived(t, i)' = LoadArrived(t, i)
      BY <2>1 DEF LoadArrived
    <3> QED BY <2>1, <3>1 DEF RecordInv, Unloaded
  <2>2. CASE /\ i - n \in DOMAIN waiting
             /\ mainQ'[i].do = waiting[i - n].do
             /\ mainQ'[i].by = waiting[i - n].by
             /\ mainQ'[i].doc = profile
    BY <2>2 DEF RecordInv, Unloaded
  <2> QED BY <1>7, <2>1, <2>2
<1> QED BY <1>11, <1>12, <1>13 DEF RecordInv

\* The load's first closure only passes the answer on to the second.
LEMMA LoadKeepsRecord ==
    ASSUME TypeOK, RecordInv, NEW s \in Screens, RunLoad(s)
    PROVE  RecordInv'
<1> DEFINE e == [do |-> "setBest", by |-> s, doc |-> Head(mainQ).doc]
<1>1. /\ mainQ \in Seq(Closures) /\ mainQ # <<>>
      /\ Head(mainQ).do = "load" /\ Head(mainQ).by = s
      /\ mainQ' = Append(Tail(mainQ), e)
      /\ UNCHANGED <<screen, timers, board, best, profile, basis, waiting>>
  BY DEF RunLoad, Running, TypeOK, viewVars
<1>2. /\ 1 \in DOMAIN mainQ
      /\ Head(mainQ) = mainQ[1]
      /\ \A i \in DOMAIN Tail(mainQ) :
            /\ i \in Nat \ {0} /\ i + 1 \in DOMAIN mainQ
            /\ Tail(mainQ)[i] = mainQ[i + 1]
  BY <1>1, TailItems
<1>3. e \in Closures /\ Tail(mainQ) \in Seq(Closures)
  BY HeadTyped DEF RunLoad, Closures
<1>4. e.do = "setBest" /\ e.by = s /\ e.doc = mainQ[1].doc
  BY <1>2
<1> HIDE DEF e
<1>5. \A i \in DOMAIN mainQ' :
         \/ /\ i \in Nat \ {0} /\ i + 1 \in DOMAIN mainQ
            /\ mainQ'[i] = mainQ[i + 1]
         \/ i = Len(Tail(mainQ)) + 1 /\ mainQ'[i] = e
  BY <1>1, <1>2, <1>3, AppendItems
<1>6. LoadArrived(s, 1)
  BY <1>1, <1>2 DEF LoadArrived
<1>7. \A i \in DOMAIN mainQ : LoadArrived(s, i) => i = 1
  BY <1>2, <1>6 DEF RecordInv, OneLoad
<1>8. \A t \in Screens, i \in DOMAIN mainQ' : LoadArrived(t, i)' =>
         \/ /\ t # s /\ i \in Nat \ {0} /\ i + 1 \in DOMAIN mainQ
            /\ LoadArrived(t, i + 1)
         \/ t = s /\ i = Len(Tail(mainQ)) + 1
  <2> SUFFICES ASSUME NEW t \in Screens, NEW i \in DOMAIN mainQ',
                      LoadArrived(t, i)'
               PROVE  \/ /\ t # s /\ i \in Nat \ {0} /\ i + 1 \in DOMAIN mainQ
                         /\ LoadArrived(t, i + 1)
                      \/ t = s /\ i = Len(Tail(mainQ)) + 1
    OBVIOUS
  <2>1. CASE i \in Nat \ {0} /\ i + 1 \in DOMAIN mainQ
             /\ mainQ'[i] = mainQ[i + 1]
    <3>1. LoadArrived(t, i + 1)
      BY <2>1 DEF LoadArrived
    <3>2. t # s
      BY <1>7, <2>1, <3>1
    <3> QED BY <2>1, <3>1, <3>2
  <2>2. CASE i = Len(Tail(mainQ)) + 1 /\ mainQ'[i] = e
    BY <1>4, <2>2 DEF LoadArrived
  <2> QED BY <1>5, <2>1, <2>2
<1>9. \A t \in Screens : \A i : LoadAsked(t, i)' = LoadAsked(t, i)
  BY <1>1 DEF LoadAsked
<1>10. \A t \in Screens : NoLoad(t) => NoLoad(t)'
  BY <1>1, <1>2, <1>6, <1>8, <1>9 DEF NoLoad
<1>11. BestIsCurrent' /\ LoadedOnce' /\ Unopened'
  BY <1>1, <1>10 DEF RecordInv, BestIsCurrent, LoadedOnce, Unopened
<1>12. OneLoad'
  <2> SUFFICES ASSUME NEW t \in Screens
               PROVE  /\ \A i, j \in DOMAIN mainQ' :
                           LoadArrived(t, i)' /\ LoadArrived(t, j)' => i = j
                      /\ \A i \in DOMAIN waiting, j \in DOMAIN mainQ' :
                           ~(LoadAsked(t, i) /\ LoadArrived(t, j)')
    BY <1>1, <1>9 DEF RecordInv, OneLoad
  <2>1. CASE t = s
    BY <1>2, <1>6, <1>8, <2>1 DEF RecordInv, OneLoad
  <2>2. CASE t # s
    <3>1. \A i, j \in Nat : i + 1 = j + 1 => i = j
      OBVIOUS
    <3> QED BY <1>8, <2>2, <3>1 DEF RecordInv, OneLoad
  <2> QED BY <2>1, <2>2
<1>13. Unloaded'
  <2> SUFFICES ASSUME NEW t \in Screens, basis[t] = "none",
                      NEW i \in DOMAIN mainQ', mainQ'[i].by = t
               PROVE  /\ mainQ'[i].do # "update"
                      /\ LoadArrived(t, i)' => mainQ'[i].doc = profile
    BY <1>1 DEF RecordInv, Unloaded
  <2>1. CASE i + 1 \in DOMAIN mainQ /\ mainQ'[i] = mainQ[i + 1]
    <3>1. LoadArrived(t, i)' = LoadArrived(t, i + 1)
      BY <2>1 DEF LoadArrived
    <3> QED BY <2>1, <3>1 DEF RecordInv, Unloaded
  <2>2. CASE mainQ'[i] = e
    <3>1. t = s /\ mainQ[1].by = t
      BY <1>1, <1>2, <1>4, <2>2
    <3>2. mainQ[1].doc = profile
      BY <1>2, <1>6, <3>1 DEF RecordInv, Unloaded
    <3> QED BY <1>4, <2>2, <3>2
  <2> QED BY <1>5, <2>1, <2>2
<1> QED BY <1>11, <1>12, <1>13 DEF RecordInv

\* After the head of the main queue ran, what is left was there before.
LEMMA TailOnly ==
    ASSUME TypeOK, mainQ # <<>>, mainQ' = Tail(mainQ), waiting' = waiting
    PROVE  /\ \A i \in DOMAIN mainQ' :
                 /\ i \in Nat \ {0} /\ i + 1 \in DOMAIN mainQ
                 /\ mainQ'[i] = mainQ[i + 1]
           /\ \A t \in Screens, i \in DOMAIN mainQ' :
                 LoadArrived(t, i)' = LoadArrived(t, i + 1)
           /\ \A t \in Screens : \A i : LoadAsked(t, i)' = LoadAsked(t, i)
           /\ \A t \in Screens : NoLoad(t) => NoLoad(t)'
           /\ OneLoad => OneLoad'
<1>1. \A i \in DOMAIN mainQ' : /\ i \in Nat \ {0} /\ i + 1 \in DOMAIN mainQ
                               /\ mainQ'[i] = mainQ[i + 1]
  BY TailItems DEF TypeOK
<1>2. \A t \in Screens, i \in DOMAIN mainQ' :
         LoadArrived(t, i)' = LoadArrived(t, i + 1)
  BY <1>1 DEF LoadArrived
<1>3. \A t \in Screens : \A i : LoadAsked(t, i)' = LoadAsked(t, i)
  BY DEF LoadAsked
<1>4. \A t \in Screens : NoLoad(t) => NoLoad(t)'
  BY <1>1, <1>2, <1>3 DEF NoLoad
<1>5. ASSUME OneLoad PROVE OneLoad'
  <2>1. \A i, j \in Nat : i + 1 = j + 1 => i = j
    OBVIOUS
  <2> QED BY <1>1, <1>2, <1>3, <1>5, <2>1 DEF OneLoad
<1> QED BY <1>1, <1>2, <1>3, <1>4, <1>5

\* The best score is set to the answer: still the stored score, if the screen
\* had none, and the last load of this screen in any case.
LEMMA SetBestKeepsRecord ==
    ASSUME TypeOK, RecordInv, NEW s \in Screens, RunSetBest(s)
    PROVE  RecordInv'
<1>1. /\ mainQ \in Seq(Closures) /\ mainQ # <<>>
      /\ Head(mainQ).do = "setBest" /\ Head(mainQ).by = s
      /\ mainQ' = Tail(mainQ)
      /\ best' = [best EXCEPT ![s] = Head(mainQ).doc]
      /\ basis' = [basis EXCEPT ![s] = IF @ = "none" THEN "loaded" ELSE @]
      /\ UNCHANGED <<screen, timers, board, profile, waiting>>
  BY DEF RunSetBest, Running, TypeOK, viewVars
<1>2. 1 \in DOMAIN mainQ /\ Head(mainQ) = mainQ[1]
  BY <1>1, TailItems
<1>3. LoadArrived(s, 1)
  BY <1>1, <1>2 DEF LoadArrived
<1>4. basis[s] # "loaded" /\ screen[s] # "new"
  BY <1>2, <1>3 DEF RecordInv, LoadedOnce, Unopened, NoLoad
<1>5. basis[s] = "none" => Head(mainQ).doc = profile
  BY <1>1, <1>2, <1>3 DEF RecordInv, Unloaded
<1>6. /\ best'[s] = Head(mainQ).doc
      /\ basis'[s] # "none" /\ (basis'[s] = "loaded" => basis[s] = "none")
      /\ \A t \in Screens \ {s} : best'[t] = best[t] /\ basis'[t] = basis[t]
  BY <1>1, <1>4 DEF TypeOK
<1>7. /\ \A i \in DOMAIN mainQ' : /\ i \in Nat \ {0} /\ i + 1 \in DOMAIN mainQ
                                  /\ mainQ'[i] = mainQ[i + 1]
      /\ \A t \in Screens, i \in DOMAIN mainQ' :
            LoadArrived(t, i)' = LoadArrived(t, i + 1)
      /\ \A t \in Screens : \A i : LoadAsked(t, i)' = LoadAsked(t, i)
      /\ \A t \in Screens : NoLoad(t) => NoLoad(t)'
  BY <1>1, TailOnly
<1>8. OneLoad'
  BY <1>1, TailOnly DEF RecordInv
<1>9. NoLoad(s)'
  <2>1. \A i \in DOMAIN waiting : ~LoadAsked(s, i)
    BY <1>2, <1>3 DEF RecordInv, OneLoad
  <2>2. \A i \in DOMAIN mainQ : LoadArrived(s, i) => i = 1
    BY <1>2, <1>3 DEF RecordInv, OneLoad
  <2>3. \A i \in DOMAIN mainQ' : ~LoadArrived(s, i)'
    BY <1>7, <2>2
  <2> QED BY <1>1, <1>7, <2>1, <2>3 DEF NoLoad
<1>10. BestIsCurrent'
  <2>1. basis'[s] = "loaded" => best'[s] >= profile'
    BY <1>1, <1>5, <1>6 DEF TypeOK
  <2> QED BY <1>1, <1>6, <2>1 DEF RecordInv, BestIsCurrent
<1>11. LoadedOnce'
  BY <1>6, <1>7, <1>9 DEF RecordInv, LoadedOnce
<1>12. Unloaded'
  <2> SUFFICES ASSUME NEW t \in Screens, basis'[t] = "none"
               PROVE  /\ \A i \in DOMAIN waiting :
                           ~(waiting[i].do = "update" /\ waiting[i].by = t)
                      /\ \A i \in DOMAIN mainQ' : mainQ'[i].by = t =>
                           /\ mainQ'[i].do # "update"
                           /\ LoadArrived(t, i)' => mainQ'[i].doc = profile
    BY <1>1 DEF Unloaded
  <2>1. basis[t] = "none"
    BY <1>6
  <2> QED BY <1>7, <2>1 DEF RecordInv, Unloaded
<1>13. Unopened'
  BY <1>1, <1>4, <1>6, <1>7 DEF RecordInv, Unopened
<1> QED BY <1>8, <1>10, <1>11, <1>12, <1>13 DEF RecordInv

\* A write is the writer's best score; every screen whose load has read the
\* document, and might now hold less, counts as overtaken.
LEMMA UpdateKeepsRecord ==
    ASSUME TypeOK, RecordInv, NEW s \in Screens, RunUpdate(s)
    PROVE  RecordInv' /\ basis[s] # "none"
<1>1. /\ mainQ \in Seq(Closures) /\ mainQ # <<>>
      /\ Head(mainQ).do = "update" /\ Head(mainQ).by = s
      /\ mainQ' = Tail(mainQ)
      /\ profile' = best[s]
      /\ basis' = [t \in Screens |->
                     IF t = s \/ LoadUnread(t) \/ basis[t] = "blind"
                     THEN basis[t] ELSE "overtaken"]
      /\ UNCHANGED <<screen, timers, board, best, waiting>>
  BY DEF RunUpdate, Write, Running, TypeOK, viewVars
<1>2. 1 \in DOMAIN mainQ /\ Head(mainQ) = mainQ[1]
  BY <1>1, TailItems
<1>3. basis[s] # "none"
  BY <1>1, <1>2 DEF RecordInv, Unloaded
<1>4. /\ \A i \in DOMAIN mainQ' : /\ i \in Nat \ {0} /\ i + 1 \in DOMAIN mainQ
                                  /\ mainQ'[i] = mainQ[i + 1]
      /\ \A t \in Screens, i \in DOMAIN mainQ' :
            LoadArrived(t, i)' = LoadArrived(t, i + 1)
      /\ \A t \in Screens : NoLoad(t) => NoLoad(t)'
  BY <1>1, TailOnly
<1>5. OneLoad'
  BY <1>1, TailOnly DEF RecordInv
<1>6. ASSUME NEW t \in Screens, basis'[t] \in {"none", "loaded"}
      PROVE  basis'[t] = basis[t] /\ (t = s \/ LoadUnread(t))
  BY <1>1, <1>6
<1>7. ASSUME NEW t \in Screens, basis[t] = "loaded", LoadUnread(t)
      PROVE  FALSE
  BY <1>7 DEF RecordInv, LoadedOnce, Unopened, NoLoad, LoadUnread, LoadAsked
<1>8. BestIsCurrent'
  <2> SUFFICES ASSUME NEW t \in Screens, basis'[t] = "loaded"
               PROVE  best[t] >= best[s]
    BY <1>1 DEF BestIsCurrent
  <2>1. t = s
    BY <1>6, <1>7
  <2> QED BY <2>1 DEF TypeOK
<1>9. LoadedOnce'
  BY <1>4, <1>6 DEF RecordInv, LoadedOnce
<1>10. Unloaded'
  <2> SUFFICES ASSUME NEW t \in Screens, basis'[t] = "none"
               PROVE  /\ \A i \in DOMAIN waiting :
                           ~(waiting[i].do = "update" /\ waiting[i].by = t)
                      /\ \A i \in DOMAIN mainQ' : mainQ'[i].by = t =>
                           /\ mainQ'[i].do # "update"
                           /\ LoadArrived(t, i)' => mainQ'[i].doc = profile'
    BY <1>1 DEF Unloaded
  <2>1. basis[t] = "none" /\ LoadUnread(t)
    BY <1>3, <1>6
  <2>2. \A i \in DOMAIN mainQ : ~LoadArrived(t, i)
    <3>1. CASE screen[t] = "new"
      BY <3>1 DEF RecordInv, Unopened, NoLoad
    <3>2. CASE \E i \in DOMAIN waiting : LoadAsked(t, i)
      BY <3>2 DEF RecordInv, OneLoad
    <3> QED BY <2>1, <3>1, <3>2 DEF LoadUnread, LoadAsked
  <2> QED BY <1>4, <2>1, <2>2 DEF RecordInv, Unloaded
<1>11. Unopened'
  <2> SUFFICES ASSUME NEW t \in Screens, screen[t] = "new"
               PROVE  basis'[t] = "none" /\ NoLoad(t)'
    BY <1>1 DEF RecordInv, Unopened
  <2>1. basis[t] = "none" /\ NoLoad(t) /\ LoadUnread(t)
    BY DEF RecordInv, Unopened, LoadUnread
  <2> QED BY <1>1, <1>4, <2>1
<1> QED BY <1>3, <1>5, <1>8, <1>9, <1>10, <1>11 DEF RecordInv

\* Every other step: of a running game, of the download, of a failure.
LEMMA RecordStep == TypeOK /\ RecordInv /\ [Next]_vars => RecordInv'
<1> SUFFICES ASSUME TypeOK, RecordInv, [Next]_vars
             PROVE  RecordInv'
  OBVIOUS
<1>1. ASSUME NEW s \in Screens,
             \/ StartLearning(s) \/ BackButtonDidTap(s)
             \/ \E typed \in Words \cup {Blank} : GoToNextVerb(s, typed)
      PROVE  RecordInv'
  <2>1. /\ screen[s] = "open"
        /\ UNCHANGED <<best, profile, basis, waiting, mainQ>>
    BY <1>1 DEF StartLearning, BackButtonDidTap, GoToNextVerb, Answered
  <2>2. \A t \in Screens \ {s} : /\ screen'[t] = screen[t]
                                 /\ timers'[t] = timers[t]
                                 /\ board'[t] = board[t]
    BY <1>1 DEF StartLearning, BackButtonDidTap, GoToNextVerb, Answered, TypeOK
  <2>3. screen'[s] # "new"
    BY <1>1 DEF StartLearning, BackButtonDidTap, GoToNextVerb, Answered, TypeOK
  <2> QED BY <2>1, <2>2, <2>3, ScreenIndifferent
<1>2. ASSUME NEW s \in Screens, StorageReply(s)
      PROVE  RecordInv'
  <2>1. /\ UNCHANGED <<screen, timers, board, best, profile, basis, waiting>>
        /\ mainQ' = Append(mainQ, [do |-> "decode", by |-> s, doc |-> 0])
    BY <1>2 DEF StorageReply, viewVars
  <2>2. [do |-> "decode", by |-> s, doc |-> 0] \in Closures
        /\ mainQ \in Seq(Closures)
    BY DEF Closures, TypeOK
  <2>3. Len(mainQ) \in Nat /\ DOMAIN mainQ = 1..Len(mainQ)
    BY <2>2, LenProperties
  <2>4. \A i \in DOMAIN mainQ' :
           i \in Nat /\ (\/ mainQ'[i].do = "decode"
                         \/ i \in DOMAIN mainQ /\ mainQ'[i] = mainQ[i])
    BY <2>1, <2>2, <2>3, AppendItems
  <2>5. \A i \in DOMAIN mainQ' : i + 0 = i
    BY <2>4
  <2> QED BY <2>1, <2>4, <2>5, QueueIndifferent
<1>3. ASSUME NEW s \in Screens, RunDecode(s) \/ RunSetVerbs(s)
      PROVE  RecordInv'
  <2> DEFINE e == [do |-> "setVerbs", by |-> s, doc |-> 0]
  <2>1. /\ UNCHANGED <<screen, timers, board, best, profile, basis, waiting>>
        /\ mainQ # <<>> /\ mainQ \in Seq(Closures)
        /\ mainQ' = Tail(mainQ) \/ mainQ' = Append(Tail(mainQ), e)
    BY <1>3 DEF RunDecode, RunSetVerbs, Running, viewVars, TypeOK
  <2>2. /\ Tail(mainQ) \in Seq(Closures)
        /\ \A i \in DOMAIN Tail(mainQ) :
              /\ i \in Nat \ {0} /\ i + 1 \in DOMAIN mainQ
              /\ Tail(mainQ)[i] = mainQ[i + 1]
    BY <2>1, TailItems, HeadTailProperties
  <2>3. e \in Closures /\ e.do = "setVerbs"
    BY DEF Closures
  <2> HIDE DEF e
  <2>4. Len(Tail(mainQ)) \in Nat
    BY <2>2, LenProperties
  <2>5. \A i \in DOMAIN mainQ' :
           i \in Nat /\ (\/ mainQ'[i].do \in {"decode", "setVerbs"}
                         \/ i + 1 \in DOMAIN mainQ /\ mainQ'[i] = mainQ[i + 1])
    <3>1. CASE mainQ' = Tail(mainQ)
      BY <2>2, <3>1
    <3>2. CASE mainQ' = Append(Tail(mainQ), e)
      <4>1. \A i \in DOMAIN mainQ' :
               \/ i \in DOMAIN Tail(mainQ) /\ mainQ'[i] = Tail(mainQ)[i]
               \/ i = Len(Tail(mainQ)) + 1 /\ mainQ'[i] = e
        BY <2>2, <2>3, <3>2, AppendItems
      <4> QED BY <2>2, <2>3, <2>4, <4>1
    <3> QED BY <2>1, <3>1, <3>2
  <2> QED BY <2>1, <2>5, QueueIndifferent
<1>4. CASE QueryFailed \/ (\E s \in Screens : StorageFailed(s)) \/ UNCHANGED vars
  <2>1. /\ UNCHANGED <<screen, timers, board, best, profile, basis, mainQ>>
        /\ waiting' \in {waiting, <<>>}
    BY <1>4 DEF QueryFailed, StorageFailed, vars, viewVars
  <2>2. \A i \in DOMAIN mainQ : i \in Nat /\ i + 0 = i
    BY LenProperties DEF TypeOK
  <2> QED BY <2>1, <2>2, QueueIndifferent
<1> QED BY <1>1, <1>2, <1>3, <1>4, OpenKeepsRecord, TimerKeepsRecord,
           AnswerKeepsRecord, LoadKeepsRecord, SetBestKeepsRecord,
           UpdateKeepsRecord DEF Next, User, RunMain

\* A best score is loaded once, before any record of its screen or not at all;
\* what is on its way to a screen without one is the stored score.
THEOREM RecordInvariant == Spec => []RecordInv
<1>1. Init => RecordInv
  <2> SUFFICES ASSUME Init PROVE RecordInv
    OBVIOUS
  <2>1. DOMAIN waiting = {} /\ DOMAIN mainQ = {}
    BY DEF Init
  <2> QED BY <2>1 DEF Init, RecordInv, BestIsCurrent, LoadedOnce, OneLoad,
          Unloaded, Unopened, NoLoad
<1> QED BY <1>1, TypeCorrect, RecordStep, PTL DEF Spec

\* The comparison score > presenter.bestScore is made against the stored score
\* or more, on every screen that loaded it and was not overtaken.
THEOREM BestCurrent == Spec => []BestIsCurrent
<1>1. RecordInv => BestIsCurrent
  BY DEF RecordInv
<1> QED BY <1>1, RecordInvariant, PTL

\* updateBestScore lowers the stored score only for a screen that is blind or
\* was overtaken: for one screen that waits for its load, never.
THEOREM RecordsKept == Spec => RecordsStand
<1> DEFINE Kept == profile' < profile =>
                     \E s \in Screens : /\ basis[s] \in {"blind", "overtaken"}
                                        /\ profile' = best[s]
<1>1. TypeOK /\ RecordInv /\ [Next]_vars => [Kept]_vars
  <2> SUFFICES ASSUME TypeOK, RecordInv, Next, profile' < profile
               PROVE  \E s \in Screens : /\ basis[s] \in {"blind", "overtaken"}
                                         /\ profile' = best[s]
    OBVIOUS
  <2>1. profile' # profile
    BY DEF TypeOK
  <2>2. PICK s \in Screens : RunUpdate(s)
    BY <2>1 DEF Next, User, RunMain, Open, StartLearning, GoToNextVerb, Answered,
       BackButtonDidTap, ActionForTimer, TimerFires, StorageReply,
       StorageFailed, QueryAnswered, QueryFailed, RunLoad, RunSetBest,
       RunDecode, RunSetVerbs
  <2>3. profile' = best[s]
    BY <2>2 DEF RunUpdate, Write
  <2>4. basis[s] # "none"
    BY <2>2, UpdateKeepsRecord
  <2>5. basis[s] # "loaded"
    <3>1. best[s] \in Nat /\ profile \in Nat
      BY DEF TypeOK
    <3> QED BY <2>3, <3>1 DEF RecordInv, BestIsCurrent
  <2>6. basis[s] \in {"none", "loaded", "blind", "overtaken"}
    BY DEF TypeOK
  <2> QED BY <2>3, <2>4, <2>5, <2>6
<1> QED BY <1>1, TypeCorrect, RecordInvariant, PTL DEF Spec, RecordsStand

\* If no form is empty, a right answer with the dictionary at hand is followed by
\* a question that asks for a word: Blank scores before the dictionary only.
THEOREM BlankScoresOnce ==
    ASSUME \A v \in Dictionary, tense \in 1..3 : Cut(v[tense]) # Blank
    PROVE  Spec => OneBlankPointAtMost
<1> DEFINE AsksAWord ==
       \A s \in Screens :
         verbs[s] # {} /\ score'[s] > score[s] => expected'[s] # Blank
<1>1. TypeOK /\ [Next]_vars => [AsksAWord]_vars
  <2> SUFFICES ASSUME TypeOK, Next, NEW s \in Screens,
                      verbs[s] # {}, score'[s] > score[s]
               PROVE  expected'[s] # Blank
    OBVIOUS
  <2>1. score[s] \in Nat /\ ~(score[s] > score[s]) /\ ~(0 > score[s])
    BY DEF TypeOK
  <2>2. PICK typed : GoToNextVerb(s, typed)
    <3>1. \A t \in Screens : \A typed : GoToNextVerb(t, typed) => t = s
      BY <2>1 DEF GoToNextVerb, Answered, TypeOK
    <3>2. \A t \in Screens : ~StartLearning(t)
      BY <2>1 DEF StartLearning, TypeOK
    <3>3. score' # score
      BY <2>1
    <3> QED BY <3>1, <3>2, <3>3 DEF Next, User, RunMain, Open, BackButtonDidTap,
            ActionForTimer, TimerFires, StorageReply, StorageFailed,
            QueryAnswered, QueryFailed, RunLoad, RunSetBest, RunUpdate, Write,
            RunDecode, RunSetVerbs, viewVars
  <2>3. expected'[s] \in Questions(verbs[s])
    BY <2>2 DEF GoToNextVerb, LogicOfGame, TypeOK
  <2>4. verbs[s] \subseteq Dictionary
    BY DEF TypeOK
  <2> QED BY <2>3, <2>4 DEF Questions
<1> QED BY <1>1, TypeCorrect, PTL DEF Spec, OneBlankPointAtMost

-----------------------------------------------------------------------------
(* One screen keeps the promise of HighScore, whatever the lengths of its   *)
(* games and however many failures there are.                              *)

\* No other screen overtakes the only one.
Alone == \A s \in Screens : basis[s] # "overtaken"

\* The only screen is alone in its writes.
LEMMA AloneStep ==
    ASSUME NEW o, Screens = {o}, TypeOK, Alone, [Next]_vars
    PROVE  Alone'
<1>1. ASSUME NEW s \in Screens, RunUpdate(s)
      PROVE  Alone'
  BY <1>1 DEF RunUpdate, Write, Alone
<1>2. ASSUME NEW s \in Screens, ActionForTimer(s)
      PROVE  Alone'
  BY <1>2 DEF ActionForTimer, TimerFires, EndGame, Alone, TypeOK
<1>3. ASSUME NEW s \in Screens, RunSetBest(s)
      PROVE  Alone'
  BY <1>3 DEF RunSetBest, Alone, TypeOK
<1>4. ASSUME UNCHANGED basis
      PROVE  Alone'
  BY <1>4 DEF Alone
<1> QED BY <1>1, <1>2, <1>3, <1>4 DEF Next, User, RunMain, Open, StartLearning,
           GoToNextVerb, Answered, BackButtonDidTap, StorageReply, StorageFailed,
           QueryAnswered, QueryFailed, RunLoad, RunDecode, RunSetVerbs, vars

\* A game that ends with a record claims it, or forgets the stored score.
LEMMA TimerClaims ==
    ASSUME NEW o, Screens = {o}, o = Only, TypeOK, RecordInv, Alone,
           ActionForTimer(o)
    PROVE  [Promise!Next]_(Promise!vars)
<1>1. /\ best[o] \in Nat /\ score[o] \in Nat /\ profile \in Nat
      /\ basis[o] \in {"none", "loaded", "blind"}
      /\ profile' = profile
  BY DEF TypeOK, Alone, ActionForTimer, TimerFires
<1>2. CASE UNCHANGED <<best, basis>>
  BY <1>1, <1>2 DEF ToldBest, Promise!vars
<1>3. CASE /\ score[o] > best[o] /\ best'[o] = score[o]
           /\ basis'[o] = IF basis[o] = "none" THEN "blind" ELSE basis[o]
  <2>1. CASE basis[o] = "none"
    BY <1>1, <1>3, <2>1 DEF ToldBest, Promise!Next, Promise!Forget
  <2>2. CASE basis[o] = "loaded"
    BY <1>1, <1>3, <2>2 DEF ToldBest, Promise!Next, Promise!Claim
  <2>3. CASE basis[o] = "blind"
    BY <1>1, <1>3, <2>3 DEF ToldBest, Promise!Next, Promise!Anything
  <2> QED BY <1>1, <2>1, <2>2, <2>3
<1> QED BY <1>2, <1>3 DEF ActionForTimer, TimerFires, EndGame, TypeOK

\* The loaded score is what was stored: the player is told what is so.
LEMMA LoadTells ==
    ASSUME NEW o, Screens = {o}, o = Only, TypeOK, RecordInv, Alone, RunSetBest(o)
    PROVE  [Promise!Next]_(Promise!vars)
<1>1. /\ mainQ \in Seq(Closures) /\ mainQ # <<>> /\ 1 \in DOMAIN mainQ
      /\ Head(mainQ) = mainQ[1] /\ Head(mainQ) \in Closures
      /\ Head(mainQ).doc \in Nat
  BY TailItems, HeadTyped DEF RunSetBest, Running, TypeOK, Closures
<1>2. /\ LoadArrived(o, 1) /\ mainQ[1].by = o
      /\ profile' = profile /\ profile \in Nat
      /\ best'[o] = mainQ[1].doc
      /\ basis'[o] = IF basis[o] = "none" THEN "loaded" ELSE basis[o]
  BY <1>1 DEF RunSetBest, Running, LoadArrived, TypeOK
<1>3. basis[o] \in {"none", "blind"}
  <2>1. basis[o] # "loaded"
    BY <1>1, <1>2 DEF RecordInv, LoadedOnce, NoLoad
  <2> QED BY <2>1 DEF TypeOK, Alone
<1>4. CASE basis[o] = "none"
  <2>1. mainQ[1].doc = profile
    BY <1>1, <1>2, <1>4 DEF RecordInv, Unloaded
  <2> QED BY <1>2, <1>4, <2>1 DEF ToldBest, Promise!vars
<1>5. CASE basis[o] = "blind"
  BY <1>1, <1>2, <1>5 DEF ToldBest, Promise!Next, Promise!Anything
<1> QED BY <1>3, <1>4, <1>5

\* What is written is what the player was told, from a loaded screen.
LEMMA UpdateSaves ==
    ASSUME NEW o, Screens = {o}, o = Only, TypeOK, RecordInv, Alone, RunUpdate(o)
    PROVE  [Promise!Next]_(Promise!vars)
<1>1. /\ profile' = best[o] /\ best' = best /\ basis'[o] = basis[o]
      /\ best[o] \in Nat
  BY DEF RunUpdate, Write, TypeOK
<1>2. basis[o] \in {"loaded", "blind"}
  BY UpdateKeepsRecord DEF TypeOK, Alone
<1>3. CASE basis[o] = "loaded"
  BY <1>1, <1>3 DEF ToldBest, Promise!Next, Promise!Save
<1>4. CASE basis[o] = "blind"
  BY <1>1, <1>4 DEF ToldBest, Promise!Next, Promise!Anything
<1> QED BY <1>2, <1>3, <1>4

\* Every step of the screen is a step of HighScore or none.
LEMMA PromiseStep ==
    ASSUME NEW o, Screens = {o}, TypeOK, RecordInv, Alone, [Next]_vars
    PROVE  [Promise!Next]_(Promise!vars)
<1>1. o = Only /\ o \in Screens
  BY DEF Only
<1>2. CASE UNCHANGED <<profile, best, basis>>
  BY <1>2 DEF ToldBest, Promise!vars
<1>3. \/ ActionForTimer(o) \/ RunSetBest(o) \/ RunUpdate(o)
      \/ UNCHANGED <<profile, best, basis>>
  BY DEF Next, User, RunMain, Open, StartLearning, GoToNextVerb, Answered,
     BackButtonDidTap, StorageReply, StorageFailed, QueryAnswered, QueryFailed,
     RunLoad, RunDecode, RunSetVerbs, vars
<1> QED BY <1>1, <1>2, <1>3, TimerClaims, LoadTells, UpdateSaves

\* On one screen the stored score takes claimed scores only, one after another,
\* until a record is set before the best score was loaded.
THEOREM PromiseKept ==
    ASSUME NEW o, Screens = {o}
    PROVE  Spec => KeepsPromise
<1>1. Init => Alone
  BY DEF Init, Alone
<1>2. TypeOK /\ Alone /\ [Next]_vars => Alone'
  BY AloneStep
<1>3. Init => Promise!Init
  BY ScoreAssumption DEF Init, Only, ToldBest, Promise!Init
<1>4. TypeOK /\ RecordInv /\ Alone /\ [Next]_vars => [Promise!Next]_(Promise!vars)
  BY PromiseStep
<1> QED BY <1>1, <1>2, <1>3, <1>4, TypeCorrect, RecordInvariant, PTL
        DEF Spec, KeepsPromise, Promise!Spec
=============================================================================
