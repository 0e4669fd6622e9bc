------------------------------ MODULE Training ------------------------------
(***************************************************************************)
(* The training game: LearningView (the screen, its one second timer, the  *)
(* score) and LearningPresenter (the dictionary and the best score, which  *)
(* live in Firebase).  All of it runs on the main thread; what interleaves *)
(* are the user's taps, the timer, the closures of the main dispatch queue *)
(* and the answers of Firestore and Storage.                               *)
(*                                                                         *)
(* A screen is dismissed while its timer goes on: the timer retains the    *)
(* view, so an abandoned game is played to its end beside the next screen. *)
(***************************************************************************)
EXTENDS Integers, Sequences

CONSTANTS
    Screens,        \* the training screens opened in the life of the process
    Words,          \* the words a form is made of
    Dictionary,     \* easy_verbs.json: triples of forms, a form being the
                    \* sequence of its words (<<>> for nil and for "")
    Blank,          \* the empty string
    StartTime,      \* seconds a game starts with
    Bonus,          \* seconds a right answer adds
    InitialScores,  \* bestScore fields a profile may start with
    Accounts,       \* the account situations to consider
    Served,         \* bound: the screens whose download comes to an end
    MaxScore,       \* bound: no more right answers than this in a game
    MaxFailures     \* bound: requests that fail

ASSUME TimeAssumption == StartTime \in Nat \ {0} /\ Bonus \in Nat
ASSUME DictionaryAssumption == Dictionary \subseteq [1..3 -> Seq(Words)]
ASSUME ScoreAssumption == InitialScores \subseteq Nat /\ MaxScore \in Nat
ASSUME ServedAssumption == Served \subseteq Screens
ASSUME FailureAssumption == MaxFailures \in Nat
ASSUME AccountAssumption == Accounts \subseteq {"full", "bare", "signedOut"}

VARIABLES
    \* The view
    screen,      \* new, open or left
    board,       \* the controls that are visible: those to start, or the game's
    timers,      \* live scheduled timers whose target is the view
    time, score, \* seconds left and points of the current game
    scoreLabel,  \* what scoreLabel shows
    expected,    \* currentEmptyVerb: the answer to the question on display
    \* The presenter
    verbs,       \* allVerbs, {} until the download arrives
    best,        \* bestScore
    \* Firebase and the main queue
    account,     \* full: signed in with a users document; bare: without one
    profile,     \* bestScore in that document, as this device sees it
    waiting,     \* queries for the document, not yet answered
    downloads,   \* screens whose getData is in flight
    mainQ,       \* closures on the main dispatch queue
    failures,    \* requests that failed so far
    \* Observation only
    basis        \* what a screen's best score rests on: none (not loaded),
                 \* loaded, blind (a record was set before the load) or
                 \* overtaken (another screen wrote after the load was read)

viewVars  == <<screen, board, timers, time, score, scoreLabel, expected>>
vars      == <<viewVars, verbs, best, account, profile, waiting, downloads,
               mainQ, failures, basis>>

Queries  == [do : {"load", "update"}, by : Screens]
Closures == [do : {"load", "update", "setBest", "decode", "setVerbs"},
             by : Screens, doc : Nat]

-----------------------------------------------------------------------------
\* cut: the first word of a form, "" when there is none.
Cut(form) == IF form = <<>> THEN Blank ELSE Head(form)

\* The answers logicOfGame may come to expect of a dictionary.
Questions(vs) ==
    IF vs = {} THEN {Blank} ELSE {Cut(v[tense]) : v \in vs, tense \in 1..3}

LogicOfGame(s) ==
    \E q \in Questions(verbs[s]) : expected' = [expected EXCEPT ![s] = q]

OpenScreens == {s \in Screens : screen[s] = "open"}

\* Closures that hold the presenter strongly: all but the download's.
Held(s) == \/ \E i \in DOMAIN waiting : waiting[i].by = s
           \/ \E i \in DOMAIN mainQ : mainQ[i].by = s /\ mainQ[i].do # "decode"

\* The presenter behind [weak self]: kept by the view, itself kept by UIKit
\* or by a running timer, and by its own closures.
PresenterAlive(s) == screen[s] = "open" \/ timers[s] > 0 \/ Held(s)

\* A load of s has not read the document yet.
LoadUnread(s) == \/ screen[s] = "new"
                 \/ \E i \in DOMAIN waiting :
                       waiting[i].do = "load" /\ waiting[i].by = s

-----------------------------------------------------------------------------
Init ==
    /\ screen = [s \in Screens |-> "new"]
    /\ board = [s \in Screens |-> "start"]
    /\ timers = [s \in Screens |-> 0]
    /\ time = [s \in Screens |-> StartTime]
    /\ score = [s \in Screens |-> 0]
    /\ scoreLabel = [s \in Screens |-> 0]
    /\ expected = [s \in Screens |-> Blank]
    /\ verbs = [s \in Screens |-> {}]
    /\ best = [s \in Screens |-> 0]
    /\ account \in Accounts
    /\ profile \in InitialScores
    /\ waiting = <<>>
    /\ downloads = {}
    /\ mainQ = <<>>
    /\ failures = 0
    /\ basis = [s \in Screens |-> "none"]

\* A query for the users document; without a user there is nothing to ask.
Ask(do, s) ==
    waiting' = IF account = "signedOut" THEN waiting
               ELSE Append(waiting, [do |-> do, by |-> s])

\* The menu presents a training screen; viewDidLoad asks for the best score
\* and downloads the dictionary.
Open(s) ==
    /\ OpenScreens = {}
    /\ screen[s] = "new"
    /\ screen' = [screen EXCEPT ![s] = "open"]
    /\ Ask("load", s)
    /\ downloads' = downloads \cup {s}
    /\ UNCHANGED <<board, timers, time, score, scoreLabel, expected, verbs,
                   best, account, profile, mainQ, failures, basis>>

\* Variant with a bug: START stays visible during the game.
StartLearning_StaysVisible(s) ==
    /\ screen[s] = "open"
    /\ board[s] = "start"
    /\ time' = [time EXCEPT ![s] = StartTime]
    /\ score' = [score EXCEPT ![s] = 0]
    /\ timers' = [timers EXCEPT ![s] = @ + 1]
    /\ LogicOfGame(s)
    /\ UNCHANGED <<screen, board, scoreLabel, verbs, best, account, profile,
                   waiting, downloads, mainQ, failures, basis>>

\* Variant with a bug: the time is not set back.
StartLearning_KeepsTime(s) ==
    /\ screen[s] = "open"
    /\ board[s] = "start"
    /\ score' = [score EXCEPT ![s] = 0]
    /\ timers' = [timers EXCEPT ![s] = @ + 1]
    /\ board' = [board EXCEPT ![s] = "game"]
    /\ LogicOfGame(s)
    /\ UNCHANGED <<screen, time, scoreLabel, verbs, best, account, profile,
                   waiting, downloads, mainQ, failures, basis>>

\* START is visible.  The score label keeps what it showed.
StartLearning(s) ==
    /\ screen[s] = "open"
    /\ board[s] = "start"
    /\ time' = [time EXCEPT ![s] = StartTime]
    /\ score' = [score EXCEPT ![s] = 0]
    /\ timers' = [timers EXCEPT ![s] = @ + 1]
    /\ board' = [board EXCEPT ![s] = "game"]
    /\ LogicOfGame(s)
    /\ UNCHANGED <<screen, scoreLabel, verbs, best, account, profile, waiting,
                   downloads, mainQ, failures, basis>>

\* What NEXT does to the game, given the new question and the new label.
Answered(s, label) ==
    /\ screen[s] = "open"
    /\ board[s] = "game"
    /\ score[s] < MaxScore
    /\ time' = [time EXCEPT ![s] = @ + Bonus]
    /\ score' = [score EXCEPT ![s] = @ + 1]
    /\ scoreLabel' = [scoreLabel EXCEPT ![s] = label]
    /\ UNCHANGED <<screen, board, timers, verbs, best, account, profile,
                   waiting, downloads, mainQ, failures, basis>>

\* Variant with a bug: no new question.
GoToNextVerb_SameVerb(s, typed) ==
    typed = expected[s] /\ expected' = expected /\ Answered(s, score[s] + 1)

\* NEXT with the right word in the field; with any other nothing changes.
GoToNextVerb(s, typed) ==
    typed = expected[s] /\ LogicOfGame(s) /\ Answered(s, score[s] + 1)

\* Variants with a bug: any score becomes the best; the record is not sent.
EndGame_AnyScore(s) ==
    /\ best' = [best EXCEPT ![s] = score[s]]
    /\ Ask("update", s)
    /\ basis' = [basis EXCEPT ![s] = IF @ = "none" THEN "blind" ELSE @]

EndGame_NotSent(s) ==
    /\ best' = [best EXCEPT ![s] = IF score[s] > @ THEN score[s] ELSE @]
    /\ UNCHANGED <<waiting, basis>>

\* scoreServerUpdate, if the game that ends is a record.
EndGame(s) ==
    IF score[s] > best[s]
    THEN /\ best' = [best EXCEPT ![s] = score[s]]
         /\ Ask("update", s)
         /\ basis' = [basis EXCEPT ![s] = IF @ = "none" THEN "blind" ELSE @]
    ELSE UNCHANGED <<best, waiting, basis>>

\* What a firing timer does; the game is over at zero exactly.
TimerFires(s) ==
    /\ time' = [time EXCEPT ![s] = @ - 1]
    /\ IF time[s] = 1
       THEN /\ timers' = [timers EXCEPT ![s] = @ - 1]
            /\ board' = [board EXCEPT ![s] = "start"]
            /\ EndGame(s)
       ELSE UNCHANGED <<timers, board, best, waiting, basis>>
    /\ UNCHANGED <<screen, score, scoreLabel, expected, verbs, account,
                   profile, downloads, mainQ, failures>>

\* Variants with a bug: a clock that nobody started; a clock that stands still
\* behind a dismissed screen.
ActionForTimer_Unstarted(s) == screen[s] = "open" /\ TimerFires(s)
ActionForTimer_Suspended(s) ==
    screen[s] = "open" /\ timers[s] > 0 /\ TimerFires(s)

\* actionForTimer, called by a live timer whether or not the view is shown.
ActionForTimer(s) == timers[s] > 0 /\ TimerFires(s)

\* The back arrow, visible during a game too.  The timer is not stopped.
BackButtonDidTap(s) ==
    /\ screen[s] = "open"
    /\ screen' = [screen EXCEPT ![s] = "left"]
    /\ UNCHANGED <<board, timers, time, score, scoreLabel, expected, verbs,
                   best, account, profile, waiting, downloads, mainQ,
                   failures, basis>>

-----------------------------------------------------------------------------
\* The closures that hand the waiting callbacks one snapshot.
Answers == IF account # "full" THEN <<>>
           ELSE [i \in 1..Len(waiting) |->
                   [do |-> waiting[i].do, by |-> waiting[i].by,
                    doc |-> profile]]

\* Firestore answers every listener of the query with one snapshot, in the
\* order they came; a bare account has no document to loop over.
QueryAnswered ==
    /\ waiting # <<>>
    /\ waiting' = <<>>
    /\ mainQ' = mainQ \o Answers
    /\ UNCHANGED <<viewVars, verbs, best, account, profile, downloads,
                   failures, basis>>

\* The query fails, or is answered offline from an empty cache.
QueryFailed ==
    /\ waiting # <<>>
    /\ failures < MaxFailures
    /\ waiting' = <<>>
    /\ failures' = failures + 1
    /\ UNCHANGED <<viewVars, verbs, best, account, profile, downloads, mainQ,
                   basis>>

StorageReply(s) ==
    /\ s \in downloads \cap Served
    /\ downloads' = downloads \ {s}
    /\ mainQ' = Append(mainQ, [do |-> "decode", by |-> s, doc |-> 0])
    /\ UNCHANGED <<viewVars, verbs, best, account, profile, waiting,
                   failures, basis>>

\* The download fails or does not decode: either is only printed.
StorageFailed(s) ==
    /\ s \in downloads \cap Served
    /\ failures < MaxFailures
    /\ downloads' = downloads \ {s}
    /\ failures' = failures + 1
    /\ UNCHANGED <<viewVars, verbs, best, account, profile, waiting, mainQ,
                   basis>>

-----------------------------------------------------------------------------
\* The closure at the head of the main queue, if it is of this kind.
Running(do, s) == mainQ # <<>> /\ Head(mainQ).do = do /\ Head(mainQ).by = s

\* bestScoreFromFirebase's answer, which only schedules the next closure.
RunLoad(s) ==
    /\ Running("load", s)
    /\ mainQ' = Append(Tail(mainQ), [do |-> "setBest", by |-> s,
                                     doc |-> Head(mainQ).doc])
    /\ UNCHANGED <<viewVars, verbs, best, account, profile, waiting,
                   downloads, failures, basis>>

\* The best score becomes the document's, whatever was won meanwhile.
RunSetBest(s) ==
    /\ Running("setBest", s)
    /\ best' = [best EXCEPT ![s] = Head(mainQ).doc]
    /\ basis' = [basis EXCEPT ![s] = IF @ = "none" THEN "loaded" ELSE @]
    /\ mainQ' = Tail(mainQ)
    /\ UNCHANGED <<viewVars, verbs, account, profile, waiting, downloads,
                   failures>>

\* updateData with a score, and what it does to the basis of other screens.
Write(s, n) ==
    /\ profile' = n
    /\ basis' = [t \in Screens |-> IF t = s \/ LoadUnread(t) \/ basis[t] = "blind"
                                   THEN basis[t] ELSE "overtaken"]
    /\ mainQ' = Tail(mainQ)
    /\ UNCHANGED <<viewVars, verbs, best, account, waiting, downloads,
                   failures>>

\* Variant with a bug: the score on the view at this moment is written.
RunUpdate_LiveScore(s) == Running("update", s) /\ Write(s, score[s])

\* updateBestScore's answer: the best score of this moment is written.
RunUpdate(s) == Running("update", s) /\ Write(s, best[s])

\* The download's callback: [weak self], then one more hop.
RunDecode(s) ==
    /\ Running("decode", s)
    /\ mainQ' = IF PresenterAlive(s)
                THEN Append(Tail(mainQ), [do |-> "setVerbs", by |-> s, doc |-> 0])
                ELSE Tail(mainQ)
    /\ UNCHANGED <<viewVars, verbs, best, account, profile, waiting,
                   downloads, failures, basis>>

RunSetVerbs(s) ==
    /\ Running("setVerbs", s)
    /\ verbs' = [verbs EXCEPT ![s] = Dictionary]
    /\ mainQ' = Tail(mainQ)
    /\ UNCHANGED <<viewVars, best, account, profile, waiting, downloads,
                   failures, basis>>

RunMain == \E s \in Screens : RunLoad(s) \/ RunSetBest(s) \/ RunUpdate(s)
                                \/ RunDecode(s) \/ RunSetVerbs(s)

-----------------------------------------------------------------------------
User(s) == \/ Open(s) \/ StartLearning(s) \/ BackButtonDidTap(s)
           \/ \E typed \in Words \cup {Blank} : GoToNextVerb(s, typed)

Next == \/ \E s \in Screens : User(s) \/ ActionForTimer(s)
        \/ \E s \in Screens : StorageReply(s) \/ StorageFailed(s)
        \/ QueryAnswered \/ QueryFailed
        \/ RunMain

\* Timers fire, the main queue drains, and every request comes to an end: a
\* query is answered from the cache once the client counts as Offline, after
\* the first failed stream or ten seconds.  The user owes nothing.
Fairness == /\ \A s \in Screens : WF_vars(ActionForTimer(s))
            /\ \A s \in Screens : WF_vars(StorageReply(s) \/ StorageFailed(s))
            /\ WF_vars(QueryAnswered \/ QueryFailed)
            /\ WF_vars(RunMain)

Spec     == Init /\ [][Next]_vars
FairSpec == Spec /\ Fairness

-----------------------------------------------------------------------------
\* Every variable stays in its type; scores and times are never negative.
TypeOK ==
    /\ screen \in [Screens -> {"new", "open", "left"}]
    /\ board \in [Screens -> {"start", "game"}]
    /\ timers \in [Screens -> Nat]
    /\ time \in [Screens -> Nat]
    /\ score \in [Screens -> Nat]
    /\ scoreLabel \in [Screens -> Nat]
    /\ expected \in [Screens -> Words \cup {Blank}]
    /\ verbs \in [Screens -> SUBSET Dictionary]
    /\ best \in [Screens -> Nat]
    /\ account \in Accounts
    /\ profile \in Nat
    /\ waiting \in Seq(Queries)
    /\ downloads \in SUBSET Screens
    /\ mainQ \in Seq(Closures)
    /\ failures \in 0..MaxFailures
    /\ basis \in [Screens -> {"none", "loaded", "blind", "overtaken"}]

\* A game on the board has one live timer, the start board none: START cannot
\* be tapped into a second clock, and the timer that is invalidated is the one
\* that runs.
OneClock == \A s \in Screens : timers[s] = IF board[s] = "game" THEN 1 ELSE 0

\* actionForTimer ends the game at time == 0 exactly: no clock is ever started
\* from, or counts to, a time that would pass zero without ending the game.
NeverMissesZero == \A s \in Screens : timers[s] > 0 => time[s] >= 1

\* The seconds of a game are those it started with and those its right answers
\* earned; none are left over from the game before.
TimeIsEarned ==
    \A s \in Screens :
        board[s] = "game" => time[s] <= StartTime + Bonus * score[s]

\* From the first point of a game on, scoreLabel shows its score.
ScoreShown ==
    \A s \in Screens :
        board[s] = "game" /\ score[s] > 0 => scoreLabel[s] = score[s]

\* Once the best score is loaded, and until another screen writes its own, it
\* is no lower than the profile's: a game that beats it is a record.
BestIsCurrent ==
    \A s \in Screens :
        basis[s] = "loaded" => best[s] >= profile

\* Where the one answer of a screen's load can be: asked, or being applied in
\* its two closures.
LoadAsked(s, i)   == waiting[i].do = "load" /\ waiting[i].by = s
LoadArrived(s, i) == mainQ[i].do \in {"load", "setBest"} /\ mainQ[i].by = s
NoLoad(s) == /\ \A i \in DOMAIN waiting : ~LoadAsked(s, i)
             /\ \A i \in DOMAIN mainQ : ~LoadArrived(s, i)

\* A screen loads its best score once, never after it was loaded, and what is
\* on its way to a screen that has none is the stored score of this moment.
LoadedOnce == \A s \in Screens : basis[s] = "loaded" => NoLoad(s)
OneLoad ==
    \A s \in Screens :
        /\ \A i, j \in DOMAIN waiting :
              LoadAsked(s, i) /\ LoadAsked(s, j) => i = j
        /\ \A i, j \in DOMAIN mainQ :
              LoadArrived(s, i) /\ LoadArrived(s, j) => i = j
        /\ \A i \in DOMAIN waiting, j \in DOMAIN mainQ :
              ~(LoadAsked(s, i) /\ LoadArrived(s, j))
Unloaded ==
    \A s \in Screens : basis[s] = "none" =>
        /\ \A i \in DOMAIN waiting :
              ~(waiting[i].do = "update" /\ waiting[i].by = s)
        /\ \A i \in DOMAIN mainQ : mainQ[i].by = s =>
              /\ mainQ[i].do # "update"
              /\ LoadArrived(s, i) => mainQ[i].doc = profile
Unopened ==
    \A s \in Screens : screen[s] = "new" =>
        basis[s] = "none" /\ timers[s] = 0 /\ board[s] = "start" /\ NoLoad(s)

\* The inductive invariant behind BestIsCurrent and RecordsStand.
RecordInv == BestIsCurrent /\ LoadedOnce /\ OneLoad /\ Unloaded /\ Unopened

\* updateBestScore lowers a stored score only for a screen that set a record
\* before its best score was loaded, or after another screen wrote a better.
RecordsStand ==
    [][profile' < profile =>
         \E s \in Screens : /\ basis[s] \in {"blind", "overtaken"}
                            /\ profile' = best[s]]_vars

\* When every verb has its three forms, an empty answer scores only for a
\* question put before the dictionary came: the next question asks a word.
OneBlankPointAtMost ==
    [][\A s \in Screens :
         verbs[s] # {} /\ score'[s] > score[s] => expected'[s] # Blank]_vars

\* The timer of a screen that was left is not invalidated by leaving, yet it
\* does not run for ever: nobody can answer any more.
AbandonedGameEnds == \A s \in Screens : screen[s] = "left" ~> timers[s] = 0

\* When no request fails, a best score above the stored one is written.
RecordIsSaved ==
    \A s \in Screens :
        (account = "full" /\ basis[s] = "loaded" /\ best[s] > profile)
            ~> (best[s] = profile \/ basis[s] = "overtaken" \/ failures > 0)

\* "BEST SCORE" is the best: what is stored is never replaced by less.
BestScoreNeverLowered == [][profile' >= profile]_vars
=============================================================================
