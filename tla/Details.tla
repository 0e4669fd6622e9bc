------------------------------ MODULE Details ------------------------------
(***************************************************************************)
(* The details screen of a verb (DetailsView, DetailsPresenter): the       *)
(* FAVORITES button adds the verb to the profile or removes it, and its    *)
(* colour tells which.  A tap is decided by a local copy of the names,     *)
(* asks once for the write and once for a new copy, and the copy is stored *)
(* by a closure of a global, concurrent queue.                             *)
(*                                                                         *)
(* Both questions of a tap are answered by the same snapshot, so the new   *)
(* copy lacks the write; the colour after a tap is computed for that.      *)
(***************************************************************************)
EXTENDS Naturals, Sequences, SequencesExt

CONSTANTS
    Screens,     \* the details screens opened in the life of the process
    Names,       \* infinitives
    NoName,      \* the infinitive of a verb that has none
    Accounts,    \* the account situations to consider
    MaxTaps,     \* bound: taps on FAVORITES, on all screens together
    MaxFailures  \* bound: queries that fail

ASSUME NamesAssumption == NoName \notin Names
ASSUME AccountAssumption == Accounts \subseteq {"full", "bare", "signedOut"}
ASSUME BoundAssumption == MaxTaps \in Nat /\ MaxFailures \in Nat

VARIABLES
    screen,   \* new, open or left
    verb,     \* the infinitive of verbFromDelegate
    shown,    \* the colour of FAVORITES: project for a favourite, or white
    local,    \* favoritesVerbs of the presenter
    account,  \* full: signed in with a users document; bare: without one
    profile,  \* favoritesVerbs in that document, as this device sees it
    waiting,  \* queries for the document, not yet answered
    mainQ,    \* closures on the main dispatch queue
    globalQ,  \* closures on the global queue, which run in any order
    fault,    \* none, or race: how the process was terminated
    \* Bounds and observation only
    failures, \* queries that failed so far
    taps,     \* taps per screen
    hasty     \* a screen was opened or tapped while something was under way

vars == <<screen, verb, shown, local, account, profile, waiting, mainQ, globalQ,
          fault, failures, taps, hasty>>

Queries  == [do : {"load", "add", "delete", "repeat"}, by : Screens]
Closures == [do : {"load", "add", "delete", "repeat", "start", "again"},
             by : Screens, doc : SUBSET Names]

OpenScreens == {s \in Screens : screen[s] = "open"}

Quiet == waiting = <<>> /\ mainQ = <<>> /\ globalQ = <<>>

\* The presenter's copy has the verb, whichever of the two tests asks.
Listed(s) == verb[s] \in local[s]

\* How many closures may be storing the presenter's copy at this moment.
Storing(s) == {i \in DOMAIN globalQ : globalQ[i].by = s}

\* Bound: the taps on all screens.
TapsSoFar == FoldFunction(+, 0, taps)

\* Access to the copy while a closure stores it: the outcome is either.
MayRace(danger) == fault' \in {"none"} \cup (IF danger THEN {"race"} ELSE {})

Init ==
    /\ screen = [s \in Screens |-> "new"]
    /\ verb = [s \in Screens |-> NoName]
    /\ shown = [s \in Screens |-> "white"]
    /\ local = [s \in Screens |-> {}]
    /\ account \in Accounts
    /\ profile \in SUBSET Names
    /\ waiting = <<>> /\ mainQ = <<>> /\ globalQ = <<>>
    /\ fault = "none"
    /\ failures = 0
    /\ taps = [s \in Screens |-> 0]
    /\ hasty = FALSE

-----------------------------------------------------------------------------
\* Without a user nothing is asked.
Ask(queries) ==
    waiting' = IF account = "signedOut" THEN waiting ELSE waiting \o queries

Query(do, s) == <<[do |-> do, by |-> s]>>

\* A row of a list presents the screen with its verb; viewDidLoad asks for
\* the names.
Open(s, v) ==
    /\ OpenScreens = {} /\ screen[s] = "new" /\ fault = "none"
    /\ screen' = [screen EXCEPT ![s] = "open"]
    /\ verb' = [verb EXCEPT ![s] = v]
    /\ Ask(Query("load", s))
    /\ hasty' = (hasty \/ ~Quiet)
    /\ UNCHANGED <<shown, local, account, profile, mainQ, globalQ, fault,
                   failures, taps>>

\* Variant with a bug: the infinitive is not looked at.
WriteQuery_AnyVerb(s) == Query(IF Listed(s) THEN "delete" ELSE "add", s)

\* The write a tap asks for; a verb without infinitive is not written.
WriteQuery(s) ==
    IF verb[s] = NoName THEN <<>>
    ELSE Query(IF Listed(s) THEN "delete" ELSE "add", s)

AddToFavorites(s) ==
    /\ screen[s] = "open" /\ fault = "none"
    /\ TapsSoFar < MaxTaps
    /\ Ask(WriteQuery(s) \o Query("repeat", s))
    /\ MayRace(Storing(s) # {})
    /\ taps' = [taps EXCEPT ![s] = @ + 1]
    /\ hasty' = (hasty \/ ~Quiet)
    /\ UNCHANGED <<screen, verb, shown, local, account, profile, mainQ, globalQ,
                   failures>>

BackButtonDidTap(s) ==
    /\ screen[s] = "open" /\ fault = "none"
    /\ screen' = [screen EXCEPT ![s] = "left"]
    /\ UNCHANGED <<verb, shown, local, account, profile, waiting, mainQ, globalQ,
                   fault, failures, taps, hasty>>

-----------------------------------------------------------------------------
\* The closures that hand the waiting callbacks one snapshot.
Answers == IF account # "full" THEN <<>>
           ELSE [i \in 1..Len(waiting) |->
                   [do |-> waiting[i].do, by |-> waiting[i].by,
                    doc |-> profile]]

\* Variant with a bug: every callback is called twice.
QueryAnswered_Twice ==
    /\ waiting # <<>> /\ fault = "none"
    /\ waiting' = <<>>
    /\ mainQ' = mainQ \o Answers \o Answers
    /\ UNCHANGED <<screen, verb, shown, local, account, profile, globalQ, fault,
                   failures, taps, hasty>>

\* Firestore answers every listener of the query with one snapshot.
QueryAnswered ==
    /\ waiting # <<>> /\ fault = "none"
    /\ waiting' = <<>>
    /\ mainQ' = mainQ \o Answers
    /\ UNCHANGED <<screen, verb, shown, local, account, profile, globalQ, fault,
                   failures, taps, hasty>>

QueryFailed ==
    /\ waiting # <<>> /\ fault = "none" /\ failures < MaxFailures
    /\ waiting' = <<>>
    /\ failures' = failures + 1
    /\ UNCHANGED <<screen, verb, shown, local, account, profile, mainQ, globalQ,
                   fault, taps, hasty>>

\* The closure at the head of the main queue, if it is one of these.
Running(kinds, s) ==
    mainQ # <<>> /\ Head(mainQ).do \in kinds /\ Head(mainQ).by = s /\ fault = "none"

\* The answer to a download of the names: on to the global queue with it.
RunNames(s) ==
    /\ Running({"load", "repeat"}, s)
    /\ globalQ' = Append(globalQ, Head(mainQ))
    /\ mainQ' = Tail(mainQ)
    /\ UNCHANGED <<screen, verb, shown, local, account, profile, waiting, fault,
                   failures, taps, hasty>>

\* Variant with a bug: the local copy, changed, replaces the stored names.
Written_WholeList(s, do) ==
    IF do = "add" THEN local[s] \cup {verb[s]} ELSE local[s] \ {verb[s]}

\* arrayUnion and arrayRemove.
Written(s, do) ==
    IF do = "add" THEN profile \cup {verb[s]} ELSE profile \ {verb[s]}

\* The answer to a tap's first question: updateData.
RunWrite(s) ==
    /\ Running({"add", "delete"}, s)
    /\ profile' = Written(s, Head(mainQ).do)
    /\ mainQ' = Tail(mainQ)
    /\ UNCHANGED <<screen, verb, shown, local, account, waiting, globalQ, fault,
                   failures, taps, hasty>>

\* A closure of the global queue stores the copy; another may do so at the
\* same time.
StoreNames(i) ==
    LET s == globalQ[i].by
    IN  /\ fault = "none"
        /\ local' = [local EXCEPT ![s] = globalQ[i].doc]
        /\ mainQ' = Append(mainQ,
               [do |-> IF globalQ[i].do = "load" THEN "start" ELSE "again",
                by |-> s, doc |-> {}])
        /\ globalQ' = RemoveAt(globalQ, i)
        /\ MayRace(Storing(s) # {i})
        /\ UNCHANGED <<screen, verb, shown, account, profile, waiting, failures,
                       taps, hasty>>

\* colorButtonOnStart after a load (favoriteOrNot) and after a tap
\* (repeatFavoriteOrNot, for a copy that lacks the write).
ColorButton_SameTest(s, do) == IF Listed(s) THEN "project" ELSE "white"

ColorButton(s, do) ==
    IF Listed(s) <=> do = "start" THEN "project" ELSE "white"

\* Variant with a bug: the colour after a tap asks for the names once more.
RunColor_Polls(s) ==
    /\ Running({"start", "again"}, s)
    /\ shown' = [shown EXCEPT ![s] = IF screen[s] = "open"
                                     THEN ColorButton(s, Head(mainQ).do) ELSE @]
    /\ waiting' = IF Head(mainQ).do = "again"
                  THEN waiting \o Query("repeat", s) ELSE waiting
    /\ mainQ' = Tail(mainQ)
    /\ UNCHANGED <<screen, verb, local, account, profile, globalQ, fault, failures,
                   taps, hasty>>

\* The view is held weakly: a screen that was left is not coloured.
RunColor(s) ==
    /\ Running({"start", "again"}, s)
    /\ shown' = [shown EXCEPT ![s] = IF screen[s] = "open"
                                     THEN ColorButton(s, Head(mainQ).do) ELSE @]
    /\ mainQ' = Tail(mainQ)
    /\ MayRace(Storing(s) # {})
    /\ UNCHANGED <<screen, verb, local, account, profile, waiting, globalQ,
                   failures, taps, hasty>>

-----------------------------------------------------------------------------
RunMain   == \E s \in Screens : RunNames(s) \/ RunWrite(s) \/ RunColor(s)
RunGlobal == \E i \in DOMAIN globalQ : StoreNames(i)

Next == \/ \E s \in Screens, v \in Names \cup {NoName} : Open(s, v)
        \/ \E s \in Screens : AddToFavorites(s) \/ BackButtonDidTap(s)
        \/ QueryAnswered \/ QueryFailed
        \/ RunMain \/ RunGlobal

\* Queries come to an end and both queues go on; the user owes nothing.
Fairness == /\ WF_vars(QueryAnswered \/ QueryFailed)
            /\ WF_vars(RunMain)
            /\ WF_vars(RunGlobal)

Spec     == Init /\ [][Next]_vars
FairSpec == Spec /\ Fairness

-----------------------------------------------------------------------------
\* Every variable stays in its type: above all no nil name in the profile.
TypeOK ==
    /\ screen \in [Screens -> {"new", "open", "left"}]
    /\ verb \in [Screens -> Names \cup {NoName}]
    /\ shown \in [Screens -> {"white", "project"}]
    /\ local \in [Screens -> SUBSET Names]
    /\ account \in Accounts
    /\ profile \in SUBSET Names
    /\ waiting \in Seq(Queries)
    /\ mainQ \in Seq(Closures) /\ globalQ \in Seq(Closures)
    /\ fault \in {"none", "race"}
    /\ failures \in 0..MaxFailures
    /\ taps \in [Screens -> Nat]
    /\ hasty \in BOOLEAN

\* When nothing is under way: the colour tells whether the verb is a favourite.
StarAgrees(s) == shown[s] = "project" <=> verb[s] \in profile

Trusted(s) == /\ screen[s] = "open" /\ account = "full" /\ verb[s] \in Names
              /\ Quiet /\ ~hasty /\ failures = 0

\* For a user who waits for every answer the colour is right on entering the
\* screen and after each odd tap: the two tests of favoriteOrNot and
\* repeatFavoriteOrNot make up for a copy that is one write behind.
OddTapsAgree ==
    \A s \in Screens :
        Trusted(s) /\ (taps[s] = 0 \/ taps[s] % 2 = 1) => StarAgrees(s)

\* The copy on the screen is the profile before the last tap, so that an even
\* tap repeats the one before it: of two taps at most one writes.
CopyLagsOneTap ==
    \A s \in Screens :
        Trusted(s) => (Listed(s) <=> verb[s] \in profile) <=> taps[s] % 2 = 0

\* What may be relied on after any number of taps.
TapsAlternate == OddTapsAgree /\ CopyLagsOneTap

\* A screen writes its own verb only, and only after a tap: with an old copy
\* of the names it neither drops nor revives the others.
WritesOwnVerb ==
    \A n \in Names : \/ n \in profile' <=> n \in profile
                     \/ \E s \in Screens : verb[s] = n /\ taps[s] > 0

OnlyOwnVerb == [][WritesOwnVerb]_vars

\* The copy, an array without a lock, is in danger only for a user who does
\* not wait: who taps, or opens another screen, before all was answered.
RaceNeedsHaste == fault = "race" => hasty

\* What a tap or a screen asked for comes to an end.
Settles == ~Quiet ~> Quiet \/ fault # "none"

\* "FAVORITES" is coloured for a favourite, after any number of taps.
ButtonShowsFavorite == \A s \in Screens : Trusted(s) => StarAgrees(s)
=============================================================================
