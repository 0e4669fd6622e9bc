------------------------------ MODULE Session ------------------------------
(***************************************************************************)
(* Accounts and screens: SignInView and SignUpView with their presenters,  *)
(* SceneDelegate, the menu, and what they have to do with Auth's current   *)
(* user and the users collection.  SignInView is the root; everything else *)
(* is presented on top of it, one screen above the other.                  *)
(*                                                                         *)
(* The answer to a log-in or a sign-up comes when it comes: the user may   *)
(* be on any screen by then, or the process may have been restarted.       *)
(***************************************************************************)
EXTENDS Naturals, Sequences, FiniteSets, SequencesExt

CONSTANTS
    Emails,      \* who may have an account; an email stands for its uid too
    NoUser,      \* nobody is signed in
    MaxRequests, \* bound: log-ins and sign-ups
    MaxRestarts, \* bound: ends of the process
    MaxOpened    \* bound: screens opened from the menu

ASSUME UserAssumption == NoUser \notin Emails
ASSUME BoundAssumption ==
    MaxRequests \in Nat /\ MaxRestarts \in Nat /\ MaxOpened \in Nat

VARIABLES
    \* The process
    stack,    \* the presented screens, from the one on SignInView upwards
    requests, \* calls of Auth whose answer is not there yet
    mainQ,    \* completions on the main dispatch queue
    \* What survives it
    user,     \* Auth's currentUser
    accounts, \* the emails with an account on the server
    docs,     \* docs[e]: documents of users for e, as the device sees them
    \* Bounds and observation only
    sent,     \* requests so far
    restarts, \* restarts so far
    opened,   \* screens opened so far
    cutOff    \* sign-ups whose success was not told to the process that asked

vars == <<stack, requests, mainQ, user, accounts, docs, sent, restarts, opened,
          cutOff>>

Kinds    == {"signIn", "createUser"}
Screen   == [what : {"signUp", "alert", "menu", "screen"},
             for : Emails \cup {NoUser}, early : BOOLEAN]
Requests == [id : 1..MaxRequests, kind : Kinds, email : Emails, right : BOOLEAN]
Results  == [kind : Kinds, email : Emails, success : BOOLEAN]

UnderWay == requests # {} \/ mainQ # <<>>

\* What is on top; the root when nothing is presented.
Top == IF stack = <<>> THEN "signIn" ELSE Last(stack).what

\* A screen for the user of this moment.
New(what) == [what |-> what, for |-> user, early |-> UnderWay]

Init ==
    /\ stack = <<>> /\ requests = {} /\ mainQ = <<>>
    /\ user = NoUser
    /\ accounts \in SUBSET Emails
    /\ docs = [e \in Emails |-> IF e \in accounts THEN 1 ELSE 0]
    /\ sent = 0 /\ restarts = 0 /\ opened = 0
    /\ cutOff = {}

-----------------------------------------------------------------------------
\* Variant with a bug: whatever is shown, the screen goes on top.
PresentOnRoot_Always(what) == stack' = Append(stack, New(what))

\* UIKit ignores a presentation by a view that presents something already.
PresentOnRoot(what) ==
    stack' = IF stack = <<>> THEN <<New(what)>> ELSE stack

Request(kind, email, right) ==
    /\ sent < MaxRequests
    /\ sent' = sent + 1
    /\ requests' = requests \cup {[id |-> sent + 1, kind |-> kind,
                                   email |-> email, right |-> right]}

\* loginButton with a valid email and password: nothing keeps it from being
\* tapped again while it is under way.
LoginButton(e, right) ==
    /\ Top = "signIn"
    /\ Request("signIn", e, right)
    /\ UNCHANGED <<stack, mainQ, user, accounts, docs, restarts, opened, cutOff>>

\* signUpButtonDidTap of SignInView.
SignUpButtonDidTap ==
    /\ Top = "signIn"
    /\ PresentOnRoot("signUp")
    /\ UNCHANGED <<requests, mainQ, user, accounts, docs, sent, restarts, opened,
                   cutOff>>

\* createUser, and the screen is left without waiting for its result.
CreateNewAccountButtonDidTap(e) ==
    /\ Top = "signUp"
    /\ Request("createUser", e, TRUE)
    /\ stack' = Front(stack)
    /\ UNCHANGED <<mainQ, user, accounts, docs, restarts, opened, cutOff>>

\* An email or a password that is not valid is answered by an alert.
InvalidInput ==
    /\ Top \in {"signIn", "signUp"}
    /\ stack' = Append(stack, New("alert"))
    /\ UNCHANGED <<requests, mainQ, user, accounts, docs, sent, restarts, opened,
                   cutOff>>

\* OK of an alert, the back button of a screen; the menu has none.
Dismiss ==
    /\ Top \in {"signUp", "alert", "screen"}
    /\ stack' = Front(stack)
    /\ UNCHANGED <<requests, mainQ, user, accounts, docs, sent, restarts, opened,
                   cutOff>>

\* Variant with a bug: the screen is given the user the menu was made for.
DidTapOnMenuButton_MenuUser ==
    /\ Top = "menu" /\ opened < MaxOpened
    /\ stack' = Append(stack, [New("screen") EXCEPT !.for = Last(stack).for])
    /\ opened' = opened + 1
    /\ UNCHANGED <<requests, mainQ, user, accounts, docs, sent, restarts, cutOff>>

\* A menu button: the new screen's presenter reads the current user.
DidTapOnMenuButton ==
    /\ Top = "menu" /\ opened < MaxOpened
    /\ stack' = Append(stack, New("screen"))
    /\ opened' = opened + 1
    /\ UNCHANGED <<requests, mainQ, user, accounts, docs, sent, restarts, cutOff>>

\* The scene becomes active: the menu for whoever is signed in.
SceneDidBecomeActive ==
    /\ user # NoUser
    /\ PresentOnRoot("menu")
    /\ UNCHANGED <<requests, mainQ, user, accounts, docs, sent, restarts, opened,
                   cutOff>>

-----------------------------------------------------------------------------
\* What Auth's server makes of a request.
Succeeds(r) == IF r.kind = "signIn" THEN r.right /\ r.email \in accounts
               ELSE r.email \notin accounts

Completed(r, success) ==
    mainQ' = Append(mainQ, [kind |-> r.kind, email |-> r.email,
                            success |-> success])

\* An answer arrives: Auth takes over the new user, and the completion is
\* queued.  Both kinds of success sign the user in.
Answered(r) ==
    /\ r \in requests
    /\ requests' = requests \ {r}
    /\ Completed(r, Succeeds(r))
    /\ user' = IF Succeeds(r) THEN r.email ELSE user
    /\ accounts' = IF Succeeds(r) THEN accounts \cup {r.email} ELSE accounts
    /\ UNCHANGED <<stack, docs, sent, restarts, opened, cutOff>>

\* The network fails: before the server has done what was asked, or after.
Unanswered(r) ==
    /\ r \in requests
    /\ requests' = requests \ {r}
    /\ Completed(r, FALSE)
    /\ \/ UNCHANGED <<accounts, cutOff>>
       \/ /\ r.kind = "createUser" /\ Succeeds(r)
          /\ accounts' = accounts \cup {r.email}
          /\ cutOff' = cutOff \cup {r.email}
    /\ UNCHANGED <<stack, user, docs, sent, restarts, opened>>

\* Variant with a bug: a failed log-in presents the sign-in screen again.
RunSignedIn_SignInAgain ==
    /\ mainQ # <<>> /\ Head(mainQ).kind = "signIn"
    /\ PresentOnRoot(IF Head(mainQ).success THEN "menu" ELSE "signIn")
    /\ mainQ' = Tail(mainQ)
    /\ UNCHANGED <<requests, user, accounts, docs, sent, restarts, opened, cutOff>>

\* The completion of signIn: the menu, or an alert.
RunSignedIn ==
    /\ mainQ # <<>> /\ Head(mainQ).kind = "signIn"
    /\ PresentOnRoot(IF Head(mainQ).success THEN "menu" ELSE "alert")
    /\ mainQ' = Tail(mainQ)
    /\ UNCHANGED <<requests, user, accounts, docs, sent, restarts, opened, cutOff>>

\* Variant with a bug: the document waits for the sign-up screen, which is gone.
RunCreated_WeakView ==
    /\ mainQ # <<>> /\ Head(mainQ).kind = "createUser"
    /\ docs' = IF Head(mainQ).success /\ Top = "signUp"
               THEN [docs EXCEPT ![Head(mainQ).email] = @ + 1] ELSE docs
    /\ mainQ' = Tail(mainQ)
    /\ UNCHANGED <<stack, requests, user, accounts, sent, restarts, opened, cutOff>>

\* The completion of createUser: the profile is added, visible at once; an
\* error never gets past the first guard.
RunCreated ==
    /\ mainQ # <<>> /\ Head(mainQ).kind = "createUser"
    /\ docs' = IF Head(mainQ).success
               THEN [docs EXCEPT ![Head(mainQ).email] = @ + 1] ELSE docs
    /\ mainQ' = Tail(mainQ)
    /\ UNCHANGED <<stack, requests, user, accounts, sent, restarts, opened, cutOff>>

\* The process ends and is started again.  The server may have done, or not,
\* what was under way.
Restart ==
    /\ restarts < MaxRestarts
    /\ restarts' = restarts + 1
    /\ stack' = <<>> /\ requests' = {} /\ mainQ' = <<>>
    /\ \E done \in SUBSET {r.email : r \in
                             {q \in requests : q.kind = "createUser" /\ Succeeds(q)}} :
          /\ accounts' = accounts \cup done
          /\ cutOff' = cutOff \cup done \cup
                {mainQ[i].email : i \in {j \in DOMAIN mainQ :
                       mainQ[j].kind = "createUser" /\ mainQ[j].success}}
    /\ UNCHANGED <<user, docs, sent, opened>>

-----------------------------------------------------------------------------
User == \/ \E e \in Emails, right \in BOOLEAN : LoginButton(e, right)
        \/ \E e \in Emails : CreateNewAccountButtonDidTap(e)
        \/ SignUpButtonDidTap \/ InvalidInput \/ Dismiss \/ DidTapOnMenuButton

Next == \/ User \/ SceneDidBecomeActive \/ Restart
        \/ \E r \in requests : Answered(r) \/ Unanswered(r)
        \/ RunSignedIn \/ RunCreated

\* Auth answers or reports an error, and the main queue goes on.
Fairness == /\ WF_vars(\E r \in requests : Answered(r) \/ Unanswered(r))
            /\ WF_vars(RunSignedIn \/ RunCreated)

Spec     == Init /\ [][Next]_vars
FairSpec == Spec /\ Fairness

-----------------------------------------------------------------------------
\* Every variable stays in its type.
TypeOK == /\ stack \in Seq(Screen)
          /\ requests \in SUBSET Requests
          /\ mainQ \in Seq(Results)
          /\ user \in Emails \cup {NoUser}
          /\ accounts \in SUBSET Emails /\ cutOff \in SUBSET Emails
          /\ docs \in [Emails -> Nat]
          /\ sent \in 0..MaxRequests /\ restarts \in 0..MaxRestarts
          /\ opened \in 0..MaxOpened

\* However late an answer comes and however often the scene becomes active,
\* there is one menu at most, directly on the root, and only with a user;
\* every screen is above it, and a sign-up or an alert is not.
MenuInPlace ==
    /\ \A i \in DOMAIN stack :
          /\ stack[i].what = "menu" => i = 1 /\ user # NoUser
          /\ stack[i].what = "screen" => i = 2 /\ stack[1].what = "menu"
    /\ Len(stack) <= 2

\* The screen's presenter acts for the current user, who is replaced behind
\* it only by a sign-up or a log-in that was under way when it was opened.
ScreensActForUser ==
    \A i \in DOMAIN stack :
        stack[i].what = "screen" => stack[i].for = user \/ stack[i].early

\* An account has at most one profile, and no profile lacks its account.
OneProfile ==
    \A e \in Emails : docs[e] <= 1 /\ (docs[e] = 1 => e \in accounts)

\* An account gets its profile, also when the sign-up screen is long gone,
\* unless its success was never told to the process that asked for it.
ProfileComes == \A e \in Emails : e \in accounts ~> docs[e] = 1 \/ e \in cutOff
=============================================================================
