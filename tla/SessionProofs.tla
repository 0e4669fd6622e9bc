--------------------------- MODULE SessionProofs ---------------------------
(***************************************************************************)
(* What holds of the stack of screens and of the profiles for any set of   *)
(* emails and any number of requests, restarts and screens.                *)
(***************************************************************************)
EXTENDS Session, SequenceTheorems, TLAPS

-----------------------------------------------------------------------------
(* Type correctness.                                                       *)

\* A screen for the user of this moment is a screen.
LEMMA NewTyped ==
    ASSUME TypeOK, NEW what \in {"signUp", "alert", "menu", "screen"}
    PROVE  New(what) \in Screen
BY DEF TypeOK, New, Screen, UnderWay

\* What the stack may become: one screen more, one less, or none.
LEMMA StackTyped ==
    ASSUME TypeOK
    PROVE  /\ \A x \in Screen : Append(stack, x) \in Seq(Screen)
           /\ \A x \in Screen : <<x>> \in Seq(Screen)
           /\ stack # <<>> => /\ Front(stack) \in Seq(Screen)
                              /\ Len(Front(stack)) = Len(stack) - 1
                              /\ \A i \in 1..(Len(stack) - 1) :
                                    Front(stack)[i] = stack[i]
                              /\ Last(stack) = stack[Len(stack)]
                              /\ Last(stack) \in Screen
<1>1. stack \in Seq(Screen)
  BY DEF TypeOK
<1>2. stack # <<>> => Len(stack) \in Nat /\ Len(stack) > 0
  BY <1>1, EmptySeq, LenProperties
<1>3. stack # <<>> => /\ Front(stack) \in Seq(Screen)
                      /\ Len(Front(stack)) = Len(stack) - 1
                      /\ \A i \in 1..(Len(stack) - 1) : Front(stack)[i] = stack[i]
  <2> SUFFICES ASSUME stack # <<>>
               PROVE  /\ Front(stack) \in Seq(Screen)
                      /\ Len(Front(stack)) = Len(stack) - 1
                      /\ \A i \in 1..(Len(stack) - 1) : Front(stack)[i] = stack[i]
    OBVIOUS
  <2> DEFINE n == Len(stack) - 1
  <2>1. n \in Int /\ n >= 0
    BY <1>2
  <2>2. \A i \in 1..n : stack[i] \in Screen
    BY <1>1, <1>2, ElementOfSeq
  <2>3. Front(stack) = SubSeq(stack, 1, n)
    BY DEF Front
  <2> HIDE DEF n
  <2>4. /\ SubSeq(stack, 1, n) \in Seq(Screen)
        /\ Len(SubSeq(stack, 1, n)) = IF 1 <= n THEN n - 1 + 1 ELSE 0
        /\ \A i \in 1..(n - 1 + 1) : SubSeq(stack, 1, n)[i] = stack[1 + i - 1]
    BY <2>1, <2>2, SubSeqProperties
  <2>5. /\ Front(stack) \in Seq(Screen) /\ Len(Front(stack)) = n
        /\ \A i \in 1..n : Front(stack)[i] = stack[i]
    BY <2>1, <2>3, <2>4
  <2> QED BY <2>5 DEF n
<1>4. stack # <<>> => Last(stack) = stack[Len(stack)] /\ Last(stack) \in Screen
  BY <1>1, <1>2, ElementOfSeq DEF Last
<1> QED BY <1>1, <1>3, <1>4, AppendProperties

\* The completions that Auth queues, and those that are left after one has run.
LEMMA QueueTyped ==
    ASSUME TypeOK
    PROVE  /\ \A x \in Results : Append(mainQ, x) \in Seq(Results)
           /\ mainQ # <<>> => /\ Tail(mainQ) \in Seq(Results)
                              /\ Head(mainQ) \in Results /\ Head(mainQ) = mainQ[1]
                              /\ Len(mainQ) > 0
BY AppendProperties, HeadTailProperties, EmptySeq, LenProperties DEF TypeOK

\* A request that is sent has the next number.
LEMMA RequestTyped ==
    ASSUME TypeOK, NEW kind \in Kinds, NEW e \in Emails, NEW right \in BOOLEAN,
           Request(kind, e, right)
    PROVE  requests' \in SUBSET Requests /\ sent' \in 0..MaxRequests
BY BoundAssumption DEF TypeOK, Request, Requests

\* Every step keeps the types.
LEMMA TypeStep ==
    ASSUME TypeOK, [Next]_vars
    PROVE  TypeOK'
<1> USE BoundAssumption
<1>1. \A what \in {"signUp", "alert", "menu", "screen"} : New(what) \in Screen
  BY NewTyped
<1>2. ASSUME NEW what \in {"signUp", "alert", "menu", "screen"}, PresentOnRoot(what)
      PROVE  stack' \in Seq(Screen)
  BY <1>1, <1>2, StackTyped DEF PresentOnRoot, TypeOK
<1>3. Top \in {"signUp", "alert", "screen", "menu"} => stack # <<>>
  BY DEF Top
<1>4. ASSUME NEW e \in Emails, NEW right \in BOOLEAN, LoginButton(e, right)
      PROVE  TypeOK'
  BY <1>4, RequestTyped DEF LoginButton, TypeOK, Kinds
<1>5. ASSUME NEW e \in Emails, CreateNewAccountButtonDidTap(e)
      PROVE  TypeOK'
  <2>1. requests' \in SUBSET Requests /\ sent' \in 0..MaxRequests
    BY <1>5, RequestTyped DEF CreateNewAccountButtonDidTap, Kinds
  <2>2. stack' \in Seq(Screen)
    BY <1>3, <1>5, StackTyped DEF CreateNewAccountButtonDidTap
  <2> QED BY <1>5, <2>1, <2>2 DEF CreateNewAccountButtonDidTap, TypeOK
<1>6. CASE SignUpButtonDidTap
  BY <1>2, <1>6 DEF SignUpButtonDidTap, TypeOK
<1>7. CASE InvalidInput
  <2>1. stack' \in Seq(Screen)
    BY <1>1, <1>7, StackTyped DEF InvalidInput
  <2> QED BY <1>7, <2>1 DEF InvalidInput, TypeOK
<1>8. CASE Dismiss
  <2>1. stack' \in Seq(Screen)
    BY <1>3, <1>8, StackTyped DEF Dismiss
  <2> QED BY <1>8, <2>1 DEF Dismiss, TypeOK
<1>9. CASE DidTapOnMenuButton
  <2>1. stack' \in Seq(Screen)
    BY <1>1, <1>9, StackTyped DEF DidTapOnMenuButton
  <2> QED BY <1>9, <2>1 DEF DidTapOnMenuButton, TypeOK
<1>10. CASE SceneDidBecomeActive
  BY <1>2, <1>10 DEF SceneDidBecomeActive, TypeOK
<1>11. ASSUME NEW r \in requests, Answered(r)
       PROVE  TypeOK'
  <2>1. r \in Requests /\ Succeeds(r) \in BOOLEAN
    BY DEF TypeOK, Succeeds, Requests
  <2>2. [kind |-> r.kind, email |-> r.email, success |-> Succeeds(r)] \in Results
    BY <2>1 DEF Requests, Results
  <2>3. mainQ' \in Seq(Results)
    BY <1>11, <2>2, QueueTyped DEF Answered, Completed
  <2>4. user' \in Emails \cup {NoUser} /\ accounts' \in SUBSET Emails
    BY <1>11, <2>1 DEF Answered, TypeOK, Requests
  <2> QED BY <1>11, <2>3, <2>4 DEF Answered, TypeOK
<1>12. ASSUME NEW r \in requests, Unanswered(r)
       PROVE  TypeOK'
  <2>1. r \in Requests
    BY DEF TypeOK
  <2>2. [kind |-> r.kind, email |-> r.email, success |-> FALSE] \in Results
    BY <2>1 DEF Requests, Results
  <2>3. mainQ' \in Seq(Results)
    BY <1>12, <2>2, QueueTyped DEF Unanswered, Completed
  <2>4. accounts' \in SUBSET Emails /\ cutOff' \in SUBSET Emails
    BY <1>12, <2>1 DEF Unanswered, TypeOK, Requests
  <2> QED BY <1>12, <2>3, <2>4 DEF Unanswered, TypeOK
<1>13. CASE RunSignedIn
  <2>1. mainQ' \in Seq(Results)
    BY <1>13, QueueTyped DEF RunSignedIn
  <2>2. stack' \in Seq(Screen)
    BY <1>2, <1>13 DEF RunSignedIn
  <2> QED BY <1>13, <2>1, <2>2 DEF RunSignedIn, TypeOK
<1>14. CASE RunCreated
  <2>1. mainQ' \in Seq(Results) /\ Head(mainQ) \in Results
    BY <1>14, QueueTyped DEF RunCreated
  <2>2. docs' \in [Emails -> Nat]
    BY <1>14, <2>1 DEF RunCreated, TypeOK, Results
  <2> QED BY <1>14, <2>1, <2>2 DEF RunCreated, TypeOK
<1>15. CASE Restart
  <2>1. stack' \in Seq(Screen) /\ requests' = {} /\ mainQ' \in Seq(Results)
    BY <1>15, EmptySeq DEF Restart
  <2>2. \A r \in requests : r.email \in Emails
    BY DEF TypeOK, Requests
  <2>3. \A i \in DOMAIN mainQ : mainQ[i].email \in Emails
    <3>1. mainQ \in Seq(Results)
      BY DEF TypeOK
    <3>2. \A i \in DOMAIN mainQ : mainQ[i] \in Results
      BY <3>1, ElementOfSeq, LenProperties
    <3> QED BY <3>2 DEF Results
  <2>4. accounts' \in SUBSET Emails /\ cutOff' \in SUBSET Emails
    BY <1>15, <2>2, <2>3 DEF Restart, TypeOK
  <2>5. restarts' \in 0..MaxRestarts
    BY <1>15 DEF Restart, TypeOK
  <2> QED BY <1>15, <2>1, <2>4, <2>5 DEF Restart, TypeOK
<1>16. CASE UNCHANGED vars
  BY <1>16 DEF vars, TypeOK
<1> QED BY <1>4, <1>5, <1>6, <1>7, <1>8, <1>9, <1>10, <1>11, <1>12, <1>13, <1>14,
           <1>15, <1>16 DEF Next, User

\* Accounts, profiles and the screens presented are typed in every reachable state.
THEOREM TypeCorrect == Spec => []TypeOK
<1>1. Init => TypeOK
  BY BoundAssumption, EmptySeq DEF Init, TypeOK
<1> QED BY <1>1, TypeStep, PTL DEF Spec

-----------------------------------------------------------------------------
(* The screens and their places.  MenuInPlace is not inductive: that an      *)
(* alert above a sign-up screen is at most the second needs that the sign-up *)
(* screen is the first, and that a menu has a user needs that a log-in that  *)
(* succeeded has one when its completion runs.                               *)

\* The places of the screens on a stack.
Placed(s) ==
    /\ Len(s) <= 2
    /\ \A i \in DOMAIN s : /\ s[i].what \in {"menu", "signUp"} => i = 1
                           /\ s[i].what = "screen" => i = 2 /\ s[1].what = "menu"

\* A menu is shown for a user; a screen that was opened when nothing was under
\* way is for the user of this moment, and nothing is asked of Auth meanwhile.
ScreenRight(x) ==
    /\ x.what = "menu" => user # NoUser
    /\ x.what = "screen" /\ ~x.early => x.for = user /\ requests = {}

\* Who has logged in or signed up is the user when the completion runs.
SuccessHasUser == \A x \in Range(mainQ) : x.success => user # NoUser

StackInv == /\ Placed(stack)
            /\ \A x \in Range(stack) : ScreenRight(x)
            /\ SuccessHasUser

\* What the handlers do to a stack leaves everything in its place.
LEMMA PlacedFacts ==
    ASSUME TypeOK, Placed(stack)
    PROVE  /\ Placed(<<>>)
           /\ \A x \in Screen : x.what # "screen" => Placed(<<x>>)
           /\ stack # <<>> => Placed(Front(stack))
           /\ Top \in {"signIn", "signUp"} =>
                 \A x \in Screen : x.what = "alert" => Placed(Append(stack, x))
           /\ Top = "menu" =>
                 \A x \in Screen : x.what = "screen" => Placed(Append(stack, x))
<1>1. stack \in Seq(Screen) /\ Len(stack) \in Nat /\ DOMAIN stack = 1..Len(stack)
  BY LenProperties DEF TypeOK
<1>2. /\ Placed(<<>>)
      /\ \A x \in Screen : x.what # "screen" => Placed(<<x>>)
  BY DEF Placed
<1>3. ASSUME stack # <<>> PROVE Placed(Front(stack))
  <2>1. /\ Front(stack) \in Seq(Screen) /\ Len(Front(stack)) = Len(stack) - 1
        /\ \A i \in 1..(Len(stack) - 1) : Front(stack)[i] = stack[i]
    BY <1>3, StackTyped
  <2>2. DOMAIN Front(stack) = 1..(Len(stack) - 1)
    BY <2>1, LenProperties
  <2>3. Len(stack) <= 2
    BY DEF Placed
  <2>4. ASSUME NEW i \in 1..(Len(stack) - 1)
        PROVE  /\ stack[i].what \in {"menu", "signUp"} => i = 1
               /\ stack[i].what # "screen"
    BY <1>1, <2>3, <2>4 DEF Placed
  <2>5. /\ Len(Front(stack)) <= 2
        /\ \A i \in DOMAIN Front(stack) :
              /\ Front(stack)[i].what \in {"menu", "signUp"} => i = 1
              /\ Front(stack)[i].what # "screen"
    BY <1>1, <2>1, <2>2, <2>3, <2>4
  <2> QED BY <2>5 DEF Placed
<1>4. ASSUME Top \in {"signIn", "signUp"} PROVE Len(stack) <= 1
  <2>1. CASE stack = <<>>
    BY <2>1
  <2>2. CASE stack # <<>>
    <3>1. Last(stack) = stack[Len(stack)] /\ Last(stack) \in Screen
      BY <2>2, StackTyped
    <3>2. stack[Len(stack)].what = "signUp"
      BY <1>4, <2>2, <3>1 DEF Top, Screen
    <3>3. Len(stack) \in DOMAIN stack
      BY <1>1, <2>2, EmptySeq
    <3> QED BY <3>2, <3>3 DEF Placed
  <2> QED BY <2>1, <2>2
<1>5. ASSUME Top = "menu" PROVE Len(stack) = 1 /\ stack[1].what = "menu"
  <2>1. stack # <<>>
    BY <1>5 DEF Top
  <2>2. stack[Len(stack)].what = "menu"
    BY <1>5, <2>1, StackTyped DEF Top
  <2>3. Len(stack) \in DOMAIN stack
    BY <1>1, <2>1, EmptySeq
  <2> QED BY <2>2, <2>3 DEF Placed
<1>6. ASSUME NEW x \in Screen
      PROVE  /\ Len(Append(stack, x)) = Len(stack) + 1
             /\ DOMAIN Append(stack, x) = 1..(Len(stack) + 1)
             /\ \A i \in 1..Len(stack) : Append(stack, x)[i] = stack[i]
             /\ Append(stack, x)[Len(stack) + 1] = x
  <2>1. Append(stack, x) \in Seq(Screen)
    BY <1>1, AppendProperties
  <2>2. /\ Len(Append(stack, x)) = Len(stack) + 1
        /\ \A i \in 1..Len(stack) : Append(stack, x)[i] = stack[i]
        /\ Append(stack, x)[Len(stack) + 1] = x
    BY <1>1, AppendProperties
  <2> QED BY <2>1, <2>2, LenProperties
<1>7. ASSUME Top \in {"signIn", "signUp"}, NEW x \in Screen, x.what = "alert"
      PROVE  Placed(Append(stack, x))
  <2>1. Len(stack) \in {0, 1} /\ \A i \in DOMAIN Append(stack, x) :
             \/ i \in DOMAIN stack /\ Append(stack, x)[i] = stack[i]
             \/ Append(stack, x)[i] = x
    BY <1>1, <1>4, <1>6, <1>7
  <2>2. \A i \in DOMAIN stack : i = 1 /\ stack[i].what # "screen"
    BY <1>1, <2>1 DEF Placed
  <2>3. Len(Append(stack, x)) <= 2
    BY <1>6, <2>1
  <2> QED BY <1>7, <2>1, <2>2, <2>3 DEF Placed
<1>8. ASSUME Top = "menu", NEW x \in Screen, x.what = "screen"
      PROVE  Placed(Append(stack, x))
  <2>1. Len(stack) = 1 /\ stack[1].what = "menu"
    BY <1>5, <1>8
  <2>2. /\ Len(Append(stack, x)) = 2 /\ DOMAIN Append(stack, x) = 1..2
        /\ Append(stack, x)[1] = stack[1] /\ Append(stack, x)[2] = x
    BY <1>1, <1>6, <2>1
  <2> QED BY <1>8, <2>1, <2>2 DEF Placed
<1> QED BY <1>2, <1>3, <1>7, <1>8

\* What is in a sequence that grows at its end or shrinks at its beginning.
LEMMA SeqRange ==
    ASSUME NEW S, NEW s \in Seq(S)
    PROVE  /\ \A x \in S : Range(Append(s, x)) = Range(s) \cup {x}
           /\ s # <<>> => Head(s) \in Range(s) /\ Range(Tail(s)) \subseteq Range(s)
<1>1. Len(s) \in Nat /\ DOMAIN s = 1..Len(s)
  BY LenProperties
<1>2. ASSUME NEW x \in S PROVE Range(Append(s, x)) = Range(s) \cup {x}
  <2>1. Append(s, x) \in Seq(S)
    BY AppendProperties
  <2>2. /\ DOMAIN Append(s, x) = 1..(Len(s) + 1)
        /\ \A i \in 1..Len(s) : Append(s, x)[i] = s[i]
        /\ Append(s, x)[Len(s) + 1] = x
    BY <1>1, <2>1, AppendProperties, LenProperties
  <2>3. 1..(Len(s) + 1) = (1..Len(s)) \cup {Len(s) + 1}
    BY <1>1
  <2> QED BY <1>1, <2>2, <2>3 DEF Range
<1>3. ASSUME s # <<>>
      PROVE  Head(s) \in Range(s) /\ Range(Tail(s)) \subseteq Range(s)
  <2>1. Len(s) > 0 /\ Head(s) = s[1]
    BY <1>1, <1>3, EmptySeq, HeadTailProperties
  <2>2. /\ Tail(s) \in Seq(S) /\ Len(Tail(s)) = Len(s) - 1
        /\ \A i \in 1..Len(Tail(s)) : Tail(s)[i] = s[i + 1]
    BY <1>3, HeadTailProperties
  <2>3. DOMAIN Tail(s) = 1..(Len(s) - 1)
    BY <2>2, LenProperties
  <2>4. 1 \in DOMAIN s /\ \A i \in 1..(Len(s) - 1) : i + 1 \in DOMAIN s
    BY <1>1, <2>1
  <2> QED BY <2>1, <2>2, <2>3, <2>4 DEF Range
<1> QED BY <1>2, <1>3

\* What is on the stack was there before, or has been presented in this step.
LEMMA RangeFacts ==
    ASSUME TypeOK
    PROVE  /\ \A x : x \notin Range(<<>>)
           /\ \A x, y : y \in Range(<<x>>) => y = x
           /\ stack # <<>> => \A x \in Range(Front(stack)) : x \in Range(stack)
           /\ \A x \in Screen : Range(Append(stack, x)) = Range(stack) \cup {x}
<1>1. stack \in Seq(Screen) /\ Len(stack) \in Nat /\ DOMAIN stack = 1..Len(stack)
  BY LenProperties DEF TypeOK
<1>2. \A x : x \notin Range(<<>>)
  <2>1. DOMAIN <<>> = {}
    OBVIOUS
  <2> QED BY <2>1, Zenon DEF Range
<1>3. ASSUME NEW x, NEW y, y \in Range(<<x>>) PROVE y = x
  <2>1. PICK i \in DOMAIN <<x>> : y = <<x>>[i]
    BY <1>3, Zenon DEF Range
  <2>2. DOMAIN <<x>> = {1} /\ <<x>>[1] = x
    OBVIOUS
  <2> QED BY <2>1, <2>2, Zenon
<1>4. ASSUME stack # <<>>, NEW x \in Range(Front(stack)) PROVE x \in Range(stack)
  <2>1. /\ Front(stack) \in Seq(Screen) /\ Len(Front(stack)) = Len(stack) - 1
        /\ \A i \in 1..(Len(stack) - 1) : Front(stack)[i] = stack[i]
    BY <1>4, StackTyped
  <2>2. DOMAIN Front(stack) = 1..(Len(stack) - 1)
    BY <2>1, LenProperties
  <2>3. \A i \in 1..(Len(stack) - 1) : i \in DOMAIN stack
    BY <1>1
  <2> QED BY <1>4, <2>1, <2>2, <2>3 DEF Range
<1> QED BY <1>1, <1>2, <1>3, <1>4, SeqRange

\* What presents on the root keeps the places, and presents a menu only when
\* somebody is signed in.
LEMMA RootFacts ==
    ASSUME TypeOK, StackInv, NEW what \in {"signUp", "alert", "menu"},
           PresentOnRoot(what), what = "menu" => user # NoUser,
           UNCHANGED <<requests, user>>
    PROVE  Placed(stack') /\ \A x \in Range(stack') : ScreenRight(x)'
<1>1. New(what) \in Screen /\ New(what).what = what
  BY NewTyped DEF New
<1>2. CASE stack = <<>>
  <2>1. stack' = <<New(what)>>
    BY <1>2 DEF PresentOnRoot
  <2>2. Placed(<<New(what)>>)
    BY <1>1, PlacedFacts DEF StackInv
  <2>3. ASSUME NEW x \in Range(<<New(what)>>) PROVE ScreenRight(x)'
    <3>1. x = New(what)
      BY <2>3, RangeFacts
    <3> QED BY <1>1, <3>1 DEF ScreenRight
  <2> QED BY <2>1, <2>2, <2>3
<1>3. CASE stack # <<>>
  <2>1. stack' = stack
    BY <1>3 DEF PresentOnRoot
  <2> QED BY <2>1 DEF StackInv, ScreenRight
<1> QED BY <1>2, <1>3

\* Every step keeps the screens in their places and for their user.
LEMMA StackStep ==
    ASSUME TypeOK, StackInv, [Next]_vars
    PROVE  StackInv'
<1>1. /\ Placed(stack) /\ SuccessHasUser
      /\ \A x \in Range(stack) : ScreenRight(x)
      /\ mainQ \in Seq(Results) /\ Placed(<<>>)
  BY PlacedFacts DEF StackInv, TypeOK
<1>2. mainQ' = mainQ /\ user' = user => SuccessHasUser'
  BY <1>1 DEF SuccessHasUser
<1>3. mainQ # <<>> /\ mainQ' = Tail(mainQ) /\ user' = user => SuccessHasUser'
  BY <1>1, SeqRange DEF SuccessHasUser
<1>4. ASSUME stack' = <<>> PROVE Placed(stack') /\ \A x \in Range(stack') : ScreenRight(x)'
  BY <1>1, <1>4, RangeFacts
<1>5. ASSUME stack' = stack, UNCHANGED user, requests' \in SUBSET requests
      PROVE  Placed(stack') /\ \A x \in Range(stack') : ScreenRight(x)'
  BY <1>1, <1>5 DEF ScreenRight
<1>6. Top \in {"signIn", "signUp"} => stack = <<>> \/ Front(stack) = <<>>
  <2> SUFFICES ASSUME Top \in {"signIn", "signUp"}, stack # <<>>
               PROVE  Front(stack) = <<>>
    OBVIOUS
  <2>1. /\ Last(stack) = stack[Len(stack)] /\ Front(stack) \in Seq(Screen)
        /\ Len(Front(stack)) = Len(stack) - 1
        /\ Last(stack) \in Screen /\ Len(stack) \in Nat
        /\ DOMAIN stack = 1..Len(stack)
    BY StackTyped, LenProperties DEF TypeOK
  <2>2. stack[Len(stack)].what = "signUp"
    BY <2>1 DEF Top, Screen
  <2>3. Len(stack) # 0
    BY EmptySeq DEF TypeOK
  <2>4. Len(stack) = 1
    BY <1>1, <2>1, <2>2, <2>3 DEF Placed
  <2> QED BY <2>1, <2>4, EmptySeq
<1>7. Top = "signIn" => stack = <<>>
  BY StackTyped DEF Top, Screen
<1>8. Top \in {"signUp", "alert", "screen", "menu"} => stack # <<>>
  BY DEF Top
<1>9. ASSUME NEW e \in Emails, NEW right \in BOOLEAN, LoginButton(e, right)
      PROVE  StackInv'
  <2>1. stack' = <<>>
    BY <1>7, <1>9 DEF LoginButton
  <2> QED BY <1>2, <1>4, <1>9, <2>1 DEF LoginButton, StackInv
<1>10. ASSUME NEW e \in Emails, CreateNewAccountButtonDidTap(e)
       PROVE  StackInv'
  <2>1. stack' = <<>>
    BY <1>6, <1>8, <1>10 DEF CreateNewAccountButtonDidTap
  <2> QED BY <1>2, <1>4, <1>10, <2>1 DEF CreateNewAccountButtonDidTap, StackInv
<1>11. CASE SignUpButtonDidTap
  <2>1. Placed(stack') /\ \A x \in Range(stack') : ScreenRight(x)'
    BY <1>11, RootFacts DEF SignUpButtonDidTap
  <2> QED BY <1>2, <1>11, <2>1 DEF SignUpButtonDidTap, StackInv
<1>12. CASE SceneDidBecomeActive
  <2>1. Placed(stack') /\ \A x \in Range(stack') : ScreenRight(x)'
    BY <1>12, RootFacts DEF SceneDidBecomeActive
  <2> QED BY <1>2, <1>12, <2>1 DEF SceneDidBecomeActive, StackInv
<1>13. CASE RunSignedIn
  <2>1. Head(mainQ) \in Range(mainQ) /\ Head(mainQ).success \in BOOLEAN
    BY <1>1, <1>13, SeqRange, QueueTyped DEF RunSignedIn, Results
  <2>2. CASE Head(mainQ).success
    <3>1. PresentOnRoot("menu") /\ user # NoUser
      BY <1>1, <1>13, <2>1, <2>2 DEF RunSignedIn, SuccessHasUser
    <3> QED BY <1>13, <3>1, <1>3, RootFacts DEF RunSignedIn, StackInv
  <2>3. CASE ~Head(mainQ).success
    <3>1. PresentOnRoot("alert")
      BY <1>13, <2>3 DEF RunSignedIn
    <3> QED BY <1>13, <3>1, <1>3, RootFacts DEF RunSignedIn, StackInv
  <2> QED BY <2>2, <2>3
<1>14. CASE RunCreated
  BY <1>3, <1>5, <1>14 DEF RunCreated, StackInv
<1>15. CASE Dismiss
  <2>1. stack # <<>> /\ stack' = Front(stack) /\ UNCHANGED <<requests, user, mainQ>>
    BY <1>8, <1>15 DEF Dismiss
  <2>2. Placed(stack')
    BY <1>1, <2>1, PlacedFacts
  <2>3. ASSUME NEW x \in Range(stack') PROVE ScreenRight(x)'
    <3>1. ScreenRight(x)
      BY <1>1, <2>1, <2>3, RangeFacts
    <3> QED BY <2>1, <3>1 DEF ScreenRight
  <2> QED BY <1>2, <2>1, <2>2, <2>3 DEF StackInv
<1>16. ASSUME NEW what \in {"alert", "screen"}, stack' = Append(stack, New(what)),
              UNCHANGED <<requests, mainQ, user>>, Placed(stack')
       PROVE  StackInv'
  <2>1. /\ New(what) \in Screen /\ New(what).what = what /\ New(what).for = user
        /\ New(what).early = (requests # {} \/ mainQ # <<>>)
    BY NewTyped DEF New, UnderWay
  <2>2. ASSUME NEW x \in Range(stack') PROVE ScreenRight(x)'
    <3>1. x \in Range(stack) \/ x = New(what)
      BY <1>16, <2>1, <2>2, RangeFacts
    <3>2. ScreenRight(x)
      BY <1>1, <2>1, <3>1 DEF ScreenRight
    <3> QED BY <1>16, <3>2 DEF ScreenRight
  <2> QED BY <1>2, <1>16, <2>2 DEF StackInv
<1>17. CASE InvalidInput
  <2>1. New("alert") \in Screen /\ New("alert").what = "alert"
    BY NewTyped DEF New
  <2>2. Placed(Append(stack, New("alert")))
    BY <1>1, <1>17, <2>1, PlacedFacts DEF InvalidInput
  <2> QED BY <1>16, <1>17, <2>2 DEF InvalidInput
<1>18. CASE DidTapOnMenuButton
  <2>1. New("screen") \in Screen /\ New("screen").what = "screen"
    BY NewTyped DEF New
  <2>2. Placed(Append(stack, New("screen")))
    BY <1>1, <1>18, <2>1, PlacedFacts DEF DidTapOnMenuButton
  <2> QED BY <1>16, <1>18, <2>2 DEF DidTapOnMenuButton
<1>19. ASSUME NEW r \in requests, Answered(r)
       PROVE  StackInv'
  <2>1. r.email \in Emails /\ Succeeds(r) \in BOOLEAN /\ requests # {}
        /\ [kind |-> r.kind, email |-> r.email, success |-> Succeeds(r)] \in Results
    BY DEF TypeOK, Succeeds, Requests, Results
  <2>2. user # NoUser \/ Succeeds(r) => user' # NoUser
    BY <1>19, <2>1, UserAssumption DEF Answered
  <2>3. SuccessHasUser'
    <3>1. \A x \in Range(mainQ') :
             x \in Range(mainQ) \/ x.success = Succeeds(r)
      BY <1>1, <1>19, <2>1, SeqRange DEF Answered, Completed
    <3> QED BY <1>1, <2>1, <2>2, <3>1 DEF SuccessHasUser
  <2>4. ASSUME NEW x \in Range(stack') PROVE ScreenRight(x)'
    <3>1. ScreenRight(x)
      BY <1>1, <1>19, <2>4 DEF Answered
    <3> QED BY <2>1, <2>2, <3>1 DEF ScreenRight
  <2>5. Placed(stack')
    BY <1>1, <1>19 DEF Answered
  <2> QED BY <2>3, <2>4, <2>5 DEF StackInv
<1>20. ASSUME NEW r \in requests, Unanswered(r)
       PROVE  StackInv'
  <2>1. [kind |-> r.kind, email |-> r.email, success |-> FALSE] \in Results
    BY DEF TypeOK, Requests, Results
  <2>2. SuccessHasUser'
    <3>1. \A x \in Range(mainQ') : x \in Range(mainQ) \/ x.success = FALSE
      BY <1>1, <1>20, <2>1, SeqRange DEF Unanswered, Completed
    <3> QED BY <1>1, <1>20, <3>1 DEF SuccessHasUser, Unanswered
  <2> QED BY <1>5, <1>20, <2>2 DEF Unanswered, StackInv
<1>21. CASE Restart
  <2>1. SuccessHasUser'
    BY <1>21, RangeFacts DEF Restart, SuccessHasUser
  <2> QED BY <1>4, <1>21, <2>1 DEF Restart, StackInv
<1>22. CASE UNCHANGED vars
  BY <1>2, <1>5, <1>22 DEF vars, StackInv
<1> QED BY <1>9, <1>10, <1>11, <1>12, <1>13, <1>14, <1>15, <1>17, <1>18, <1>19,
           <1>20, <1>21, <1>22 DEF Next, User

\* The screens are in their places in every reachable state.
LEMMA StackHolds == Spec => []StackInv
<1>1. Init => StackInv
  <2> SUFFICES ASSUME Init PROVE StackInv
    OBVIOUS
  <2>1. TypeOK
    BY BoundAssumption, EmptySeq DEF Init, TypeOK
  <2>2. Placed(<<>>) /\ \A x : x \notin Range(<<>>)
    BY <2>1, RangeFacts DEF Init, Placed
  <2> QED BY <2>2 DEF Init, StackInv, SuccessHasUser
<1> QED BY <1>1, StackStep, TypeCorrect, PTL DEF Spec

\* There is one menu at most, on the root, and only with a user; what the menu
\* opens is directly above it.
THEOREM MenuPlaced == Spec => []MenuInPlace
<1>1. ASSUME TypeOK, StackInv PROVE MenuInPlace
  <2>1. ASSUME NEW i \in DOMAIN stack PROVE ScreenRight(stack[i])
    BY <1>1, <2>1 DEF StackInv, Range
  <2> QED BY <1>1, <2>1 DEF StackInv, Placed, ScreenRight, MenuInPlace
<1> QED BY <1>1, StackHolds, TypeCorrect, PTL

\* A screen acts for the current user unless something was under way at Auth
\* when it was opened.
THEOREM ActForUser == Spec => []ScreensActForUser
<1>1. ASSUME TypeOK, StackInv PROVE ScreensActForUser
  <2>1. ASSUME NEW i \in DOMAIN stack PROVE ScreenRight(stack[i])
    BY <1>1, <2>1 DEF StackInv, Range
  <2> QED BY <1>1, <2>1 DEF ScreenRight, ScreensActForUser
<1> QED BY <1>1, StackHolds, TypeCorrect, PTL

-----------------------------------------------------------------------------
(* Profiles.  OneProfile is not inductive: it needs that a sign-up whose     *)
(* success waits on the main queue is the only one of its email, and that    *)
(* nobody has written the profile before.                                    *)

\* The completion of a sign-up that succeeded.
Created(x) == x.kind = "createUser" /\ x.success

\* A success that is still to be handled is its email's first.
ProfileInv ==
    /\ OneProfile
    /\ \A i \in DOMAIN mainQ : Created(mainQ[i]) =>
          mainQ[i].email \in accounts /\ docs[mainQ[i].email] = 0
    /\ \A i, j \in DOMAIN mainQ :
          Created(mainQ[i]) /\ Created(mainQ[j]) /\ mainQ[i].email = mainQ[j].email
             => i = j

\* Every step keeps at most one profile, and none without its account.
LEMMA ProfileStep ==
    ASSUME TypeOK, ProfileInv, [Next]_vars
    PROVE  ProfileInv'
<1>1. /\ mainQ \in Seq(Results) /\ Len(mainQ) \in Nat
      /\ DOMAIN mainQ = 1..Len(mainQ)
      /\ docs \in [Emails -> Nat] /\ accounts \in SUBSET Emails
  BY LenProperties DEF TypeOK
<1>2. \A i \in DOMAIN mainQ : mainQ[i].email \in Emails
  <2>1. \A i \in DOMAIN mainQ : mainQ[i] \in Results
    BY <1>1, ElementOfSeq
  <2> QED BY <2>1 DEF Results
<1>3. ASSUME UNCHANGED <<mainQ, docs>>, accounts \subseteq accounts'
      PROVE  ProfileInv'
  BY <1>1, <1>2, <1>3 DEF ProfileInv, OneProfile
<1>4. ASSUME NEW x \in Results, mainQ' = Append(mainQ, x), docs' = docs,
             accounts \subseteq accounts',
             Created(x) => x.email \in accounts' \ accounts
      PROVE  ProfileInv'
  <2>1. Append(mainQ, x) \in Seq(Results)
    BY <1>1, AppendProperties
  <2>2. /\ DOMAIN mainQ' = 1..(Len(mainQ) + 1)
        /\ \A i \in 1..Len(mainQ) : mainQ'[i] = mainQ[i]
        /\ mainQ'[Len(mainQ) + 1] = x
    BY <1>1, <1>4, <2>1, AppendProperties, LenProperties
  <2>3. x.email \in Emails
    BY DEF Results
  <2>4. \A i \in DOMAIN mainQ' :
           \/ i \in DOMAIN mainQ /\ mainQ'[i] = mainQ[i]
           \/ i = Len(mainQ) + 1 /\ mainQ'[i] = x
    BY <1>1, <2>2
  <2>5. OneProfile'
    BY <1>1, <1>4 DEF ProfileInv, OneProfile
  <2>6. Created(x) => /\ x.email \in accounts' /\ docs[x.email] = 0
                      /\ \A i \in DOMAIN mainQ :
                            Created(mainQ[i]) => mainQ[i].email # x.email
    BY <1>1, <1>4, <2>3 DEF ProfileInv, OneProfile
  <2>7. ASSUME NEW i \in DOMAIN mainQ', Created(mainQ'[i])
        PROVE  mainQ'[i].email \in accounts' /\ docs'[mainQ'[i].email] = 0
    BY <1>4, <2>4, <2>6, <2>7 DEF ProfileInv
  <2>8. ASSUME NEW i \in DOMAIN mainQ', NEW j \in DOMAIN mainQ',
               Created(mainQ'[i]), Created(mainQ'[j]),
               mainQ'[i].email = mainQ'[j].email
        PROVE  i = j
    <3>1. i \in DOMAIN mainQ /\ j \in DOMAIN mainQ => i = j
      BY <2>4, <2>8 DEF ProfileInv
    <3>2. ~(i \in DOMAIN mainQ /\ mainQ'[i] = mainQ[i] /\ mainQ'[j] = x)
      BY <2>6, <2>8
    <3>3. ~(j \in DOMAIN mainQ /\ mainQ'[j] = mainQ[j] /\ mainQ'[i] = x)
      BY <2>6, <2>8
    <3> QED BY <2>4, <3>1, <3>2, <3>3
  <2> QED BY <2>5, <2>7, <2>8 DEF ProfileInv, Created
<1>5. ASSUME mainQ # <<>>, mainQ' = Tail(mainQ), accounts' = accounts,
             docs' = IF Created(Head(mainQ))
                     THEN [docs EXCEPT ![Head(mainQ).email] = @ + 1] ELSE docs
      PROVE  ProfileInv'
  <2>1. /\ Len(mainQ) > 0 /\ Head(mainQ) = mainQ[1]
        /\ Head(mainQ).email \in Emails
    BY <1>5, QueueTyped DEF Results
  <2>2. /\ Tail(mainQ) \in Seq(Results) /\ Len(Tail(mainQ)) = Len(mainQ) - 1
        /\ \A i \in 1..Len(Tail(mainQ)) : Tail(mainQ)[i] = mainQ[i + 1]
    BY <1>1, <1>5, HeadTailProperties
  <2>3. DOMAIN mainQ' = 1..(Len(mainQ) - 1)
    BY <1>5, <2>2, LenProperties
  <2>4. \A i \in DOMAIN mainQ' : /\ i + 1 \in DOMAIN mainQ /\ i + 1 # 1 /\ i \in Nat
                                 /\ mainQ'[i] = mainQ[i + 1]
    BY <1>1, <1>5, <2>2, <2>3
  <2>5. 1 \in DOMAIN mainQ
    BY <1>1, <2>1
  <2>6. /\ \A e \in Emails : docs'[e] = IF Created(mainQ[1]) /\ e = mainQ[1].email
                                        THEN docs[e] + 1 ELSE docs[e]
    BY <1>1, <1>5, <2>1
  <2>7. Created(mainQ[1]) => docs[mainQ[1].email] = 0 /\ mainQ[1].email \in accounts
    BY <2>5 DEF ProfileInv
  <2>8. OneProfile'
    BY <1>1, <1>5, <2>6, <2>7 DEF ProfileInv, OneProfile
  <2>9. ASSUME NEW i \in DOMAIN mainQ', Created(mainQ'[i])
        PROVE  mainQ'[i].email \in accounts' /\ docs'[mainQ'[i].email] = 0
    <3>1. /\ mainQ'[i].email \in accounts /\ docs[mainQ'[i].email] = 0
          /\ mainQ'[i].email \in Emails
      BY <1>2, <2>4, <2>9 DEF ProfileInv
    <3>2. Created(mainQ[1]) => mainQ'[i].email # mainQ[1].email
      BY <2>4, <2>5, <2>9 DEF ProfileInv
    <3> QED BY <1>5, <2>6, <3>1, <3>2
  <2>10. ASSUME NEW i \in DOMAIN mainQ', NEW j \in DOMAIN mainQ',
                Created(mainQ'[i]), Created(mainQ'[j]),
                mainQ'[i].email = mainQ'[j].email
         PROVE  i = j
    <3>1. i + 1 = j + 1 /\ i \in Nat /\ j \in Nat
      BY <2>4, <2>10 DEF ProfileInv
    <3> QED BY <3>1
  <2> QED BY <2>8, <2>9, <2>10 DEF ProfileInv, Created
<1>6. ASSUME NEW r \in requests, Answered(r)
      PROVE  ProfileInv'
  <2>1. r \in Requests /\ Succeeds(r) \in BOOLEAN
    BY DEF TypeOK, Succeeds, Requests
  <2> DEFINE x == [kind |-> r.kind, email |-> r.email, success |-> Succeeds(r)]
  <2>2. x \in Results /\ mainQ' = Append(mainQ, x) /\ docs' = docs
    BY <1>6, <2>1 DEF Answered, Completed, Requests, Results
  <2>3. accounts \subseteq accounts'
    BY <1>6 DEF Answered
  <2>4. Created(x) => x.email \in accounts' \ accounts
    BY <1>6 DEF Answered, Created, Succeeds
  <2> HIDE DEF x
  <2> QED BY <1>4, <2>2, <2>3, <2>4
<1>7. ASSUME NEW r \in requests, Unanswered(r)
      PROVE  ProfileInv'
  <2> DEFINE x == [kind |-> r.kind, email |-> r.email, success |-> FALSE]
  <2>1. x \in Results /\ mainQ' = Append(mainQ, x) /\ docs' = docs
    BY <1>7 DEF Unanswered, Completed, TypeOK, Requests, Results
  <2>2. accounts \subseteq accounts'
    BY <1>7 DEF Unanswered
  <2>3. ~Created(x)
    BY DEF Created
  <2> HIDE DEF x
  <2> QED BY <1>4, <2>1, <2>2, <2>3
<1>8. CASE RunSignedIn
  <2>1. ~Created(Head(mainQ))
    BY <1>8 DEF RunSignedIn, Created
  <2> QED BY <1>5, <1>8, <2>1 DEF RunSignedIn
<1>9. CASE RunCreated
  <2>1. Created(Head(mainQ)) <=> Head(mainQ).success
    BY <1>9 DEF RunCreated, Created
  <2> QED BY <1>5, <1>9, <2>1 DEF RunCreated
<1>10. CASE Restart
  <2>1. mainQ' = <<>> /\ docs' = docs /\ accounts \subseteq accounts'
    BY <1>10 DEF Restart
  <2>2. OneProfile'
    BY <1>1, <2>1 DEF ProfileInv, OneProfile
  <2>3. DOMAIN mainQ' = {}
    BY <2>1
  <2> QED BY <2>2, <2>3 DEF ProfileInv
<1>11. CASE User \/ SceneDidBecomeActive \/ UNCHANGED vars
  BY <1>3, <1>11 DEF User, LoginButton, CreateNewAccountButtonDidTap,
     SignUpButtonDidTap, InvalidInput, Dismiss, DidTapOnMenuButton,
     SceneDidBecomeActive, vars
<1> QED BY <1>6, <1>7, <1>8, <1>9, <1>10, <1>11 DEF Next

\* However often a sign-up is sent, repeated or cut off, an account has at most
\* one profile and no profile lacks its account.
THEOREM OneProfileEach == Spec => []OneProfile
<1>1. Init => ProfileInv
  <2> SUFFICES ASSUME Init PROVE ProfileInv
    OBVIOUS
  <2>1. DOMAIN mainQ = {}
    BY DEF Init
  <2>2. OneProfile
    BY DEF Init, OneProfile
  <2> QED BY <2>1, <2>2 DEF ProfileInv
<1>2. ProfileInv => OneProfile
  BY DEF ProfileInv
<1> QED BY <1>1, <1>2, ProfileStep, TypeCorrect, PTL DEF Spec
=============================================================================
