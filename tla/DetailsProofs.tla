---------------------------- MODULE DetailsProofs ----------------------------
(***************************************************************************)
(* The FAVORITES button for any screens, names and number of taps.         *)
(***************************************************************************)
EXTENDS Details, SequenceTheorems, TLAPS

-----------------------------------------------------------------------------
(* Queues.                                                                 *)

\* What is in the queue that grows, shrinks or is replaced.
LEMMA QueueFacts ==
    ASSUME NEW S, NEW q \in Seq(S)
    PROVE  /\ \A r \in Seq(S) : /\ q \o r \in Seq(S)
                                /\ Range(q \o r) = Range(q) \cup Range(r)
           /\ \A x \in S : /\ Append(q, x) \in Seq(S)
                           /\ Range(Append(q, x)) = Range(q) \cup {x}
           /\ \A i \in DOMAIN q : q[i] \in S /\ q[i] \in Range(q)
           /\ q # <<>> => /\ Head(q) \in S /\ Head(q) \in Range(q)
                          /\ Tail(q) \in Seq(S) /\ Range(Tail(q)) \subseteq Range(q)
<1>1. Len(q) \in Nat /\ DOMAIN q = 1..Len(q)
  BY LenProperties
<1>2. ASSUME NEW r \in Seq(S)
      PROVE  q \o r \in Seq(S) /\ Range(q \o r) = Range(q) \cup Range(r)
  <2>1. Len(r) \in Nat /\ DOMAIN r = 1..Len(r)
    BY LenProperties
  <2>2. /\ q \o r \in Seq(S) /\ Len(q \o r) = Len(q) + Len(r)
        /\ \A i \in 1..(Len(q) + Len(r)) :
              (q \o r)[i] = IF i <= Len(q) THEN q[i] ELSE r[i - Len(q)]
    BY ConcatProperties
  <2>3. DOMAIN (q \o r) = 1..(Len(q) + Len(r))
    BY <2>2, LenProperties
  <2>4. ASSUME NEW i \in DOMAIN (q \o r)
        PROVE  \/ i \in DOMAIN q /\ (q \o r)[i] = q[i]
               \/ i - Len(q) \in DOMAIN r /\ (q \o r)[i] = r[i - Len(q)]
    BY <1>1, <2>1, <2>2, <2>3
  <2>5. ASSUME NEW i \in DOMAIN q PROVE i \in DOMAIN (q \o r) /\ (q \o r)[i] = q[i]
    BY <1>1, <2>1, <2>2, <2>3
  <2>6. ASSUME NEW i \in DOMAIN r
        PROVE  i + Len(q) \in DOMAIN (q \o r) /\ (q \o r)[i + Len(q)] = r[i]
    BY <1>1, <2>1, <2>2, <2>3
  <2>7. ASSUME NEW y \in Range(q \o r) PROVE y \in Range(q) \cup Range(r)
    BY <2>4, <2>7, Zenon DEF Range
  <2>8. ASSUME NEW y \in Range(q) PROVE y \in Range(q \o r)
    BY <2>5, <2>8, Zenon DEF Range
  <2>9. ASSUME NEW y \in Range(r) PROVE y \in Range(q \o r)
    <3>1. PICK i \in DOMAIN r : y = r[i]
      BY <2>9, Zenon DEF Range
    <3> QED BY <2>6, <3>1, Zenon DEF Range
  <2> QED BY <2>2, <2>7, <2>8, <2>9
<1>3. ASSUME NEW x \in S
      PROVE  Append(q, x) \in Seq(S) /\ Range(Append(q, x)) = Range(q) \cup {x}
  <2>1. Append(q, x) \in Seq(S)
    BY AppendProperties
  <2>2. /\ DOMAIN Append(q, x) = 1..(Len(q) + 1)
        /\ \A i \in 1..Len(q) : Append(q, x)[i] = q[i]
        /\ Append(q, x)[Len(q) + 1] = x
    BY <1>1, <2>1, AppendProperties, LenProperties
  <2>3. 1..(Len(q) + 1) = (1..Len(q)) \cup {Len(q) + 1}
    BY <1>1
  <2> QED BY <1>1, <2>1, <2>2, <2>3 DEF Range
<1>4. ASSUME NEW i \in DOMAIN q PROVE q[i] \in S /\ q[i] \in Range(q)
  BY <1>1, ElementOfSeq DEF Range
<1>5. ASSUME q # <<>>
      PROVE  /\ Head(q) \in S /\ Head(q) \in Range(q)
             /\ Tail(q) \in Seq(S) /\ Range(Tail(q)) \subseteq Range(q)
  <2>1. /\ Len(q) > 0 /\ Head(q) = q[1] /\ Head(q) \in S
        /\ Tail(q) \in Seq(S) /\ Len(Tail(q)) = Len(q) - 1
        /\ \A i \in 1..Len(Tail(q)) : Tail(q)[i] = q[i + 1]
    BY <1>1, <1>5, EmptySeq, HeadTailProperties
  <2>2. DOMAIN Tail(q) = 1..(Len(q) - 1)
    BY <2>1, LenProperties
  <2>3. 1 \in DOMAIN q /\ \A i \in 1..(Len(q) - 1) : i + 1 \in DOMAIN q
    BY <1>1, <2>1
  <2> QED BY <2>1, <2>2, <2>3 DEF Range
<1> QED BY <1>2, <1>3, <1>4, <1>5

\* A queue of one.
LEMMA OneFacts ==
    ASSUME NEW S, NEW x \in S
    PROVE  /\ <<x>> \in Seq(S) /\ Range(<<x>>) = {x} /\ DOMAIN <<x>> = {1}
           /\ <<x>>[1] = x /\ Head(<<x>>) = x /\ Tail(<<x>>) = <<>> /\ <<x>> # <<>>
           /\ RemoveAt(<<x>>, 1) = <<>>
<1>1. /\ <<x>> \in Seq(S) /\ DOMAIN <<x>> = {1} /\ <<x>>[1] = x /\ Head(<<x>>) = x
      /\ Tail(<<x>>) = <<>> /\ <<x>> # <<>> /\ Len(<<x>>) = 1
  OBVIOUS
<1>2. Range(<<x>>) = {x}
  BY <1>1, Zenon DEF Range
<1>3. SubSeq(<<x>>, 1, 0) = <<>> /\ SubSeq(<<x>>, 2, 1) = <<>>
  OBVIOUS
<1>4. RemoveAt(<<x>>, 1) = SubSeq(<<x>>, 1, 0) \o SubSeq(<<x>>, 2, 1)
  BY <1>1 DEF RemoveAt
<1> QED BY <1>1, <1>2, <1>3, <1>4

\* What is left when a closure of the global queue has run.
LEMMA RemovedTyped ==
    ASSUME NEW S, NEW q \in Seq(S), NEW i \in DOMAIN q
    PROVE  RemoveAt(q, i) \in Seq(S)
<1>1. Len(q) \in Nat /\ DOMAIN q = 1..Len(q) /\ \A j \in 1..Len(q) : q[j] \in S
  BY LenProperties, ElementOfSeq
<1>2. i \in Int /\ 1 <= i /\ i <= Len(q)
  BY <1>1
<1>3. /\ \A j \in 1..(i - 1) : q[j] \in S
      /\ \A j \in (i + 1)..Len(q) : q[j] \in S
  BY <1>1, <1>2
<1>4. SubSeq(q, 1, i - 1) \in Seq(S)
  BY <1>2, <1>3, SubSeqProperties
<1>5. SubSeq(q, i + 1, Len(q)) \in Seq(S)
  BY <1>1, <1>2, <1>3, SubSeqProperties
<1> QED BY <1>4, <1>5, ConcatProperties DEF RemoveAt

-----------------------------------------------------------------------------
(* Type correctness.  That no nil name gets into the profile needs that a    *)
(* write on its way is for a verb that has a name.                           *)

WriteKinds == {"add", "delete"}

\* A write on its way was asked for by a tap, on a screen whose verb has a name.
Tapped(q) == q.do \in WriteKinds =>
    verb[q.by] \in Names /\ taps[q.by] > 0 /\ screen[q.by] # "new"

WriteInv == /\ \A q \in Range(waiting) : Tapped(q)
            /\ \A q \in Range(mainQ) : Tapped(q)

TypeInv == TypeOK /\ WriteInv

\* What is asked, for a screen.
LEMMA AskFacts ==
    ASSUME TypeOK, NEW s \in Screens
    PROVE  /\ \A do \in {"load", "add", "delete", "repeat"} :
                 /\ Query(do, s) \in Seq(Queries)
                 /\ Range(Query(do, s)) = {[do |-> do, by |-> s]}
           /\ WriteQuery(s) \in Seq(Queries)
           /\ \A q \in Range(WriteQuery(s)) : q.by = s /\ verb[s] # NoName
           /\ \A qs \in Seq(Queries) : Ask(qs) =>
                 /\ waiting' \in Seq(Queries)
                 /\ Range(waiting') \subseteq Range(waiting) \cup Range(qs)
<1>1. ASSUME NEW do \in {"load", "add", "delete", "repeat"}
      PROVE  /\ Query(do, s) \in Seq(Queries)
             /\ Range(Query(do, s)) = {[do |-> do, by |-> s]}
  <2>1. [do |-> do, by |-> s] \in Queries
    BY DEF Queries
  <2> QED BY <2>1, OneFacts DEF Query
<1>2. /\ WriteQuery(s) \in Seq(Queries)
      /\ \A q \in Range(WriteQuery(s)) : q.by = s /\ verb[s] # NoName
  <2>1. CASE verb[s] = NoName
    <3>1. WriteQuery(s) = <<>> /\ DOMAIN <<>> = {} /\ <<>> \in Seq(Queries)
      BY <2>1 DEF WriteQuery
    <3> QED BY <3>1 DEF Range
  <2>2. CASE verb[s] # NoName
    <3>1. PICK do \in WriteKinds : WriteQuery(s) = Query(do, s)
      BY <2>2 DEF WriteQuery, WriteKinds
    <3>2. /\ WriteQuery(s) \in Seq(Queries)
          /\ Range(WriteQuery(s)) = {[do |-> do, by |-> s]}
      BY <1>1, <3>1 DEF WriteKinds
    <3>3. [do |-> do, by |-> s].by = s
      OBVIOUS
    <3> QED BY <2>2, <3>2, <3>3
  <2> QED BY <2>1, <2>2
<1>3. ASSUME NEW qs \in Seq(Queries), Ask(qs)
      PROVE  /\ waiting' \in Seq(Queries)
             /\ Range(waiting') \subseteq Range(waiting) \cup Range(qs)
  <2>1. waiting \in Seq(Queries) /\ (waiting' = waiting \/ waiting' = waiting \o qs)
    BY <1>3 DEF Ask, TypeOK
  <2>2. /\ waiting \o qs \in Seq(Queries)
        /\ Range(waiting \o qs) = Range(waiting) \cup Range(qs)
    BY <1>3, <2>1, QueueFacts
  <2> QED BY <2>1, <2>2
<1> QED BY <1>1, <1>2, <1>3

\* The closures that an answer schedules are those of the waiting callbacks.
LEMMA AnswersFacts ==
    ASSUME TypeOK
    PROVE  /\ Answers \in Seq(Closures)
           /\ \A q \in Range(Answers) :
                 \E w \in Range(waiting) : q.do = w.do /\ q.by = w.by
<1>1. waiting \in Seq(Queries) /\ Len(waiting) \in Nat
  BY LenProperties DEF TypeOK
<1>2. CASE account # "full"
  <2>1. Answers = <<>> /\ DOMAIN <<>> = {} /\ <<>> \in Seq(Closures)
    BY <1>2 DEF Answers
  <2> QED BY <2>1 DEF Range
<1>3. CASE account = "full"
  <2> DEFINE closure(i) == [do |-> waiting[i].do, by |-> waiting[i].by, doc |-> profile]
             all == [i \in 1..Len(waiting) |-> closure(i)]
  <2>1. \A i \in 1..Len(waiting) : waiting[i] \in Queries /\ i \in DOMAIN waiting
    BY <1>1, ElementOfSeq, LenProperties
  <2>2. \A i \in 1..Len(waiting) : closure(i) \in Closures
    BY <2>1 DEF Queries, Closures, TypeOK
  <2>3. all \in Seq(Closures)
    <3> HIDE DEF closure
    <3> QED BY <1>1, <2>2, IsASeq
  <2>4. ASSUME NEW q \in Range(all)
        PROVE  \E w \in Range(waiting) : q.do = w.do /\ q.by = w.by
    <3>1. PICK i \in 1..Len(waiting) : q = closure(i)
      <4> HIDE DEF closure
      <4> QED BY <2>4 DEF Range
    <3>2. waiting[i] \in Range(waiting)
      BY <2>1 DEF Range
    <3> QED BY <3>1, <3>2
  <2> QED BY <1>3, <2>3, <2>4 DEF Answers
<1> QED BY <1>2, <1>3

\* A closure at the head of the main queue.
LEMMA HeadFacts ==
    ASSUME TypeOK, mainQ # <<>>
    PROVE  /\ Head(mainQ) \in Closures /\ Head(mainQ) \in Range(mainQ)
           /\ Tail(mainQ) \in Seq(Closures) /\ Range(Tail(mainQ)) \subseteq Range(mainQ)
BY QueueFacts DEF TypeOK

\* Every step keeps the types and what a write on its way is known for.
LEMMA TypeStep ==
    ASSUME TypeInv, [Next]_vars
    PROVE  TypeInv'
<1> USE NamesAssumption, BoundAssumption
<1>1. /\ TypeOK /\ mainQ \in Seq(Closures) /\ globalQ \in Seq(Closures)
      /\ \A q \in Range(waiting) : Tapped(q)
      /\ \A q \in Range(mainQ) : Tapped(q)
  BY DEF TypeInv, WriteInv, TypeOK
<1>2. ASSUME NEW q, Tapped(q), UNCHANGED <<verb, taps, screen>> PROVE Tapped(q)'
  BY <1>2 DEF Tapped
<1>3. ASSUME UNCHANGED <<verb, taps, screen>>, Range(waiting') \subseteq Range(waiting),
             Range(mainQ') \subseteq Range(mainQ)
      PROVE  WriteInv'
  BY <1>1, <1>2, <1>3 DEF WriteInv
<1>4. ASSUME NEW s \in Screens, NEW v \in Names \cup {NoName}, Open(s, v)
      PROVE  TypeInv'
  <2>1. /\ Query("load", s) \in Seq(Queries)
        /\ \A q \in Range(Query("load", s)) : q.do = "load"
        /\ Ask(Query("load", s))
    BY <1>1, <1>4, AskFacts DEF Open
  <2>2. /\ waiting' \in Seq(Queries)
        /\ Range(waiting') \subseteq Range(waiting) \cup Range(Query("load", s))
    BY <1>1, <2>1, AskFacts
  <2>3. TypeOK'
    BY <1>1, <1>4, <2>2 DEF Open, TypeOK, Quiet
  <2>4. ASSUME NEW q, Tapped(q) \/ q.do = "load" PROVE Tapped(q)'
    BY <1>1, <1>4, <2>4 DEF Open, Tapped, TypeOK, WriteKinds
  <2> QED BY <1>1, <1>4, <2>1, <2>2, <2>3, <2>4 DEF Open, TypeInv, WriteInv
<1>5. ASSUME NEW s \in Screens, AddToFavorites(s)
      PROVE  TypeInv'
  <2> DEFINE qs == WriteQuery(s) \o Query("repeat", s)
  <2>1. /\ WriteQuery(s) \in Seq(Queries) /\ Query("repeat", s) \in Seq(Queries)
        /\ \A q \in Range(WriteQuery(s)) : q.by = s /\ verb[s] # NoName
        /\ \A q \in Range(Query("repeat", s)) : q.do = "repeat"
    BY <1>1, AskFacts
  <2>2. qs \in Seq(Queries) /\ Range(qs) = Range(WriteQuery(s)) \cup Range(Query("repeat", s))
    BY <2>1, QueueFacts
  <2> HIDE DEF qs
  <2>3. /\ waiting' \in Seq(Queries)
        /\ Range(waiting') \subseteq Range(waiting) \cup Range(qs)
    BY <1>1, <1>5, <2>2, AskFacts DEF AddToFavorites, qs
  <2>4. taps' \in [Screens -> Nat] /\ taps'[s] > 0
        /\ \A t \in Screens : taps[t] > 0 => taps'[t] > 0
    BY <1>1, <1>5 DEF AddToFavorites, TypeOK
  <2>5. TypeOK'
    BY <1>1, <1>5, <2>3, <2>4 DEF AddToFavorites, TypeOK, MayRace, Quiet
  <2>6. UNCHANGED <<screen, verb>> /\ screen[s] # "new" /\ mainQ' = mainQ
    BY <1>5 DEF AddToFavorites
  <2>7. ASSUME NEW q, q \in Queries \cup Closures, Tapped(q) PROVE Tapped(q)'
    <3>1. q.by \in Screens
      BY <2>7 DEF Queries, Closures
    <3> QED BY <2>4, <2>6, <2>7, <3>1 DEF Tapped
  <2>8. ASSUME NEW q \in Range(qs) PROVE Tapped(q)'
    <3>1. CASE q.do \notin WriteKinds
      BY <3>1 DEF Tapped
    <3>2. CASE q.do \in WriteKinds
      <4>1. q.by = s /\ verb[s] # NoName
        BY <2>1, <2>2, <2>8, <3>2 DEF WriteKinds
      <4> QED BY <1>1, <2>4, <2>6, <4>1 DEF Tapped, TypeOK
    <3> QED BY <3>1, <3>2
  <2>9. /\ \A q \in Range(waiting) : q \in Queries
        /\ \A q \in Range(mainQ) : q \in Closures
    BY <1>1, QueueFacts DEF TypeOK, Range
  <2>10. ASSUME NEW q \in Range(waiting) \cup Range(mainQ) PROVE Tapped(q)'
    <3>1. q \in Queries \cup Closures
      BY <2>9, <2>10
    <3>2. Tapped(q)
      BY <1>1, <2>10 DEF TypeInv, WriteInv
    <3> QED BY <2>7, <3>1, <3>2
  <2>11. WriteInv'
    BY <2>3, <2>6, <2>8, <2>10 DEF WriteInv
  <2> QED BY <2>5, <2>11 DEF TypeInv
<1>6. ASSUME NEW s \in Screens, BackButtonDidTap(s)
      PROVE  TypeInv'
  <2>1. TypeOK'
    BY <1>1, <1>6 DEF BackButtonDidTap, TypeOK
  <2>2. ASSUME NEW q, Tapped(q) PROVE Tapped(q)'
    BY <1>1, <1>6, <2>2 DEF BackButtonDidTap, Tapped, TypeOK
  <2> QED BY <1>1, <1>6, <2>1, <2>2 DEF BackButtonDidTap, TypeInv, WriteInv
<1>7. CASE QueryAnswered
  <2>1. /\ mainQ' = mainQ \o Answers /\ waiting' = <<>>
        /\ UNCHANGED <<verb, taps, screen>>
    BY <1>7 DEF QueryAnswered
  <2>2. mainQ' \in Seq(Closures) /\ Range(mainQ') = Range(mainQ) \cup Range(Answers)
    BY <1>1, <2>1, AnswersFacts, QueueFacts
  <2>3. TypeOK'
    BY <1>1, <1>7, <2>1, <2>2, EmptySeq DEF QueryAnswered, TypeOK
  <2>4. ASSUME NEW q \in Range(Answers) PROVE Tapped(q)
    BY <1>1, <2>4, AnswersFacts DEF Tapped
  <2>5. \A q \in Range(waiting') : FALSE
    BY <2>1 DEF Range
  <2> QED BY <1>1, <1>2, <2>1, <2>2, <2>3, <2>4, <2>5 DEF TypeInv, WriteInv
<1>8. CASE QueryFailed
  <2>1. TypeOK' /\ mainQ' = mainQ /\ waiting' = <<>>
    BY <1>1, <1>8, EmptySeq DEF QueryFailed, TypeOK
  <2>2. \A q \in Range(waiting') : FALSE
    BY <2>1 DEF Range
  <2> QED BY <1>3, <1>8, <2>1, <2>2 DEF QueryFailed, TypeInv
<1>9. ASSUME NEW s \in Screens, RunNames(s)
      PROVE  TypeInv'
  <2>1. globalQ' \in Seq(Closures) /\ mainQ' \in Seq(Closures)
        /\ Range(mainQ') \subseteq Range(mainQ)
    BY <1>1, <1>9, HeadFacts, QueueFacts DEF RunNames, Running
  <2>2. TypeOK'
    BY <1>1, <1>9, <2>1 DEF RunNames, TypeOK
  <2> QED BY <1>3, <1>9, <2>1, <2>2 DEF RunNames, TypeInv
<1>10. ASSUME NEW s \in Screens, RunWrite(s)
       PROVE  TypeInv'
  <2>1. /\ mainQ' \in Seq(Closures) /\ Range(mainQ') \subseteq Range(mainQ)
        /\ Tapped(Head(mainQ)) /\ Head(mainQ).do \in WriteKinds /\ Head(mainQ).by = s
    BY <1>1, <1>10, HeadFacts DEF RunWrite, Running, WriteKinds
  <2>2. verb[s] \in Names
    BY <2>1 DEF Tapped
  <2>3. TypeOK'
    BY <1>1, <1>10, <2>1, <2>2 DEF RunWrite, Written, TypeOK
  <2> QED BY <1>3, <1>10, <2>1, <2>3 DEF RunWrite, TypeInv
<1>11. ASSUME NEW s \in Screens, RunColor(s)
       PROVE  TypeInv'
  <2>1. mainQ' \in Seq(Closures) /\ Range(mainQ') \subseteq Range(mainQ)
    BY <1>1, <1>11, HeadFacts DEF RunColor, Running
  <2>2. shown' \in [Screens -> {"white", "project"}]
    BY <1>1, <1>11 DEF RunColor, ColorButton, TypeOK
  <2>3. TypeOK'
    BY <1>1, <1>11, <2>1, <2>2 DEF RunColor, MayRace, TypeOK
  <2> QED BY <1>3, <1>11, <2>1, <2>3 DEF RunColor, TypeInv
<1>12. ASSUME NEW i \in DOMAIN globalQ, StoreNames(i)
       PROVE  TypeInv'
  <2>1. globalQ[i] \in Closures
    BY <1>1, QueueFacts
  <2>2. PICK x \in Closures : mainQ' = Append(mainQ, x) /\ x.do \notin WriteKinds
    <3> DEFINE what == IF globalQ[i].do = "load" THEN "start" ELSE "again"
               x == [do |-> what, by |-> globalQ[i].by, doc |-> {}]
    <3>1. what \in {"start", "again"}
      OBVIOUS
    <3>2. x \in Closures /\ x.do \notin WriteKinds
      BY <2>1, <3>1 DEF Closures, WriteKinds
    <3>3. mainQ' = Append(mainQ, x)
      BY <1>12 DEF StoreNames
    <3> QED BY <3>2, <3>3
  <2>3. mainQ' \in Seq(Closures) /\ Range(mainQ') = Range(mainQ) \cup {x}
    BY <1>1, <2>2, QueueFacts
  <2>4. globalQ' \in Seq(Closures)
    BY <1>1, <1>12, RemovedTyped DEF StoreNames
  <2>5. local' \in [Screens -> SUBSET Names]
    BY <1>1, <1>12, <2>1 DEF StoreNames, TypeOK, Closures
  <2>6. TypeOK'
    BY <1>1, <1>12, <2>3, <2>4, <2>5 DEF StoreNames, MayRace, TypeOK
  <2>7. Tapped(x)
    BY <2>2 DEF Tapped
  <2>8. UNCHANGED <<verb, taps, screen, waiting>>
    BY <1>12 DEF StoreNames
  <2> QED BY <1>1, <1>2, <2>3, <2>6, <2>7, <2>8 DEF TypeInv, WriteInv
<1>13. CASE UNCHANGED vars
  BY <1>1, <1>3, <1>13 DEF vars, TypeOK, TypeInv
<1> QED BY <1>4, <1>5, <1>6, <1>7, <1>8, <1>9, <1>10, <1>11, <1>12, <1>13
        DEF Next, RunMain, RunGlobal

\* In every reachable state each write on its way is known for its tap.
LEMMA TypeHolds == Spec => []TypeInv
<1>1. Init => TypeInv
  <2> SUFFICES ASSUME Init PROVE TypeInv
    OBVIOUS
  <2>1. waiting = <<>> /\ mainQ = <<>> /\ globalQ = <<>>
    BY DEF Init
  <2>2. TypeOK
    <3>1. <<>> \in Seq(Queries) /\ <<>> \in Seq(Closures)
      BY EmptySeq
    <3>2. 0 \in 0..MaxFailures
      BY BoundAssumption
    <3> QED BY <2>1, <3>1, <3>2 DEF Init, TypeOK
  <2>3. \A x : x \notin Range(<<>>)
    BY DEF Range
  <2> QED BY <2>1, <2>2, <2>3 DEF TypeInv, WriteInv
<1> QED BY <1>1, TypeStep, PTL DEF Spec

\* Every reachable state is well typed; above all no nil name is written.
THEOREM TypeCorrect == Spec => []TypeOK
BY TypeHolds, PTL DEF TypeInv

\* A screen writes its own verb only, and only after a tap.
THEOREM OwnVerbOnly == Spec => OnlyOwnVerb
<1>1. TypeInv /\ [Next]_vars => [WritesOwnVerb]_vars
  <2> SUFFICES ASSUME TypeInv, Next PROVE WritesOwnVerb
    OBVIOUS
  <2>1. ASSUME NEW s \in Screens, RunWrite(s) PROVE WritesOwnVerb
    <3>1. mainQ # <<>> /\ Head(mainQ).do \in WriteKinds /\ Head(mainQ).by = s
      BY <2>1 DEF RunWrite, Running, WriteKinds
    <3>2. Tapped(Head(mainQ))
      BY <3>1, HeadFacts DEF TypeInv, WriteInv
    <3>3. taps[s] > 0
      BY <3>1, <3>2 DEF Tapped
    <3> QED BY <2>1, <3>3 DEF RunWrite, Written, WritesOwnVerb
  <2>2. ASSUME UNCHANGED profile PROVE WritesOwnVerb
    BY <2>2 DEF WritesOwnVerb
  <2> QED BY <2>1, <2>2 DEF Next, Open, AddToFavorites, BackButtonDidTap,
         QueryAnswered, QueryFailed, RunMain, RunNames, RunColor, RunGlobal,
         StoreNames
<1> QED BY <1>1, TypeHolds, PTL DEF Spec, OnlyOwnVerb

-----------------------------------------------------------------------------
(* The rounds of a user who waits.  TapsAlternate and RaceNeedsHaste hold    *)
(* only where nothing is under way: the invariant tells in between how far   *)
(* the one round is, and what the copy it carries lacks.                     *)

\* Of this screen something can be said.
Sure(s) == /\ screen[s] = "open" /\ account = "full" /\ verb[s] \in Names
           /\ failures = 0

\* A copy that has the verb, or lacks it, is as old as the number of taps says.
Lags(s, has) == (has <=> verb[s] \in profile) <=> taps[s] % 2 = 0

Closure(do, s, doc) == [do |-> do, by |-> s, doc |-> doc]

Settled(s) == /\ Lags(s, Listed(s))
              /\ taps[s] = 0 \/ taps[s] % 2 = 1 => StarAgrees(s)

\* The questions of a screen, or of a tap, are waiting.
Asked(s) ==
    /\ mainQ = <<>> /\ globalQ = <<>>
    /\ \/ waiting = Query("load", s) /\ taps[s] = 0
       \/ /\ waiting = WriteQuery(s) \o Query("repeat", s) /\ taps[s] > 0
          /\ Sure(s) => ~Lags(s, Listed(s))

\* A tap's write is next.
Writing(s) ==
    /\ waiting = <<>> /\ globalQ = <<>>
    /\ mainQ = <<Closure(IF Listed(s) THEN "delete" ELSE "add", s, profile),
                 Closure("repeat", s, profile)>>
    /\ taps[s] > 0
    /\ Sure(s) => ~Lags(s, Listed(s))

\* A copy is on its way to the screen.
Copying(s) ==
    /\ waiting = <<>>
    /\ \E do \in {"load", "repeat"}, doc \in SUBSET Names :
          /\ do = "load" <=> taps[s] = 0
          /\ \/ mainQ = <<Closure(do, s, doc)>> /\ globalQ = <<>>
             \/ mainQ = <<>> /\ globalQ = <<Closure(do, s, doc)>>
          /\ Sure(s) => Lags(s, verb[s] \in doc)

\* The copy is there, the colour is not.
Coloring(s) ==
    /\ waiting = <<>> /\ globalQ = <<>>
    /\ \E do \in {"start", "again"} :
          /\ do = "start" <=> taps[s] = 0
          /\ mainQ = <<Closure(do, s, {})>>
    /\ Sure(s) => Lags(s, Listed(s))

InRound(s) == Asked(s) \/ Writing(s) \/ Copying(s) \/ Coloring(s)

\* Nothing is under way, or one round of one screen.
Calm == \/ Quiet /\ \A s \in Screens : Sure(s) => Settled(s)
        \/ \E s \in Screens : InRound(s) /\ \A t \in OpenScreens : t = s

RoundInv == /\ \A s, t \in OpenScreens : s = t
            /\ \A s \in Screens : screen[s] = "new" => taps[s] = 0
            /\ fault = "race" => hasty
            /\ hasty \/ Calm

\* One screen is open at most, and a screen is tapped only when it is open.
LEMMA ScreensStep ==
    ASSUME TypeOK, RoundInv, [Next]_vars
    PROVE  /\ \A s, t \in OpenScreens' : s = t
           /\ \A s \in Screens : screen'[s] = "new" => taps'[s] = 0
<1>1. /\ \A s, t \in OpenScreens : s = t
      /\ \A s \in Screens : screen[s] = "new" => taps[s] = 0
      /\ screen \in [Screens -> {"new", "open", "left"}] /\ taps \in [Screens -> Nat]
  BY DEF RoundInv, TypeOK
<1>2. ASSUME NEW s \in Screens, NEW v \in Names \cup {NoName}, Open(s, v)
      PROVE  /\ \A r, t \in OpenScreens' : r = t
             /\ \A r \in Screens : screen'[r] = "new" => taps'[r] = 0
  BY <1>1, <1>2 DEF Open, OpenScreens
<1>3. ASSUME NEW s \in Screens, AddToFavorites(s)
      PROVE  /\ \A r, t \in OpenScreens' : r = t
             /\ \A r \in Screens : screen'[r] = "new" => taps'[r] = 0
  BY <1>1, <1>3 DEF AddToFavorites, OpenScreens
<1>4. ASSUME NEW s \in Screens, BackButtonDidTap(s)
      PROVE  /\ \A r, t \in OpenScreens' : r = t
             /\ \A r \in Screens : screen'[r] = "new" => taps'[r] = 0
  BY <1>1, <1>4 DEF BackButtonDidTap, OpenScreens
<1>5. ASSUME UNCHANGED <<screen, taps>>
      PROVE  /\ \A r, t \in OpenScreens' : r = t
             /\ \A r \in Screens : screen'[r] = "new" => taps'[r] = 0
  BY <1>1, <1>5 DEF OpenScreens
<1> QED BY <1>2, <1>3, <1>4, <1>5 DEF Next, QueryAnswered, QueryFailed, RunMain,
        RunNames, RunWrite, RunColor, RunGlobal, StoreNames, vars

\* The contents of the queues in a round.
LEMMA RoundQueues ==
    ASSUME NEW s \in Screens, NEW doc \in SUBSET Names,
           NEW do \in {"load", "add", "delete", "repeat", "start", "again"}
    PROVE  /\ Closure(do, s, doc) \in Closures
           /\ Closure(do, s, doc).do = do /\ Closure(do, s, doc).by = s
           /\ Closure(do, s, doc).doc = doc
BY DEF Closure, Closures

\* What the queue of questions holds in a round.
LEMMA AskedQueue ==
    ASSUME NEW s \in Screens
    PROVE  /\ Query("load", s) = <<[do |-> "load", by |-> s]>>
           /\ verb[s] = NoName => WriteQuery(s) \o Query("repeat", s)
                                     = <<[do |-> "repeat", by |-> s]>>
           /\ verb[s] # NoName => WriteQuery(s) \o Query("repeat", s)
                 = <<[do |-> IF Listed(s) THEN "delete" ELSE "add", by |-> s],
                     [do |-> "repeat", by |-> s]>>
           /\ WriteQuery(s) \o Query("repeat", s) # Query("load", s)
<1>1. ASSUME NEW x, NEW y PROVE <<x>> \o <<y>> = <<x, y>>
  <2>1. <<x>> \in Seq({x, y}) /\ <<y>> \in Seq({x, y})
    OBVIOUS
  <2>2. /\ <<x, y>> \in Seq({x, y}) /\ Len(<<x, y>>) = 2
        /\ Len(<<x>>) = 1 /\ <<x>>[1] = x
        /\ <<x, y>>[1] = x /\ <<x, y>>[2] = y
    OBVIOUS
  <2>3. /\ Append(<<x>>, y) \in Seq({x, y}) /\ Len(Append(<<x>>, y)) = 2
        /\ Append(<<x>>, y)[1] = x /\ Append(<<x>>, y)[2] = y
    BY <2>1, <2>2, AppendProperties
  <2>4. \A i \in 1..2 : Append(<<x>>, y)[i] = <<x, y>>[i]
    BY <2>2, <2>3
  <2>5. Append(<<x>>, y) = <<x, y>>
    BY <2>2, <2>3, <2>4, SeqEqual
  <2> QED BY <2>1, <2>5, AppendIsConcat
<1>2. ASSUME NEW x PROVE <<>> \o <<x>> = <<x>>
  <2>1. <<x>> \in Seq({x})
    OBVIOUS
  <2> QED BY <2>1, ConcatEmptySeq
<1>3. /\ Query("load", s) = <<[do |-> "load", by |-> s]>>
      /\ verb[s] = NoName => WriteQuery(s) \o Query("repeat", s)
                                = <<[do |-> "repeat", by |-> s]>>
      /\ verb[s] # NoName => WriteQuery(s) \o Query("repeat", s)
            = <<[do |-> IF Listed(s) THEN "delete" ELSE "add", by |-> s],
                [do |-> "repeat", by |-> s]>>
  BY <1>1, <1>2, Zenon DEF Query, WriteQuery
<1>4. ASSUME NEW x, NEW y, NEW z PROVE <<x>> # <<y, z>> /\ (<<x>> = <<y>> => x = y)
  OBVIOUS
<1>5. [do |-> "load", by |-> s] # [do |-> "repeat", by |-> s]
  OBVIOUS
<1>6. WriteQuery(s) \o Query("repeat", s) # Query("load", s)
  BY <1>3, <1>4, <1>5, Zenon
<1> QED BY <1>3, <1>6

\* In a round something is under way.
LEMMA RoundBusy ==
    ASSUME NEW s \in Screens, InRound(s)
    PROVE  ~Quiet
<1>1. \A x, y : <<x>> # <<>> /\ <<x, y>> # <<>>
  OBVIOUS
<1>2. Asked(s) => ~Quiet
  BY <1>1, AskedQueue, Zenon DEF Asked, Quiet
<1>3. Writing(s) => ~Quiet
  BY <1>1, Zenon DEF Writing, Quiet
<1>4. Copying(s) => ~Quiet
  BY <1>1, Zenon DEF Copying, Quiet
<1>5. Coloring(s) => ~Quiet
  BY <1>1, Zenon DEF Coloring, Quiet
<1> QED BY <1>2, <1>3, <1>4, <1>5 DEF InRound

\* An opening or a tap of a user who waits starts a round.
LEMMA RoundStarts ==
    ASSUME TypeOK, RoundInv, ~hasty', ~hasty,
           \/ \E s \in Screens, v \in Names \cup {NoName} : Open(s, v)
           \/ \E s \in Screens : AddToFavorites(s)
    PROVE  Calm' /\ fault' = "none"
<1>1. /\ waiting = <<>> /\ mainQ = <<>> /\ globalQ = <<>> /\ fault = "none"
      /\ UNCHANGED <<mainQ, globalQ, account, failures, profile, local, shown>>
  BY DEF Open, AddToFavorites, Quiet
<1>2. \A s \in Screens : Sure(s) => Settled(s)
  BY <1>1, RoundBusy DEF RoundInv, Calm, Quiet
<1>3. \A s \in Screens : Storing(s) = {}
  BY <1>1 DEF Storing
<1>4. /\ screen \in [Screens -> {"new", "open", "left"}] /\ taps \in [Screens -> Nat]
      /\ verb \in [Screens -> Names \cup {NoName}]
  BY DEF TypeOK
<1>5. CASE account = "signedOut"
  <2>1. waiting' = <<>>
    BY <1>1, <1>5 DEF Open, AddToFavorites, Ask
  <2>2. fault' = "none"
    BY <1>1, <1>3 DEF Open, AddToFavorites, MayRace
  <2> QED BY <1>1, <1>5, <2>1, <2>2 DEF Calm, Quiet, Sure
<1>6. ASSUME account # "signedOut", NEW s \in Screens, NEW v \in Names \cup {NoName},
             Open(s, v)
      PROVE  Calm' /\ fault' = "none"
  <2>1. Query("load", s) \in Seq(Queries)
    BY AskFacts
  <2>2. waiting' = Query("load", s)
    BY <1>1, <1>6, <2>1, ConcatEmptySeq DEF Open, Ask
  <2>3. taps'[s] = 0 /\ \A t \in OpenScreens' : t = s
    BY <1>4, <1>6 DEF Open, OpenScreens, RoundInv
  <2>4. Asked(s)'
    BY <1>1, <2>2, <2>3 DEF Asked, Query
  <2> QED BY <1>1, <1>6, <2>3, <2>4 DEF Calm, InRound, Open
<1>7. ASSUME account # "signedOut", NEW s \in Screens, AddToFavorites(s)
      PROVE  Calm' /\ fault' = "none"
  <2> DEFINE qs == WriteQuery(s) \o Query("repeat", s)
  <2>1. qs \in Seq(Queries)
    BY AskFacts, QueueFacts
  <2>2. waiting' = qs
    BY <1>1, <1>7, <2>1, ConcatEmptySeq DEF AddToFavorites, Ask
  <2>3. qs' = qs
    BY <1>7 DEF AddToFavorites, WriteQuery, Query, Listed
  <2>4. taps'[s] = taps[s] + 1 /\ taps[s] \in Nat
    BY <1>4, <1>7 DEF AddToFavorites
  <2>5. (taps'[s] % 2 = 0 <=> taps[s] % 2 # 0) /\ taps'[s] > 0
    BY <2>4
  <2>6. Sure(s)' => ~Lags(s, Listed(s))'
    <3>1. Sure(s)' => Sure(s) /\ Settled(s)
      BY <1>1, <1>2, <1>7 DEF AddToFavorites, Sure
    <3>2. Lags(s, Listed(s))' <=> ~Lags(s, Listed(s))
      BY <1>1, <1>7, <2>5 DEF AddToFavorites, Lags, Listed
    <3> QED BY <3>1, <3>2 DEF Settled
  <2>7. Asked(s)'
    BY <1>1, <2>2, <2>3, <2>5, <2>6 DEF Asked
  <2>8. \A t \in OpenScreens' : t = s
    BY <1>7 DEF AddToFavorites, OpenScreens, RoundInv
  <2>9. fault' = "none"
    BY <1>3, <1>7 DEF AddToFavorites, MayRace
  <2> QED BY <2>7, <2>8, <2>9 DEF Calm, InRound
<1> QED BY <1>5, <1>6, <1>7

\* What the answer to the questions of a round schedules.
LEMMA AnswerQueue ==
    ASSUME NEW s \in Screens, Asked(s), account = "full"
    PROVE  /\ waiting = Query("load", s) => Answers = <<Closure("load", s, profile)>>
           /\ waiting # Query("load", s) /\ verb[s] = NoName =>
                 Answers = <<Closure("repeat", s, profile)>>
           /\ waiting # Query("load", s) /\ verb[s] # NoName =>
                 Answers = <<Closure(IF Listed(s) THEN "delete" ELSE "add", s, profile),
                             Closure("repeat", s, profile)>>
<1> DEFINE handed(w) == [i \in 1..Len(w) |->
                            [do |-> w[i].do, by |-> w[i].by, doc |-> profile]]
<1>1. Answers = handed(waiting)
  BY DEF Answers
<1>2. ASSUME NEW x PROVE handed(<<x>>) = <<[do |-> x.do, by |-> x.by, doc |-> profile]>>
  OBVIOUS
<1>3. ASSUME NEW x, NEW y
      PROVE  handed(<<x, y>>) = <<[do |-> x.do, by |-> x.by, doc |-> profile],
                                  [do |-> y.do, by |-> y.by, doc |-> profile]>>
  OBVIOUS
<1>4. \A do : [do |-> do, by |-> s].do = do /\ [do |-> do, by |-> s].by = s
  OBVIOUS
<1> HIDE DEF handed
<1>5. CASE waiting = Query("load", s)
  BY <1>1, <1>2, <1>4, <1>5, AskedQueue, Zenon DEF Closure
<1>6. CASE waiting # Query("load", s) /\ verb[s] = NoName
  <2>1. waiting = <<[do |-> "repeat", by |-> s]>>
    BY <1>6, AskedQueue DEF Asked
  <2> QED BY <1>1, <1>2, <1>4, <1>6, <2>1, Zenon DEF Closure
<1>7. CASE waiting # Query("load", s) /\ verb[s] # NoName
  <2> DEFINE do == IF Listed(s) THEN "delete" ELSE "add"
  <2>1. waiting = <<[do |-> do, by |-> s], [do |-> "repeat", by |-> s]>>
    BY <1>7, AskedQueue DEF Asked
  <2> HIDE DEF do
  <2>2. Answers = <<Closure(do, s, profile), Closure("repeat", s, profile)>>
    BY <1>1, <1>3, <1>4, <2>1, Zenon DEF Closure
  <2> QED BY <1>7, <2>2 DEF do
<1> QED BY <1>5, <1>6, <1>7

\* The answer to a user who waits brings the copy on its way, or the write.
LEMMA RoundAnswered ==
    ASSUME TypeOK, NEW s \in Screens, InRound(s), \A t \in OpenScreens : t = s,
           QueryAnswered \/ QueryFailed
    PROVE  Calm'
<1>1. waiting # <<>> /\ waiting' = <<>>
      /\ UNCHANGED <<screen, verb, local, account, profile, taps, globalQ, shown>>
  BY DEF QueryAnswered, QueryFailed
<1>2. Asked(s) /\ mainQ = <<>> /\ globalQ = <<>>
  BY <1>1 DEF InRound, Writing, Copying, Coloring, Asked
<1>3. CASE QueryFailed
  <2>1. mainQ' = <<>> /\ failures' # 0
    BY <1>2, <1>3 DEF QueryFailed, TypeOK
  <2> QED BY <1>1, <1>2, <2>1 DEF Calm, Quiet, Sure
<1>4. CASE QueryAnswered /\ account # "full"
  <2>1. mainQ' = <<>>
    BY <1>2, <1>4, EmptySeq, ConcatEmptySeq DEF QueryAnswered, Answers
  <2> QED BY <1>1, <1>2, <1>4, <2>1 DEF Calm, Quiet, Sure
<1>5. CASE QueryAnswered /\ account = "full"
  <2>1. mainQ' = Answers /\ failures' = failures
    BY <1>2, <1>5, AnswersFacts, ConcatEmptySeq DEF QueryAnswered
  <2>2. profile \in SUBSET Names /\ taps[s] \in Nat /\ \A t \in OpenScreens' : t = s
    BY <1>1 DEF TypeOK, OpenScreens
  <2>3. /\ Sure(s)' <=> Sure(s)
        /\ Lags(s, Listed(s))' <=> Lags(s, Listed(s))
        /\ Listed(s)' <=> Listed(s)
    BY <1>1, <2>1 DEF Sure, Lags, Listed
  <2>4. CASE waiting = Query("load", s) /\ taps[s] = 0
    <3> PICK doc \in SUBSET Names : doc = profile
      BY <2>2
    <3>1. mainQ' = <<Closure("load", s, doc)>>
      BY <1>2, <1>5, <2>1, <2>4, AnswerQueue
    <3>2. Lags(s, verb[s] \in doc)'
      BY <1>1, <2>4 DEF Lags
    <3>3. Copying(s)'
      <4>1. taps'[s] = 0 /\ waiting' = <<>> /\ globalQ' = <<>>
        BY <1>1, <1>2, <2>4
      <4> QED BY <2>2, <3>1, <3>2, <4>1 DEF Copying
    <3> QED BY <2>2, <3>3 DEF Calm, InRound
  <2>5. CASE taps[s] > 0 /\ (Sure(s) => ~Lags(s, Listed(s))) /\ verb[s] = NoName
    <3>1. waiting # Query("load", s)
      BY <1>2, <2>5, AskedQueue DEF Asked
    <3>2. mainQ' = <<Closure("repeat", s, profile)>>
      BY <1>2, <1>5, <2>1, <2>5, <3>1, AnswerQueue
    <3>3. ~Sure(s)'
      BY <2>3, <2>5, NamesAssumption DEF Sure
    <3>4. Copying(s)'
      <4>1. taps'[s] # 0 /\ waiting' = <<>> /\ globalQ' = <<>>
        BY <1>1, <1>2, <2>2, <2>5
      <4> QED BY <2>2, <3>2, <3>3, <4>1 DEF Copying
    <3> QED BY <2>2, <3>4 DEF Calm, InRound
  <2>6. CASE taps[s] > 0 /\ (Sure(s) => ~Lags(s, Listed(s))) /\ verb[s] # NoName
    <3>1. waiting # Query("load", s)
      BY <1>2, <2>6, AskedQueue DEF Asked
    <3>2. mainQ' = <<Closure(IF Listed(s) THEN "delete" ELSE "add", s, profile),
                     Closure("repeat", s, profile)>>
      BY <1>2, <1>5, <2>1, <2>6, <3>1, AnswerQueue
    <3>3. Writing(s)'
      BY <1>1, <1>2, <2>3, <2>6, <3>2 DEF Writing, Closure
    <3> QED BY <2>2, <3>3 DEF Calm, InRound
  <2> QED BY <1>2, <2>4, <2>5, <2>6 DEF Asked
<1> QED BY <1>3, <1>4, <1>5

\* A queue of one or of two, from its head.
LEMMA HeadOfQueue ==
    /\ \A x : Head(<<x>>) = x /\ Tail(<<x>>) = <<>> /\ <<x>> # <<>>
    /\ \A x, y : Head(<<x, y>>) = x /\ Tail(<<x, y>>) = <<y>> /\ <<x, y>> # <<>>
    /\ \A x : Append(<<>>, x) = <<x>>
OBVIOUS

\* A user who waits: the write of a round makes its copy one write old.
LEMMA RoundWrites ==
    ASSUME TypeOK, NEW s \in Screens, InRound(s), \A t \in OpenScreens : t = s,
           NEW r \in Screens, RunWrite(r), fault = "none"
    PROVE  Calm' /\ fault' = "none"
<1>1. /\ mainQ # <<>> /\ Head(mainQ).do \in {"add", "delete"} /\ Head(mainQ).by = r
      /\ mainQ' = Tail(mainQ) /\ profile' = Written(r, Head(mainQ).do)
      /\ UNCHANGED <<screen, verb, shown, local, account, waiting, globalQ, fault,
                     failures, taps>>
  BY DEF RunWrite, Running
<1>2. ASSUME NEW do \in {"load", "repeat", "start", "again"}, NEW doc,
             mainQ = <<Closure(do, s, doc)>>
      PROVE  FALSE
  <2>1. Head(mainQ).do = do
    BY <1>2, HeadOfQueue DEF Closure
  <2> QED BY <1>1, <2>1
<1>3. Writing(s)
  <2>1. ~Asked(s)
    BY <1>1 DEF Asked
  <2>2. ~Copying(s)
    BY <1>1, <1>2 DEF Copying
  <2>3. ~Coloring(s)
    BY <1>2 DEF Coloring
  <2> QED BY <2>1, <2>2, <2>3 DEF InRound
<1> PICK doc \in SUBSET Names : doc = profile
  BY DEF TypeOK
<1>4. /\ Head(mainQ) = Closure(IF Listed(s) THEN "delete" ELSE "add", s, doc)
      /\ mainQ' = <<Closure("repeat", s, doc)>>
      /\ taps[s] > 0 /\ (Sure(s) => ~Lags(s, Listed(s)))
      /\ waiting' = <<>> /\ globalQ' = <<>>
  BY <1>1, <1>3, HeadOfQueue DEF Writing
<1>5. Head(mainQ).do = (IF Listed(s) THEN "delete" ELSE "add") /\ r = s
  BY <1>1, <1>4 DEF Closure
<1>6. verb[s] \in profile' <=> ~Listed(s)
  BY <1>1, <1>5 DEF Written
<1>7. Sure(s)' => Lags(s, verb[s] \in doc)'
  BY <1>1, <1>4, <1>6 DEF Sure, Lags
<1>8. taps'[s] # 0
  BY <1>1, <1>4 DEF TypeOK
<1>9. Copying(s)'
  BY <1>4, <1>7, <1>8 DEF Copying
<1> QED BY <1>1, <1>9 DEF Calm, InRound, OpenScreens

\* The names go on to the global queue.
LEMMA RoundMoves ==
    ASSUME TypeOK, NEW s \in Screens, InRound(s), \A t \in OpenScreens : t = s,
           NEW r \in Screens, RunNames(r), fault = "none"
    PROVE  Calm' /\ fault' = "none"
<1>1. /\ mainQ # <<>> /\ Head(mainQ).do \in {"load", "repeat"}
      /\ mainQ' = Tail(mainQ) /\ globalQ' = Append(globalQ, Head(mainQ))
      /\ UNCHANGED <<screen, verb, shown, local, account, profile, waiting, fault,
                     failures, taps>>
  BY DEF RunNames, Running
<1>2. Copying(s)
  <2>1. ~Asked(s)
    BY <1>1 DEF Asked
  <2>2. ~Writing(s)
    BY <1>1, HeadOfQueue DEF Writing, Closure
  <2>3. ~Coloring(s)
    BY <1>1, HeadOfQueue DEF Coloring, Closure
  <2> QED BY <2>1, <2>2, <2>3 DEF InRound
<1>3. PICK do \in {"load", "repeat"}, doc \in SUBSET Names :
         /\ do = "load" <=> taps[s] = 0
         /\ mainQ = <<Closure(do, s, doc)>> /\ globalQ = <<>> /\ waiting = <<>>
         /\ Sure(s) => Lags(s, verb[s] \in doc)
  BY <1>1, <1>2 DEF Copying
<1>4. mainQ' = <<>> /\ globalQ' = <<Closure(do, s, doc)>> /\ waiting' = <<>>
  BY <1>1, <1>3, HeadOfQueue
<1>5. Sure(s)' => Lags(s, verb[s] \in doc)'
  BY <1>1, <1>3 DEF Sure, Lags
<1>6. Copying(s)'
  BY <1>1, <1>3, <1>4, <1>5 DEF Copying
<1> QED BY <1>1, <1>6 DEF Calm, InRound, OpenScreens

\* The copy is stored, and no other closure stores it at the same time.
LEMMA RoundStores ==
    ASSUME TypeOK, NEW s \in Screens, InRound(s), \A t \in OpenScreens : t = s,
           NEW i \in DOMAIN globalQ, StoreNames(i), fault = "none"
    PROVE  Calm' /\ fault' = "none"
<1>1. globalQ # <<>>
  OBVIOUS
<1>2. Copying(s)
  BY <1>1 DEF InRound, Asked, Writing, Coloring
<1>3. PICK do \in {"load", "repeat"}, doc \in SUBSET Names :
         /\ do = "load" <=> taps[s] = 0
         /\ mainQ = <<>> /\ globalQ = <<Closure(do, s, doc)>> /\ waiting = <<>>
         /\ Sure(s) => Lags(s, verb[s] \in doc)
  BY <1>1, <1>2 DEF Copying
<1> DEFINE c == Closure(do, s, doc)
           next == IF do = "load" THEN "start" ELSE "again"
<1>4. c \in Closures /\ c.do = do /\ c.by = s /\ c.doc = doc
  BY RoundQueues
<1> HIDE DEF c
<1>5. i = 1 /\ globalQ[i] = c /\ RemoveAt(globalQ, i) = <<>> /\ DOMAIN globalQ = {1}
  <2>1. globalQ = <<c>>
    BY <1>3 DEF c
  <2> QED BY <1>4, <2>1, OneFacts
<1>6. /\ local' = [local EXCEPT ![s] = doc]
      /\ mainQ' = <<Closure(next, s, {})>> /\ globalQ' = <<>> /\ waiting' = <<>>
      /\ UNCHANGED <<screen, verb, account, profile, failures, taps>>
  <2>1. mainQ' = Append(mainQ, [do |-> next, by |-> s, doc |-> {}])
    BY <1>4, <1>5 DEF StoreNames
  <2> QED BY <1>3, <1>4, <1>5, <2>1, HeadOfQueue DEF StoreNames, Closure
<1>7. fault' = "none"
  <2>1. Storing(s) = {i}
    BY <1>4, <1>5 DEF Storing
  <2> QED BY <1>4, <1>5, <2>1 DEF StoreNames, MayRace
<1>8. Listed(s)' <=> verb[s] \in doc
  BY <1>6 DEF Listed, TypeOK
<1>9. Sure(s)' => Lags(s, Listed(s))'
  BY <1>3, <1>6, <1>8 DEF Sure, Lags
<1>10. next \in {"start", "again"} /\ (next = "start" <=> taps[s] = 0)
  BY <1>3
<1> HIDE DEF next
<1>11. Coloring(s)'
  BY <1>6, <1>9, <1>10 DEF Coloring
<1> QED BY <1>6, <1>7, <1>11 DEF Calm, InRound, OpenScreens

\* The colour ends the round.
LEMMA RoundEnds ==
    ASSUME TypeOK, NEW s \in Screens, InRound(s), \A t \in OpenScreens : t = s,
           NEW r \in Screens, RunColor(r), fault = "none"
    PROVE  Calm' /\ fault' = "none"
<1>1. /\ mainQ # <<>> /\ Head(mainQ).do \in {"start", "again"} /\ Head(mainQ).by = r
      /\ mainQ' = Tail(mainQ)
      /\ UNCHANGED <<screen, verb, local, account, profile, waiting, globalQ,
                     failures, taps>>
  BY DEF RunColor, Running
<1>2. Coloring(s)
  <2>1. ~Asked(s)
    BY <1>1 DEF Asked
  <2>2. ~Writing(s)
    BY <1>1, HeadOfQueue DEF Writing, Closure
  <2>3. ~Copying(s)
    BY <1>1, HeadOfQueue DEF Copying, Closure
  <2> QED BY <2>1, <2>2, <2>3 DEF InRound
<1>3. PICK do \in {"start", "again"} :
         /\ do = "start" <=> taps[s] = 0
         /\ mainQ = <<Closure(do, s, {})>> /\ waiting = <<>> /\ globalQ = <<>>
         /\ Sure(s) => Lags(s, Listed(s))
  BY <1>2 DEF Coloring
<1>4. Head(mainQ).do = do /\ r = s /\ mainQ' = <<>>
  BY <1>1, <1>3, HeadOfQueue DEF Closure
<1>5. Quiet' /\ fault' = "none"
  <2>1. Storing(r) = {}
    BY <1>3 DEF Storing
  <2> QED BY <1>1, <1>3, <1>4, <2>1 DEF RunColor, MayRace, Quiet
<1>6. Sure(s)' => Settled(s)'
  <2> SUFFICES ASSUME Sure(s)' PROVE Settled(s)'
    OBVIOUS
  <2>1. screen[s] = "open" /\ Lags(s, Listed(s))
    BY <1>1, <1>3 DEF Sure
  <2>2. Lags(s, Listed(s))' /\ taps'[s] = taps[s] /\ (Listed(s)' <=> Listed(s))
    BY <1>1, <2>1 DEF Lags, Listed
  <2>3. shown'[s] = ColorButton(s, do)
    BY <1>4, <2>1 DEF RunColor, TypeOK
  <2>4. shown'[s] = "project" <=> (Listed(s) <=> do = "start")
    BY <2>3 DEF ColorButton
  <2>5. ASSUME taps[s] = 0 \/ taps[s] % 2 = 1 PROVE StarAgrees(s)'
    <3>1. CASE taps[s] = 0
      BY <1>1, <1>3, <2>1, <2>4, <3>1 DEF Lags, StarAgrees
    <3>2. CASE taps[s] % 2 = 1
      BY <1>1, <1>3, <2>1, <2>4, <3>2 DEF Lags, StarAgrees
    <3> QED BY <2>5, <3>1, <3>2
  <2> QED BY <2>2, <2>5 DEF Settled
<1>7. ASSUME NEW t \in Screens, Sure(t)' PROVE t = s
  BY <1>1, <1>7 DEF Sure, OpenScreens
<1> QED BY <1>5, <1>6, <1>7 DEF Calm

\* Leaving the screen changes nothing of its round.
LEMMA RoundLeft ==
    ASSUME TypeOK, Calm, NEW r \in Screens, BackButtonDidTap(r)
    PROVE  Calm' /\ fault' = "none"
<1>1. /\ fault = "none" /\ screen' = [screen EXCEPT ![r] = "left"]
      /\ UNCHANGED <<verb, shown, local, account, profile, waiting, mainQ, globalQ,
                     fault, failures, taps>>
  BY DEF BackButtonDidTap
<1>2. \A s \in Screens : Sure(s)' => Sure(s)
  BY <1>1 DEF Sure, TypeOK
<1>3. \A t \in OpenScreens' : t \in OpenScreens
  BY <1>1 DEF OpenScreens, TypeOK
<1>4. ASSUME Quiet, \A s \in Screens : Sure(s) => Settled(s)
      PROVE  Calm'
  <2>1. \A s \in Screens : Settled(s) => Settled(s)'
    BY <1>1 DEF Settled, Lags, Listed, StarAgrees
  <2> QED BY <1>1, <1>2, <1>4, <2>1 DEF Calm, Quiet
<1>5. ASSUME NEW s \in Screens, InRound(s), \A t \in OpenScreens : t = s
      PROVE  Calm'
  <2>1. /\ Lags(s, Listed(s))' <=> Lags(s, Listed(s))
        /\ \A doc : Lags(s, verb[s] \in doc)' <=> Lags(s, verb[s] \in doc)
        /\ Listed(s)' <=> Listed(s)
        /\ (WriteQuery(s) \o Query("repeat", s))' = WriteQuery(s) \o Query("repeat", s)
        /\ Query("load", s)' = Query("load", s)
    BY <1>1 DEF Lags, Listed, WriteQuery, Query
  <2>2. Asked(s) => Asked(s)'
    BY <1>1, <1>2, <2>1 DEF Asked
  <2>3. Writing(s) => Writing(s)'
    BY <1>1, <1>2, <2>1 DEF Writing, Closure
  <2>4. Copying(s) => Copying(s)'
    BY <1>1, <1>2, <2>1 DEF Copying, Closure
  <2>5. Coloring(s) => Coloring(s)'
    BY <1>1, <1>2, <2>1 DEF Coloring, Closure
  <2> QED BY <1>3, <1>5, <2>2, <2>3, <2>4, <2>5 DEF Calm, InRound
<1> QED BY <1>1, <1>4, <1>5 DEF Calm

\* Every step of a user who waits keeps to the rounds.
LEMMA RoundStep ==
    ASSUME TypeInv, RoundInv, [Next]_vars
    PROVE  RoundInv'
<1>1. /\ \A s, t \in OpenScreens' : s = t
      /\ \A s \in Screens : screen'[s] = "new" => taps'[s] = 0
  BY ScreensStep DEF TypeInv
<1>2. hasty => hasty'
  BY DEF Next, Open, AddToFavorites, BackButtonDidTap, QueryAnswered, QueryFailed,
     RunMain, RunNames, RunWrite, RunColor, RunGlobal, StoreNames, vars
<1>3. ASSUME ~hasty', UNCHANGED vars PROVE Calm' /\ fault' # "race"
  BY <1>2, <1>3 DEF RoundInv, vars, Calm, Quiet, Sure, Settled, Lags, Listed,
     StarAgrees, InRound, Asked, Writing, Copying, Coloring, OpenScreens,
     WriteQuery, Query
<1>4. ASSUME ~hasty', Next PROVE Calm' /\ fault' # "race"
  <2>1. Calm /\ fault = "none" /\ ~hasty /\ TypeOK
    BY <1>2, <1>4 DEF RoundInv, TypeInv, TypeOK
  <2>2. CASE \/ \E s \in Screens, v \in Names \cup {NoName} : Open(s, v)
             \/ \E s \in Screens : AddToFavorites(s)
    BY <1>4, <2>1, <2>2, RoundStarts
  <2>3. CASE \E s \in Screens : BackButtonDidTap(s)
    BY <2>1, <2>3, RoundLeft
  <2>4. CASE QueryAnswered \/ QueryFailed \/ RunMain \/ RunGlobal
    <3>1. ~Quiet
      <4>1. waiting # <<>> \/ mainQ # <<>> \/ \E i \in DOMAIN globalQ : TRUE
        BY <2>4 DEF QueryAnswered, QueryFailed, RunMain, RunNames, RunWrite, RunColor,
           Running, RunGlobal
      <4> QED BY <4>1 DEF Quiet
    <3>2. PICK s \in Screens : InRound(s) /\ \A t \in OpenScreens : t = s
      BY <2>1, <3>1 DEF Calm
    <3>3. CASE QueryAnswered \/ QueryFailed
      <4>1. fault' = fault
        BY <3>3 DEF QueryAnswered, QueryFailed
      <4> QED BY <2>1, <3>2, <3>3, <4>1, RoundAnswered
    <3>4. CASE RunMain
      BY <2>1, <3>2, <3>4, RoundMoves, RoundWrites, RoundEnds DEF RunMain
    <3>5. CASE RunGlobal
      BY <2>1, <3>2, <3>5, RoundStores DEF RunGlobal
    <3> QED BY <2>4, <3>3, <3>4, <3>5
  <2> QED BY <1>4, <2>2, <2>3, <2>4 DEF Next
<1> QED BY <1>1, <1>3, <1>4 DEF RoundInv

\* Whoever waits for every answer sees one round after the other.
LEMMA RoundHolds == Spec => []RoundInv
<1>1. Init => RoundInv
  BY DEF Init, RoundInv, OpenScreens, Calm, Quiet, Sure
<1> QED BY <1>1, RoundStep, TypeHolds, PTL DEF Spec

\* The copy of the names is stored and used at the same time only when the user
\* did not wait.
THEOREM RaceIsHasty == Spec => []RaceNeedsHaste
BY RoundHolds, PTL DEF RoundInv, RaceNeedsHaste

\* For a user who waits the colour is right on entering and after each odd tap,
\* and of two taps one writes.
THEOREM TapsRight == Spec => []TapsAlternate
<1>1. ASSUME TypeOK, RoundInv PROVE TapsAlternate
  <2>1. ASSUME NEW s \in Screens, Trusted(s) PROVE Settled(s)
    <3>1. Quiet /\ ~hasty /\ Sure(s)
      BY <2>1 DEF Trusted, Sure
    <3> QED BY <1>1, <3>1, RoundBusy DEF RoundInv, Calm
  <2>2. OddTapsAgree
    BY <2>1 DEF OddTapsAgree, Settled
  <2>3. CopyLagsOneTap
    BY <2>1 DEF CopyLagsOneTap, Settled, Lags
  <2> QED BY <2>2, <2>3 DEF TapsAlternate
<1> QED BY <1>1, RoundHolds, TypeCorrect, PTL
=============================================================================
