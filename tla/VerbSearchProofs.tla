-------------------------- MODULE VerbSearchProofs --------------------------
(***************************************************************************)
(* What the search of a list keeps, whichever screen the list belongs to,  *)
(* for any dictionary and any texts.                                       *)
(***************************************************************************)
EXTENDS VerbSearch, FiniteSetTheorems, SequenceTheorems, TLAPS

-----------------------------------------------------------------------------
(* Closures of a kind on the main queue.                                   *)

Has(q, kinds) == \E i \in DOMAIN q : q[i] \in kinds

AtMostOne(q, kinds) ==
    \A i, j \in DOMAIN q : q[i] \in kinds /\ q[j] \in kinds => i = j

\* What is scheduled or run changes what the queue has.
LEMMA QueueFacts ==
    ASSUME NEW S, NEW q \in Seq(S), NEW kinds
    PROVE  /\ \A x \in S : /\ Append(q, x) \in Seq(S)
                           /\ Has(Append(q, x), kinds) <=> Has(q, kinds) \/ x \in kinds
                           /\ AtMostOne(q, kinds) /\ ~(Has(q, kinds) /\ x \in kinds)
                                 => AtMostOne(Append(q, x), kinds)
           /\ q # <<>> => /\ Tail(q) \in Seq(S) /\ Head(q) \in S
                          /\ Has(q, kinds) <=> Has(Tail(q), kinds) \/ Head(q) \in kinds
                          /\ AtMostOne(q, kinds) =>
                                /\ AtMostOne(Tail(q), kinds)
                                /\ ~(Has(Tail(q), kinds) /\ Head(q) \in kinds)
<1>1. Len(q) \in Nat /\ DOMAIN q = 1..Len(q)
  BY LenProperties
<1>2. ASSUME NEW x \in S
      PROVE  /\ Append(q, x) \in Seq(S)
             /\ Has(Append(q, x), kinds) <=> Has(q, kinds) \/ x \in kinds
             /\ AtMostOne(q, kinds) /\ ~(Has(q, kinds) /\ x \in kinds)
                   => AtMostOne(Append(q, x), kinds)
  <2>1. Append(q, x) \in Seq(S)
    BY AppendProperties
  <2>2. /\ DOMAIN Append(q, x) = 1..(Len(q) + 1)
        /\ \A i \in 1..Len(q) : Append(q, x)[i] = q[i]
        /\ Append(q, x)[Len(q) + 1] = x
    BY <1>1, <2>1, AppendProperties, LenProperties
  <2>3. /\ Len(q) + 1 \in DOMAIN Append(q, x)
        /\ \A i \in DOMAIN q : i \in DOMAIN Append(q, x)
        /\ \A i \in DOMAIN Append(q, x) :
              \/ i \in DOMAIN q /\ Append(q, x)[i] = q[i]
              \/ i = Len(q) + 1 /\ Append(q, x)[i] = x
    BY <1>1, <2>2
  <2>4. Has(Append(q, x), kinds) <=> Has(q, kinds) \/ x \in kinds
    BY <1>1, <2>2, <2>3 DEF Has
  <2>5. ASSUME AtMostOne(q, kinds), ~(Has(q, kinds) /\ x \in kinds)
        PROVE  AtMostOne(Append(q, x), kinds)
    BY <2>3, <2>5, Zenon DEF AtMostOne, Has
  <2> QED BY <2>1, <2>4, <2>5
<1>3. ASSUME q # <<>>
      PROVE  /\ Tail(q) \in Seq(S) /\ Head(q) \in S
             /\ Has(q, kinds) <=> Has(Tail(q), kinds) \/ Head(q) \in kinds
             /\ AtMostOne(q, kinds) =>
                   /\ AtMostOne(Tail(q), kinds)
                   /\ ~(Has(Tail(q), kinds) /\ Head(q) \in kinds)
  <2>1. /\ Tail(q) \in Seq(S) /\ Head(q) \in S /\ Head(q) = q[1]
        /\ Len(Tail(q)) = Len(q) - 1 /\ Len(q) > 0
        /\ \A i \in 1..Len(Tail(q)) : Tail(q)[i] = q[i + 1]
    BY <1>1, <1>3, EmptySeq, HeadTailProperties
  <2>2. DOMAIN Tail(q) = 1..(Len(q) - 1)
    BY <2>1, LenProperties
  <2>3. /\ 1 \in DOMAIN q
        /\ \A i \in DOMAIN Tail(q) : /\ i \in Int /\ i + 1 \in DOMAIN q /\ i + 1 # 1
                                     /\ Tail(q)[i] = q[i + 1]
        /\ \A i \in DOMAIN q : i = 1 \/ i - 1 \in DOMAIN Tail(q)
    BY <1>1, <2>1, <2>2
  <2>4. \A i \in DOMAIN q : i # 1 => Tail(q)[i - 1] = q[i]
    BY <1>1, <2>3
  <2>5. Has(q, kinds) <=> Has(Tail(q), kinds) \/ Head(q) \in kinds
    BY <2>1, <2>3, <2>4 DEF Has
  <2>6. ASSUME AtMostOne(q, kinds)
        PROVE  AtMostOne(Tail(q), kinds) /\ ~(Has(Tail(q), kinds) /\ Head(q) \in kinds)
    <3>1. ASSUME NEW i \in DOMAIN Tail(q), NEW j \in DOMAIN Tail(q),
                 Tail(q)[i] \in kinds, Tail(q)[j] \in kinds
          PROVE  i = j
      <4>1. i + 1 = j + 1
        BY <2>3, <2>6, <3>1 DEF AtMostOne
      <4> QED BY <2>3, <4>1
    <3>2. ASSUME NEW i \in DOMAIN Tail(q), Tail(q)[i] \in kinds, Head(q) \in kinds
          PROVE  FALSE
      BY <2>1, <2>3, <2>6, <3>2 DEF AtMostOne
    <3> QED BY <3>1, <3>2 DEF AtMostOne, Has
  <2> QED BY <2>1, <2>5, <2>6
<1> QED BY <1>2, <1>3

-----------------------------------------------------------------------------
(* Types.                                                                  *)

\* As many rows as the list has verbs are no more than the dictionary has.
LEMMA RowFacts ==
    /\ Cardinality(Verbs) \in Nat
    /\ \A S \in SUBSET Verbs : Cardinality(S) \in 0..Cardinality(Verbs)
<1>1. Cardinality(Verbs) \in Nat
  BY VerbsAssumption, FS_CardinalityType
<1>2. ASSUME NEW S \in SUBSET Verbs PROVE Cardinality(S) \in 0..Cardinality(Verbs)
  <2>1. IsFiniteSet(S) /\ Cardinality(S) <= Cardinality(Verbs)
    BY VerbsAssumption, FS_Subset
  <2>2. Cardinality(S) \in Nat
    BY <2>1, FS_CardinalityType
  <2> QED BY <1>1, <2>1, <2>2
<1> QED BY <1>1, <1>2

\* What a search may do, given the list that its operation reads.
Searching(source) == \/ SearchUser \/ StartOperation \/ RunReload
                     \/ \E op \in running : FilterList(op, source) \/ StoreResults(op)

\* Every step of a search keeps the types.
LEMMA SearchTyped ==
    ASSUME SearchTypeOK, NEW source \in SUBSET Verbs, Searching(source)
    PROVE  SearchTypeOK'
<1> USE VerbsAssumption, MatchesAssumption, RowFacts
<1>1. \A text \in Texts : Filter(text, source) \in SUBSET Verbs
  BY DEF Filter
<1>2. CASE SearchUser
  BY <1>2 DEF SearchUser, SearchBarShouldBeginEditing, SearchBarCancelButtonClicked,
     TextDidChange, CellForRowAt, BackButtonDidTap, SearchTypeOK, Faults
<1>3. CASE StartOperation
  <2>1. [text |-> queued, phase |-> "reading", found |-> {}] \in Operations
    BY <1>3 DEF StartOperation, SearchTypeOK, Operations
  <2> QED BY <1>3, <2>1 DEF StartOperation, SearchTypeOK
<1>4. CASE RunReload
  <2>1. Shown \in SUBSET Verbs
    BY DEF Shown, SearchTypeOK
  <2>2. rows' \in 0..Cardinality(Verbs)
    BY <1>4, <2>1 DEF RunReload, SearchTypeOK
  <2> QED BY <1>4, <2>2 DEF RunReload, MayRace, SearchTypeOK, Faults
<1>5. ASSUME NEW op \in running, FilterList(op, source)
      PROVE  SearchTypeOK'
  <2>1. op \in Operations
    BY DEF SearchTypeOK
  <2>2. [op EXCEPT !.phase = "storing", !.found = Filter(op.text, source)] \in Operations
    BY <1>1, <2>1 DEF Operations
  <2> QED BY <1>5, <2>2 DEF FilterList, SearchTypeOK, Faults
<1>6. ASSUME NEW op \in running, StoreResults(op)
      PROVE  SearchTypeOK'
  <2>1. op.found \in SUBSET Verbs
    BY DEF SearchTypeOK, Operations
  <2> QED BY <1>6, <2>1 DEF StoreResults, SearchTypeOK
<1> QED BY <1>2, <1>3, <1>4, <1>5, <1>6 DEF Searching

\* So does a new list.
LEMMA ListTyped ==
    ASSUME SearchTypeOK, NEW newList \in SUBSET Verbs, ReplaceList(newList)
    PROVE  SearchTypeOK'
<1>1. rows' \in 0..Cardinality(Verbs)
  BY RowFacts DEF ReplaceList, SearchTypeOK
<1> QED BY <1>1 DEF ReplaceList, MayRace, SearchTypeOK, Faults

\* What a search does to the main queue, whatever else is on it.
LEMMA SearchQueue ==
    ASSUME NEW source, Searching(source)
    PROVE  \/ mainQ' = mainQ \/ mainQ' = Append(mainQ, "reload")
           \/ mainQ # <<>> /\ Head(mainQ) = "reload" /\ mainQ' = Tail(mainQ)
BY DEF Searching, SearchUser, SearchBarShouldBeginEditing,
   SearchBarCancelButtonClicked, TextDidChange, CellForRowAt, BackButtonDidTap,
   StartOperation, RunReload, FilterList, StoreResults

-----------------------------------------------------------------------------
(* Rows and results.                                                       *)

\* ResultsAnswer while an operation is to come or under way: it is that of the
\* text typed last, and what it stores is from the list as it is or as it was
\* before it was loaded.
AnswerInv ==
    /\ queued # None /\ typed # None => queued = typed
    /\ open /\ typed # None /\ queued = None =>
          /\ running = {} => results \in {{}, Filter(typed, list)}
          /\ \A op \in running :
                /\ op.text = typed
                /\ op.phase = "storing" => op.found \in {{}, Filter(typed, list)}

\* A search of the list keeps the rows that were counted and what was found.
LEMMA SearchKeeps ==
    ASSUME SearchTypeOK, ListRowsExist, AnswerInv, Searching(list)
    PROVE  ListRowsExist' /\ AnswerInv' /\ list' = list
<1>1. CASE SearchUser
  BY <1>1, NoneAssumption DEF SearchUser, SearchBarShouldBeginEditing,
     SearchBarCancelButtonClicked, TextDidChange, CellForRowAt, BackButtonDidTap,
     SearchTypeOK, ListRowsExist, AnswerInv
<1>2. CASE StartOperation
  <2> DEFINE op == [text |-> queued, phase |-> "reading", found |-> {}]
  <2>1. op.text = queued /\ op.phase # "storing"
    OBVIOUS
  <2>2. queued # None /\ queued' = None /\ (open => running' = {op})
    BY <1>2 DEF StartOperation
  <2> HIDE DEF op
  <2>3. AnswerInv'
    BY <1>2, <2>1, <2>2 DEF StartOperation, AnswerInv
  <2> QED BY <1>2, <2>3 DEF StartOperation, ListRowsExist
<1>3. CASE RunReload
  BY <1>3 DEF RunReload, Shown, ListRowsExist, AnswerInv
<1>4. ASSUME NEW op \in running, FilterList(op, list)
      PROVE  ListRowsExist' /\ AnswerInv' /\ list' = list
  <2>1. op \in Operations
    BY DEF SearchTypeOK
  <2> DEFINE done == [op EXCEPT !.phase = "storing", !.found = Filter(op.text, list)]
  <2>2. done.text = op.text /\ done.found = Filter(op.text, list)
    BY <2>1 DEF Operations
  <2> HIDE DEF done
  <2>3. running' = running \/ running' = (running \ {op}) \cup {done}
    BY <1>4 DEF FilterList, done
  <2>4. AnswerInv'
    BY <1>4, <2>2, <2>3 DEF FilterList, AnswerInv
  <2> QED BY <1>4, <2>4 DEF FilterList, ListRowsExist
<1>5. ASSUME NEW op \in running, StoreResults(op)
      PROVE  ListRowsExist' /\ AnswerInv' /\ list' = list
  BY <1>5 DEF StoreResults, ListRowsExist, AnswerInv
<1> QED BY <1>1, <1>2, <1>3, <1>4, <1>5 DEF Searching

\* So does the list that arrives while none was there.
LEMMA ListKeeps ==
    ASSUME ListRowsExist, AnswerInv, list = {}, NEW newList, ReplaceList(newList)
    PROVE  ListRowsExist' /\ AnswerInv'
<1>1. \A text : Filter(text, list) = {}
  BY DEF Filter
<1> QED BY <1>1 DEF ReplaceList, ListRowsExist, AnswerInv
=============================================================================
