--------------------------- MODULE AllVerbsProofs ---------------------------
(***************************************************************************)
(* The list of all verbs, for any dictionary that may come and any texts.  *)
(***************************************************************************)
EXTENDS AllVerbs, VerbSearchProofs

\* Every step keeps the types.
LEMMA TypeStep ==
    ASSUME TypeOK, [Next]_vars
    PROVE  TypeOK'
<1>1. /\ SearchTypeOK /\ mainQ \in Seq({"reload", "decode", "setVerbs"})
      /\ \A x \in {"reload", "decode", "setVerbs"} :
            Append(mainQ, x) \in Seq({"reload", "decode", "setVerbs"})
      /\ mainQ # <<>> => /\ Tail(mainQ) \in Seq({"reload", "decode", "setVerbs"})
                         /\ Append(Tail(mainQ), "setVerbs")
                               \in Seq({"reload", "decode", "setVerbs"})
  <2>1. mainQ \in Seq({"reload", "decode", "setVerbs"})
    BY DEF TypeOK
  <2>2. mainQ # <<>> => Tail(mainQ) \in Seq({"reload", "decode", "setVerbs"})
    BY <2>1, QueueFacts
  <2> QED BY <2>1, <2>2, QueueFacts DEF TypeOK
<1>2. ASSUME Searching(list), UNCHANGED download
      PROVE  TypeOK'
  <2>1. list \in SUBSET Verbs
    BY <1>1 DEF SearchTypeOK
  <2>2. SearchTypeOK'
    BY <1>1, <1>2, <2>1, SearchTyped
  <2>3. mainQ' \in Seq({"reload", "decode", "setVerbs"})
    BY <1>1, <1>2, SearchQueue
  <2> QED BY <1>2, <2>2, <2>3 DEF TypeOK
<1>3. CASE StorageReply
  BY <1>1, <1>3 DEF StorageReply, TypeOK, SearchTypeOK
<1>4. CASE StorageFailed
  BY <1>1, <1>4 DEF StorageFailed, TypeOK, SearchTypeOK, searchVars
<1>5. CASE RunDecode
  BY <1>1, <1>5 DEF RunDecode, TypeOK, SearchTypeOK
<1>6. CASE RunSetVerbs
  <2>1. PICK d \in Dictionaries : ReplaceList(d)
    BY <1>6 DEF RunSetVerbs
  <2>2. SearchTypeOK'
    BY <1>1, <2>1, ListTyped, DictionariesAssumption
  <2>3. mainQ' \in Seq({"reload", "decode", "setVerbs"})
    BY <1>1, <1>6, <2>1 DEF RunSetVerbs, ReplaceList
  <2> QED BY <1>6, <2>2, <2>3 DEF RunSetVerbs, TypeOK
<1>7. CASE UNCHANGED vars
  BY <1>1, <1>7 DEF vars, searchVars, TypeOK, SearchTypeOK
<1> QED BY <1>2, <1>3, <1>4, <1>5, <1>6, <1>7 DEF Next, RunOperation, Searching

\* Every reachable state of the screen is well typed: no more rows are counted
\* than the dictionary has verbs.
THEOREM TypeCorrect == Spec => []TypeOK
<1>1. Init => TypeOK
  <2>1. Cardinality(Verbs) \in Nat /\ 0 \in 0..Cardinality(Verbs)
    BY RowFacts
  <2>2. <<>> \in Seq({"reload", "decode", "setVerbs"})
    BY EmptySeq
  <2> QED BY <2>1, <2>2 DEF Init, SearchInit, TypeOK, SearchTypeOK, Faults
<1> QED BY <1>1, TypeStep, PTL DEF Spec

-----------------------------------------------------------------------------
(* ListRowsExist and ResultsAnswer rest on the list being replaced once.     *)

Loading == {"decode", "setVerbs"}

\* The download has one outcome, and the list is empty until its closure runs.
LoadInv ==
    /\ AtMostOne(mainQ, Loading)
    /\ download = "asked" => ~Has(mainQ, Loading)
    /\ download = "asked" \/ Has(mainQ, Loading) => list = {}

SearchInv == LoadInv /\ ListRowsExist /\ AnswerInv

\* Every step keeps the rows that were counted and what was found.
LEMMA SearchStep ==
    ASSUME TypeOK, SearchInv, [Next]_vars
    PROVE  SearchInv'
<1>1. /\ SearchTypeOK /\ ListRowsExist /\ AnswerInv /\ LoadInv
      /\ mainQ \in Seq({"reload", "decode", "setVerbs"})
  BY DEF TypeOK, SearchInv
<1>2. ASSUME mainQ # <<>>
      PROVE  /\ Has(mainQ, Loading) <=> Has(Tail(mainQ), Loading) \/ Head(mainQ) \in Loading
             /\ AtMostOne(Tail(mainQ), Loading)
             /\ ~(Has(Tail(mainQ), Loading) /\ Head(mainQ) \in Loading)
             /\ Tail(mainQ) \in Seq({"reload", "decode", "setVerbs"})
  BY <1>1, <1>2, QueueFacts DEF LoadInv
<1>3. /\ Has(Append(mainQ, "decode"), Loading)
      /\ ~Has(mainQ, Loading) => AtMostOne(Append(mainQ, "decode"), Loading)
      /\ Has(Append(mainQ, "reload"), Loading) <=> Has(mainQ, Loading)
      /\ AtMostOne(Append(mainQ, "reload"), Loading)
  BY <1>1, QueueFacts DEF Loading, LoadInv
<1>4. ASSUME Searching(list), UNCHANGED download
      PROVE  SearchInv'
  <2>1. ListRowsExist' /\ AnswerInv' /\ list' = list
    BY <1>1, <1>4, SearchKeeps
  <2>2. /\ AtMostOne(mainQ', Loading)
        /\ Has(mainQ', Loading) => Has(mainQ, Loading)
    BY <1>1, <1>2, <1>3, <1>4, SearchQueue DEF LoadInv
  <2> QED BY <1>1, <1>4, <2>1, <2>2 DEF LoadInv, SearchInv
<1>5. ASSUME UNCHANGED <<open, searching, list, results, rows, typed, queued, running>>
      PROVE  ListRowsExist' /\ AnswerInv'
  BY <1>1, <1>5 DEF ListRowsExist, AnswerInv
<1>6. CASE StorageReply
  <2>1. LoadInv'
    BY <1>1, <1>3, <1>6 DEF StorageReply, LoadInv
  <2> QED BY <1>5, <1>6, <2>1 DEF StorageReply, SearchInv
<1>7. CASE StorageFailed
  <2>1. LoadInv'
    BY <1>1, <1>7 DEF StorageFailed, LoadInv, searchVars
  <2> QED BY <1>5, <1>7, <2>1 DEF StorageFailed, SearchInv, searchVars
<1>8. CASE RunDecode
  <2>1. /\ mainQ # <<>> /\ Head(mainQ) \in Loading /\ ~Has(Tail(mainQ), Loading)
    BY <1>2, <1>8 DEF RunDecode, Loading
  <2>2. AtMostOne(Append(Tail(mainQ), "setVerbs"), Loading)
    <3> DEFINE q == Tail(mainQ)
    <3>1. q \in Seq({"reload", "decode", "setVerbs"}) /\ AtMostOne(q, Loading)
      BY <1>2, <2>1
    <3>2. ~Has(q, Loading)
      BY <2>1
    <3> HIDE DEF q
    <3>3. AtMostOne(Append(q, "setVerbs"), Loading)
      BY <3>1, <3>2, QueueFacts
    <3> QED BY <3>3 DEF q
  <2>3. LoadInv'
    BY <1>1, <1>2, <1>8, <2>1, <2>2 DEF RunDecode, LoadInv
  <2> QED BY <1>5, <1>8, <2>3 DEF RunDecode, SearchInv
<1>9. CASE RunSetVerbs
  <2>1. PICK d \in Dictionaries : ReplaceList(d)
    BY <1>9 DEF RunSetVerbs
  <2>2. /\ mainQ # <<>> /\ Head(mainQ) \in Loading /\ ~Has(Tail(mainQ), Loading)
    BY <1>2, <1>9 DEF RunSetVerbs, Loading
  <2>3. list = {} /\ download # "asked"
    BY <1>1, <1>2, <2>2 DEF LoadInv
  <2>4. ListRowsExist' /\ AnswerInv'
    BY <1>1, <2>1, <2>3, ListKeeps
  <2>5. mainQ' = Tail(mainQ) /\ download' = download
    BY <1>9, <2>1 DEF RunSetVerbs, ReplaceList
  <2>6. LoadInv'
    BY <1>2, <2>2, <2>3, <2>5 DEF LoadInv
  <2> QED BY <2>4, <2>6 DEF SearchInv
<1>10. CASE UNCHANGED vars
  BY <1>1, <1>5, <1>10 DEF vars, searchVars, LoadInv, SearchInv
<1> QED BY <1>4, <1>6, <1>7, <1>8, <1>9, <1>10 DEF Next, RunOperation, Searching

\* The rows and the results are right in every reachable state.
LEMMA SearchHolds == Spec => []SearchInv
<1>1. Init => SearchInv
  <2> SUFFICES ASSUME Init PROVE SearchInv
    OBVIOUS
  <2>1. DOMAIN mainQ = {} /\ Cardinality({}) = 0
    BY FS_EmptySet DEF Init, SearchInit
  <2>2. LoadInv
    BY <2>1 DEF Init, SearchInit, LoadInv, Has, AtMostOne
  <2> QED BY <2>1, <2>2 DEF Init, SearchInit, SearchInv, ListRowsExist, AnswerInv
<1> QED BY <1>1, SearchStep, TypeCorrect, PTL DEF Spec

\* Without a search each row that was counted is in the list.
THEOREM RowsExist == Spec => []ListRowsExist
BY SearchHolds, PTL DEF SearchInv

\* When no operation is left, the results answer the text typed last.
THEOREM ResultsCorrect == Spec => []ResultsAnswer
<1>1. SearchInv => ResultsAnswer
  BY DEF SearchInv, AnswerInv, ResultsAnswer, Idle
<1> QED BY <1>1, SearchHolds, PTL
=============================================================================
