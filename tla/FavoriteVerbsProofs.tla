------------------------ MODULE FavoriteVerbsProofs ------------------------
(***************************************************************************)
(* The list of the favourite verbs, for any dictionary, any profile and    *)
(* any number of changes of the profile meanwhile.                         *)
(***************************************************************************)
EXTENDS FavoriteVerbs, VerbSearchProofs

Closures == {"reload", "decode", "setVerbs", "documents", "setFavorites"}

-----------------------------------------------------------------------------
(* Types.                                                                   *)

\* The queue grows by any closure and shrinks.
LEMMA ClosuresTyped ==
    ASSUME TypeOK
    PROVE  /\ \A x \in Closures : Append(mainQ, x) \in Seq(Closures)
           /\ mainQ # <<>> => /\ Tail(mainQ) \in Seq(Closures)
                              /\ Append(Tail(mainQ), "setVerbs") \in Seq(Closures)
                              /\ Append(Tail(mainQ), "setFavorites") \in Seq(Closures)
<1>1. mainQ \in Seq(Closures) /\ {"setVerbs", "setFavorites"} \subseteq Closures
  BY DEF TypeOK, Closures
<1>2. mainQ # <<>> => Tail(mainQ) \in Seq(Closures)
  BY <1>1, QueueFacts
<1> QED BY <1>1, <1>2, QueueFacts

\* Every step keeps the types.
LEMMA TypeStep ==
    ASSUME TypeOK, [Next]_vars
    PROVE  TypeOK'
<1>1. /\ SearchTypeOK /\ mainQ \in Seq(Closures)
      /\ \A x \in Closures : Append(mainQ, x) \in Seq(Closures)
      /\ mainQ # <<>> => /\ Tail(mainQ) \in Seq(Closures)
                         /\ Append(Tail(mainQ), "setVerbs") \in Seq(Closures)
                         /\ Append(Tail(mainQ), "setFavorites") \in Seq(Closures)
      /\ list \in SUBSET Verbs
  BY ClosuresTyped DEF TypeOK, SearchTypeOK, Closures
<1>2. ASSUME Searching(list), UNCHANGED loadVars
      PROVE  TypeOK'
  <2>1. SearchTypeOK'
    BY <1>1, <1>2, SearchTyped
  <2>2. mainQ' \in Seq(Closures)
    BY <1>1, <1>2, SearchQueue DEF Closures
  <2> QED BY <1>2, <2>1, <2>2 DEF loadVars, TypeOK, Closures
<1>3. ASSUME UNCHANGED <<open, searching, list, results, rows, typed, queued, running, fault>>
      PROVE  SearchTypeOK'
  BY <1>1, <1>3 DEF SearchTypeOK
<1>4. ASSUME NEW n \in Names, ToggleElsewhere(n)
      PROVE  TypeOK'
  <2>1. toggles' \in 0..MaxToggles
    BY <1>4, NamesAssumption DEF ToggleElsewhere, TypeOK, Closures
  <2> QED BY <1>3, <1>4, <2>1 DEF ToggleElsewhere, searchVars, TypeOK, Closures
<1>5. CASE StorageReply
  BY <1>1, <1>3, <1>5 DEF StorageReply, TypeOK, Closures
<1>6. CASE StorageFailed
  BY <1>3, <1>6 DEF StorageFailed, searchVars, TypeOK, Closures
<1>7. CASE RunDecode
  BY <1>1, <1>3, <1>7 DEF RunDecode, loadVars, TypeOK, Closures
<1>8. CASE RunSetVerbs
  BY <1>1, <1>3, <1>8 DEF RunSetVerbs, TypeOK, Closures
<1>9. CASE QueryAnswered
  BY <1>1, <1>3, <1>9 DEF QueryAnswered, TypeOK, Closures
<1>10. CASE QueryFailed
  BY <1>3, <1>10 DEF QueryFailed, searchVars, TypeOK, Closures
<1>11. CASE RunSetFavorites
  <2>1. FilterByFavorite(answer) \in SUBSET Verbs
    BY DEF FilterByFavorite, TypeOK
  <2>2. SearchTypeOK'
    BY <1>1, <1>11, <2>1, ListTyped DEF RunSetFavorites
  <2>3. mainQ' \in Seq(Closures)
    BY <1>1, <1>11 DEF RunSetFavorites, ReplaceList
  <2> QED BY <1>11, <2>2, <2>3 DEF RunSetFavorites, TypeOK, Closures
<1>12. CASE RunDocuments
  <2>1. mainQ' \in Seq(Closures)
    BY <1>1, <1>12 DEF RunDocuments
  <2> QED BY <1>3, <1>12, <2>1 DEF RunDocuments, loadVars, TypeOK, Closures
<1>13. CASE UNCHANGED vars
  BY <1>3, <1>13 DEF vars, searchVars, loadVars, TypeOK, Closures
<1> QED BY <1>2, <1>4, <1>5, <1>6, <1>7, <1>8, <1>9, <1>10, <1>11, <1>12, <1>13
        DEF Next, RunMain, RunOperation, Searching

\* Every reachable state of the screen is well typed: the table never counts
\* more rows than there are verbs.
THEOREM TypeCorrect == Spec => []TypeOK
<1>1. Init => TypeOK
  <2>1. 0 \in 0..Cardinality(Verbs) /\ 0 \in 0..MaxToggles
    BY RowFacts, NamesAssumption
  <2>2. <<>> \in Seq(Closures)
    BY EmptySeq
  <2> QED BY <2>1, <2>2 DEF Init, SearchInit, TypeOK, SearchTypeOK, Faults, Closures
<1> QED BY <1>1, TypeStep, PTL DEF Spec

-----------------------------------------------------------------------------
(* The list.  ListIsFavorites rests on the order that the code imposes: the  *)
(* profile is asked only when the dictionary is there, and once.             *)

Loading == {"decode", "setVerbs"}
Favorites == {"documents", "setFavorites"}

ListInv ==
    /\ ListIsFavorites
    /\ AtMostOne(mainQ, Loading)
    /\ download = "asked" => ~Has(mainQ, Loading)
    /\ download = "asked" \/ Has(mainQ, Loading) => query = "none"
    /\ query # "answered" =>
          favoritesVerbs = {} /\ list = {} /\ ~Has(mainQ, Favorites)

\* Every step keeps the list what the names say.
LEMMA ListStep ==
    ASSUME TypeOK, ListInv, [Next]_vars
    PROVE  ListInv'
<1>1. mainQ \in Seq(Closures) /\ ListInv
  BY DEF TypeOK, Closures
<1>2. ASSUME mainQ # <<>>
      PROVE  /\ Has(mainQ, Loading) <=> Has(Tail(mainQ), Loading) \/ Head(mainQ) \in Loading
             /\ AtMostOne(Tail(mainQ), Loading)
             /\ ~(Has(Tail(mainQ), Loading) /\ Head(mainQ) \in Loading)
             /\ Has(mainQ, Favorites)
                   <=> Has(Tail(mainQ), Favorites) \/ Head(mainQ) \in Favorites
             /\ Tail(mainQ) \in Seq(Closures)
  BY <1>1, <1>2, QueueFacts DEF ListInv
<1>3. ASSUME NEW q \in Seq(Closures), NEW x \in Closures
      PROVE  /\ Has(Append(q, x), Loading) <=> Has(q, Loading) \/ x \in Loading
             /\ AtMostOne(q, Loading) /\ ~(Has(q, Loading) /\ x \in Loading)
                   => AtMostOne(Append(q, x), Loading)
             /\ Has(Append(q, x), Favorites) <=> Has(q, Favorites) \/ x \in Favorites
  BY <1>3, QueueFacts
<1>4. /\ "decode" \in Closures \cap Loading /\ "decode" \notin Favorites
      /\ "setVerbs" \in Closures \cap Loading /\ "setVerbs" \notin Favorites
      /\ "documents" \in Closures \cap Favorites /\ "documents" \notin Loading
      /\ "setFavorites" \in Closures \cap Favorites /\ "setFavorites" \notin Loading
      /\ "reload" \in Closures /\ "reload" \notin Loading /\ "reload" \notin Favorites
  BY DEF Closures, Loading, Favorites
<1>5. ListInv <=> /\ ListIsFavorites
                  /\ AtMostOne(mainQ, Loading)
                  /\ download = "asked" => ~Has(mainQ, Loading)
                  /\ download = "asked" \/ Has(mainQ, Loading) => query = "none"
                  /\ query # "answered" =>
                        favoritesVerbs = {} /\ list = {} /\ ~Has(mainQ, Favorites)
  BY DEF ListInv
<1>6. /\ ListIsFavorites'
      /\ AtMostOne(mainQ', Loading)
      /\ download' = "asked" => ~Has(mainQ', Loading)
      /\ download' = "asked" \/ Has(mainQ', Loading) => query' = "none"
      /\ query' # "answered" =>
            favoritesVerbs' = {} /\ list' = {} /\ ~Has(mainQ', Favorites)
      => ListInv'
  BY DEF ListInv
<1>7. UNCHANGED <<list, favoritesVerbs, allVerbs>> => ListIsFavorites'
  BY <1>1 DEF ListInv, ListIsFavorites, FilterByFavorite
<1>8. ASSUME Searching(list), UNCHANGED loadVars
      PROVE  ListInv'
  <2>1. list' = list
    BY <1>8 DEF Searching, SearchUser, SearchBarShouldBeginEditing,
       SearchBarCancelButtonClicked, TextDidChange, CellForRowAt, BackButtonDidTap,
       StartOperation, RunReload, FilterList, StoreResults
  <2>2. /\ AtMostOne(mainQ', Loading)
        /\ Has(mainQ', Loading) => Has(mainQ, Loading)
        /\ Has(mainQ', Favorites) => Has(mainQ, Favorites)
    <3>1. CASE mainQ' = mainQ
      BY <1>1, <1>5, <3>1
    <3>2. CASE mainQ' = Append(mainQ, "reload")
      BY <1>1, <1>3, <1>4, <1>5, <3>2
    <3>3. CASE mainQ # <<>> /\ mainQ' = Tail(mainQ)
      BY <1>2, <3>3
    <3> QED BY <1>8, <3>1, <3>2, <3>3, SearchQueue
  <2> QED BY <1>1, <1>5, <1>6, <1>7, <1>8, <2>1, <2>2 DEF loadVars
<1>9. ASSUME NEW n \in Names, ToggleElsewhere(n)
      PROVE  ListInv'
  BY <1>1, <1>5, <1>6, <1>7, <1>9 DEF ToggleElsewhere, searchVars
<1>10. CASE StorageReply
  <2>1. /\ AtMostOne(mainQ', Loading)
        /\ Has(mainQ', Favorites) => Has(mainQ, Favorites)
    BY <1>1, <1>3, <1>4, <1>5, <1>10 DEF StorageReply
  <2> QED BY <1>1, <1>5, <1>6, <1>7, <1>10, <2>1 DEF StorageReply
<1>11. CASE StorageFailed
  BY <1>1, <1>5, <1>6, <1>7, <1>11 DEF StorageFailed, searchVars
<1>12. CASE RunDecode
  <2>1. mainQ # <<>> /\ Head(mainQ) \in Loading
    BY <1>4, <1>12 DEF RunDecode
  <2>2. /\ AtMostOne(mainQ', Loading)
        /\ Has(mainQ', Favorites) => Has(mainQ, Favorites)
    <3>1. CASE mainQ' = Tail(mainQ)
      BY <1>2, <2>1, <3>1
    <3>2. CASE mainQ' = Append(Tail(mainQ), "setVerbs")
      BY <1>2, <1>3, <1>4, <2>1, <3>2
    <3> QED BY <1>12, <3>1, <3>2 DEF RunDecode
  <2>3. query = "none" /\ download # "asked"
    BY <1>1, <1>2, <1>5, <2>1
  <2> QED BY <1>1, <1>5, <1>6, <1>7, <1>12, <2>2, <2>3 DEF RunDecode, loadVars
<1>13. CASE RunSetVerbs
  <2>1. mainQ # <<>> /\ Head(mainQ) \in Loading /\ mainQ' = Tail(mainQ)
    BY <1>4, <1>13 DEF RunSetVerbs
  <2>2. /\ query = "none" /\ download # "asked" /\ favoritesVerbs = {} /\ list = {}
        /\ ~Has(mainQ, Favorites)
    BY <1>1, <1>2, <1>5, <2>1
  <2>3. /\ AtMostOne(mainQ', Loading) /\ ~Has(mainQ', Loading)
        /\ ~Has(mainQ', Favorites)
    BY <1>2, <2>1, <2>2
  <2>4. favoritesVerbs' = {} /\ list' = {} /\ download' # "asked"
    BY <1>13, <2>2 DEF RunSetVerbs
  <2>5. ListIsFavorites'
    BY <2>4 DEF ListIsFavorites, FilterByFavorite
  <2> QED BY <1>6, <2>3, <2>4, <2>5
<1>14. CASE QueryAnswered
  <2>1. query = "asked" /\ query' = "answered"
    BY <1>14 DEF QueryAnswered
  <2>2. download # "asked" /\ ~Has(mainQ, Loading)
    BY <1>1, <1>5, <2>1
  <2>3. AtMostOne(mainQ', Loading) /\ ~Has(mainQ', Loading)
    BY <1>1, <1>3, <1>4, <1>5, <1>14, <2>2 DEF QueryAnswered
  <2> QED BY <1>6, <1>7, <1>14, <2>1, <2>2, <2>3 DEF QueryAnswered
<1>15. CASE QueryFailed
  BY <1>1, <1>5, <1>6, <1>7, <1>15 DEF QueryFailed, searchVars
<1>16. CASE RunSetFavorites
  <2>1. mainQ # <<>> /\ Head(mainQ) \in Favorites /\ mainQ' = Tail(mainQ)
    BY <1>4, <1>16 DEF RunSetFavorites, ReplaceList
  <2>2. query = "answered" /\ Has(mainQ, Favorites)
    BY <1>1, <1>2, <1>5, <2>1
  <2>3. ListIsFavorites'
    BY <1>16 DEF RunSetFavorites, ReplaceList, ListIsFavorites, FilterByFavorite
  <2>4. download # "asked" /\ ~Has(mainQ, Loading)
    BY <1>1, <1>5, <2>2
  <2>5. UNCHANGED <<download, query>>
    BY <1>16 DEF RunSetFavorites
  <2> QED BY <1>2, <1>6, <2>1, <2>2, <2>3, <2>4, <2>5
<1>17. CASE RunDocuments
  <2>1. /\ mainQ # <<>> /\ Head(mainQ) \in Favorites
        /\ mainQ' \in {Tail(mainQ), Append(Tail(mainQ), "setFavorites")}
        /\ UNCHANGED <<list, loadVars>>
    BY <1>4, <1>17 DEF RunDocuments
  <2>2. query = "answered" /\ Has(mainQ, Favorites)
    BY <1>1, <1>2, <1>5, <2>1
  <2>3. download # "asked" /\ ~Has(mainQ, Loading)
    BY <1>1, <1>5, <2>2
  <2>4. Tail(mainQ) \in Seq(Closures) /\ ~Has(Tail(mainQ), Loading)
        /\ AtMostOne(Tail(mainQ), Loading)
    BY <1>2, <2>1, <2>3
  <2>5. ~Has(mainQ', Loading) /\ AtMostOne(mainQ', Loading)
    <3>1. CASE mainQ' = Tail(mainQ)
      BY <2>4, <3>1
    <3>2. CASE mainQ' = Append(Tail(mainQ), "setFavorites")
      BY <1>3, <1>4, <2>4, <3>2
    <3> QED BY <2>1, <3>1, <3>2
  <2> QED BY <1>6, <1>7, <2>1, <2>2, <2>3, <2>5 DEF loadVars
<1>18. CASE UNCHANGED vars
  BY <1>1, <1>5, <1>6, <1>7, <1>18 DEF vars, searchVars, loadVars
<1> QED BY <1>8, <1>9, <1>10, <1>11, <1>12, <1>13, <1>14, <1>15, <1>16, <1>17, <1>18
        DEF Next, RunMain, RunOperation, Searching

\* The list is what the names say in every reachable state.
LEMMA ListHolds == Spec => []ListInv
<1>1. Init => ListInv
  <2> SUFFICES ASSUME Init PROVE ListInv
    OBVIOUS
  <2>1. DOMAIN mainQ = {}
    BY DEF Init, SearchInit
  <2>2. ListIsFavorites
    BY DEF Init, SearchInit, ListIsFavorites, FilterByFavorite
  <2> QED BY <2>1, <2>2 DEF Init, SearchInit, ListInv, Has, AtMostOne
<1> QED BY <1>1, ListStep, TypeCorrect, PTL DEF Spec

\* The list shows the entries whose infinitive was loaded as a favourite.
THEOREM ListRight == Spec => []ListIsFavorites
BY ListHolds, PTL DEF ListInv

-----------------------------------------------------------------------------
(* A nil infinitive.  What is listed has a name that was loaded, so a verb   *)
(* without infinitive is only listed when "" was; and the search ends with   *)
(* the fault, before the names may change.                                   *)

\* Every step that terminates the search by nil finds "" among the names.
LEMMA NilStep ==
    ASSUME ListInv, NilNeedsBlank, [Next]_vars
    PROVE  NilNeedsBlank'
<1>1. list = FilterByFavorite(favoritesVerbs)
  BY DEF ListInv, ListIsFavorites
<1>2. CASE SearchUser /\ UNCHANGED loadVars
  BY <1>2 DEF SearchUser, SearchBarShouldBeginEditing,
     SearchBarCancelButtonClicked, TextDidChange, CellForRowAt, BackButtonDidTap,
     NilNeedsBlank, loadVars
<1>3. CASE StartOperation /\ UNCHANGED loadVars
  BY <1>3 DEF StartOperation, NilNeedsBlank, loadVars
<1>4. ASSUME NEW op \in running, FilterList(op, list), UNCHANGED loadVars
      PROVE  NilNeedsBlank'
  <2>1. CASE list \cap NoInfinitive # {}
    <3>1. PICK v \in NoInfinitive : v \in FilterByFavorite(favoritesVerbs)
      BY <1>1, <2>1
    <3>2. Blank \in favoritesVerbs
      BY <3>1 DEF FilterByFavorite, NameOf
    <3> QED BY <1>4, <3>2 DEF NilNeedsBlank, loadVars
  <2>2. CASE list \cap NoInfinitive = {}
    BY <1>4, <2>2 DEF FilterList, NilNeedsBlank, loadVars
  <2> QED BY <2>1, <2>2
<1>5. ASSUME NEW op \in running, StoreResults(op), UNCHANGED loadVars
      PROVE  NilNeedsBlank'
  BY <1>5 DEF StoreResults, NilNeedsBlank, loadVars
<1>6. CASE RunReload /\ UNCHANGED loadVars
  BY <1>6 DEF RunReload, MayRace, NilNeedsBlank
<1>7. CASE RunSetFavorites
  BY <1>7 DEF RunSetFavorites, ReplaceList, MayRace, NilNeedsBlank
<1>8. CASE \/ \E n \in Names : ToggleElsewhere(n)
           \/ StorageReply \/ StorageFailed \/ QueryAnswered \/ QueryFailed
           \/ RunDecode \/ RunSetVerbs \/ RunDocuments \/ UNCHANGED vars
  <2>1. UNCHANGED <<fault, favoritesVerbs>>
    BY <1>8 DEF ToggleElsewhere, StorageReply, StorageFailed, QueryAnswered,
       QueryFailed, RunDecode, RunSetVerbs, RunDocuments, vars, searchVars, loadVars
  <2> QED BY <2>1 DEF NilNeedsBlank
<1> QED BY <1>2, <1>3, <1>4, <1>5, <1>6, <1>7, <1>8
        DEF Next, RunMain, RunOperation

\* The search of the favourites is terminated by a nil infinitive only when
\* the profile names "".
THEOREM NilOnlyByBlank == Spec => []NilNeedsBlank
<1>1. Init => NilNeedsBlank
  BY DEF Init, SearchInit, NilNeedsBlank
<1> QED BY <1>1, NilStep, ListHolds, PTL DEF Spec
=============================================================================
