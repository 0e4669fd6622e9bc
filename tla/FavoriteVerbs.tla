---------------------------- MODULE FavoriteVerbs ----------------------------
(***************************************************************************)
(* The screen of the favourite verbs: the list of VerbSearch is the part   *)
(* of the dictionary whose infinitives the profile names.  The dictionary  *)
(* comes first, then the profile is asked once.  Meanwhile the details     *)
(* screen of a row, presented on top, may change the profile.              *)
(***************************************************************************)
EXTENDS VerbSearch

CONSTANTS Names,      \* the infinitives a profile may name
          Infinitive, \* Infinitive[v], for the verbs that have one
          Blank,      \* "", the name that stands for a nil infinitive
          MaxToggles  \* bound: taps on other screens

ASSUME NamesAssumption ==
    Infinitive \in [Verbs \ NoInfinitive -> Names] /\ MaxToggles \in Nat

VARIABLES
    account,    \* full, bare (no users document) or signedOut
    stored,     \* favoritesVerbs of the profile, as the device sees it
    toggles,    \* how often it was changed meanwhile
    download,   \* getData: asked or over
    allVerbs,   \* the dictionary, {} until it arrives
    favoritesVerbs, \* the names that were loaded
    query,      \* the query for the profile: none, asked, answered or failed
    answer      \* the names its answer carries

loadVars == <<account, stored, toggles, download, allVerbs, favoritesVerbs,
              query, answer>>
vars     == <<searchVars, loadVars>>

Init ==
    /\ SearchInit
    /\ account \in {"full", "bare", "signedOut"}
    /\ stored \in SUBSET Names
    /\ toggles = 0
    /\ download = "asked"
    /\ allVerbs = {} /\ favoritesVerbs = {}
    /\ query = "none" /\ answer = {}

-----------------------------------------------------------------------------
\* Another screen adds a name to the profile or removes it.
ToggleElsewhere(n) ==
    /\ account = "full" /\ fault = "none" /\ toggles < MaxToggles
    /\ stored' = IF n \in stored THEN stored \ {n} ELSE stored \cup {n}
    /\ toggles' = toggles + 1
    /\ UNCHANGED <<searchVars, account, download, allVerbs, favoritesVerbs,
                   query, answer>>

StorageReply ==
    /\ download = "asked" /\ fault = "none"
    /\ download' = "over"
    /\ mainQ' = Append(mainQ, "decode")
    /\ UNCHANGED <<open, searching, list, results, rows, typed, queued,
                   running, fault, account, stored, toggles, allVerbs,
                   favoritesVerbs, query, answer>>

StorageFailed ==
    /\ download = "asked" /\ fault = "none"
    /\ download' = "over"
    /\ UNCHANGED <<searchVars, account, stored, toggles, allVerbs,
                   favoritesVerbs, query, answer>>

\* [weak self]: behind a dismissed screen the presenter may be gone.
RunDecode ==
    /\ mainQ # <<>> /\ Head(mainQ) = "decode" /\ fault = "none"
    /\ \/ mainQ' = Append(Tail(mainQ), "setVerbs")
       \/ ~open /\ mainQ' = Tail(mainQ)
    /\ UNCHANGED <<open, searching, list, results, rows, typed, queued,
                   running, fault, loadVars>>

\* Variant with a bug: the dictionary is stored, the profile not asked.
RunSetVerbs_Unasked ==
    /\ mainQ # <<>> /\ Head(mainQ) = "setVerbs" /\ fault = "none"
    /\ mainQ' = Tail(mainQ)
    /\ allVerbs' = Verbs
    /\ UNCHANGED <<open, searching, list, results, rows, typed, queued,
                   running, fault, account, stored, toggles, download,
                   favoritesVerbs, query, answer>>

\* The dictionary is stored and, for a user, the profile is asked.
RunSetVerbs ==
    /\ mainQ # <<>> /\ Head(mainQ) = "setVerbs" /\ fault = "none"
    /\ mainQ' = Tail(mainQ)
    /\ allVerbs' = Verbs
    /\ query' = IF account = "signedOut" THEN "none" ELSE "asked"
    /\ UNCHANGED <<open, searching, list, results, rows, typed, queued,
                   running, fault, account, stored, toggles, download,
                   favoritesVerbs, answer>>

\* Firestore hands its answer to the main queue.
QueryAnswered ==
    /\ query = "asked" /\ fault = "none"
    /\ query' = "answered"
    /\ mainQ' = Append(mainQ, "documents")
    /\ answer' = stored
    /\ UNCHANGED <<open, searching, list, results, rows, typed, queued,
                   running, fault, account, stored, toggles, download,
                   allVerbs, favoritesVerbs>>

QueryFailed ==
    /\ query = "asked" /\ fault = "none"
    /\ query' = "failed"
    /\ UNCHANGED <<searchVars, account, stored, toggles, download, allVerbs,
                   favoritesVerbs, answer>>

\* The callback schedules one more closure for the one document, if there is
\* one; neither closure is weak.
RunDocuments ==
    /\ mainQ # <<>> /\ Head(mainQ) = "documents" /\ fault = "none"
    /\ mainQ' = IF account = "full" THEN Append(Tail(mainQ), "setFavorites")
                ELSE Tail(mainQ)
    /\ UNCHANGED <<open, searching, list, results, rows, typed, queued,
                   running, fault, loadVars>>

\* $0.infinitive ?? "": a verb without infinitive is looked up as Blank.
NameOf(v) == IF v \in NoInfinitive THEN Blank ELSE Infinitive[v]

\* Variant with a bug: a verb without infinitive passes the filter.
FilterByFavorite_KeepsNil(names) ==
    {v \in allVerbs : v \in NoInfinitive \/ Infinitive[v] \in names}

FilterByFavorite(names) == {v \in allVerbs : NameOf(v) \in names}

\* Variant with a bug: the filter runs before the names are stored.
RunSetFavorites_FilterFirst ==
    /\ mainQ # <<>> /\ Head(mainQ) = "setFavorites"
    /\ favoritesVerbs' = answer
    /\ ReplaceList(FilterByFavorite(favoritesVerbs))
    /\ UNCHANGED <<account, stored, toggles, download, allVerbs, query, answer>>

RunSetFavorites ==
    /\ mainQ # <<>> /\ Head(mainQ) = "setFavorites"
    /\ favoritesVerbs' = answer
    /\ ReplaceList(FilterByFavorite(answer))
    /\ UNCHANGED <<account, stored, toggles, download, allVerbs, query, answer>>

RunOperation == \E op \in running : FilterList(op, list) \/ StoreResults(op)

RunMain == (RunReload /\ UNCHANGED loadVars)
           \/ RunDecode \/ RunSetVerbs \/ RunDocuments \/ RunSetFavorites

Next == \/ (SearchUser \/ StartOperation \/ RunOperation) /\ UNCHANGED loadVars
        \/ \E n \in Names : ToggleElsewhere(n)
        \/ StorageReply \/ StorageFailed \/ QueryAnswered \/ QueryFailed
        \/ RunMain

Fairness == /\ WF_vars(StartOperation /\ UNCHANGED loadVars)
            /\ WF_vars(RunOperation /\ UNCHANGED loadVars)
            /\ WF_vars(RunMain)
            /\ WF_vars(StorageReply \/ StorageFailed)
            /\ WF_vars(QueryAnswered \/ QueryFailed)

Spec     == Init /\ [][Next]_vars
FairSpec == Spec /\ Fairness

-----------------------------------------------------------------------------
\* Every variable of the screen stays in its type, and the table never counts
\* more rows than there are verbs.
TypeOK == /\ SearchTypeOK
          /\ account \in {"full", "bare", "signedOut"}
          /\ stored \in SUBSET Names /\ answer \in SUBSET Names
          /\ favoritesVerbs \in SUBSET Names
          /\ toggles \in 0..MaxToggles
          /\ download \in {"asked", "over"}
          /\ query \in {"none", "asked", "answered", "failed"}
          /\ allVerbs \in SUBSET Verbs
          /\ mainQ \in Seq({"reload", "decode", "setVerbs", "documents",
                            "setFavorites"})

\* What the list shows are the entries whose infinitive was loaded as a
\* favourite, all of them: neither the order in which dictionary and profile
\* come nor a change of the profile meanwhile mixes the two.
ListIsFavorites == list = FilterByFavorite(favoritesVerbs)

\* Only a profile that names "" can terminate the search of the favourites:
\* filterByFavorite looks a nil infinitive up as "", and lists its verb with
\* the verbs called "".
NilNeedsBlank == fault = "nil" => Blank \in favoritesVerbs

\* Once the dictionary is there, the entries that the answer of the profile
\* names are listed in the end, unless the query fails.
FavoritesArrive ==
    allVerbs # {} /\ account = "full"
        ~> \/ query = "answered" /\ list = FilterByFavorite(answer)
           \/ query = "failed" \/ fault # "none"
=============================================================================
