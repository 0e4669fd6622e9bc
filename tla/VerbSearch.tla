----------------------------- MODULE VerbSearch -----------------------------
(***************************************************************************)
(* The search of a list of verbs, the same code in AllVerbs and in         *)
(* FavoriteVerbs: a table whose rows are counted when it is reloaded and   *)
(* asked for later, a search that filters the list on an operation queue   *)
(* of width one and reloads the table from the main queue.                 *)
(*                                                                         *)
(* The module has no Next: the two list screens add how their list comes.  *)
(***************************************************************************)
EXTENDS Naturals, Sequences, FiniteSets

CONSTANTS
    Verbs,        \* the entries of easy_verbs.json
    NoInfinitive, \* the entries whose infinitive is nil
    Texts,        \* what may be typed
    Matches,      \* Matches[t]: the entries whose infinitive starts with t
    None,         \* no text
    CancelButton, \* the search bar shows a cancel button (the code's does not)
    MaxQueue      \* bound: closures on the main queue when a text is typed

ASSUME VerbsAssumption == IsFiniteSet(Verbs) /\ NoInfinitive \subseteq Verbs
ASSUME MatchesAssumption == Matches \in [Texts -> SUBSET Verbs]
ASSUME NoneAssumption == None \notin Texts
ASSUME ButtonAssumption == CancelButton \in BOOLEAN /\ MaxQueue \in Nat

VARIABLES
    open,       \* the screen is presented
    searching,  \* isSearchInProgress
    list,       \* allVerbs, or userFavorite: what is shown without a search
    results,    \* resaltsOfSearch
    rows,       \* the number of rows the table believes in
    typed,      \* the text in the search bar that was searched last, or None
    queued,     \* the text of the operation not yet started, or None
    running,    \* operations under way: reading the list, storing the result
    mainQ,      \* closures on the main dispatch queue
    fault       \* none, or how the process was terminated

searchVars == <<open, searching, list, results, rows, typed, queued, running,
                mainQ, fault>>

Faults == {"none", "range", "nil", "race"}
Operations == [text : Texts, phase : {"reading", "storing"},
               found : SUBSET Verbs]

\* What numberOfRows counts and currentVerbs indexes.
Shown == IF searching THEN results ELSE list

Filter(text, l) == l \cap Matches[text]

\* An operation is at its access to the list, or to the results: the same
\* array touched now by the main thread may terminate the process.
AtWork(phase) == \E op \in running : op.phase = phase
MayRace(danger) == fault' \in {"none"} \cup (IF danger THEN {"race"} ELSE {})

SearchInit ==
    /\ open = TRUE
    /\ searching = FALSE
    /\ list = {}
    /\ results = {}
    /\ rows = 0
    /\ typed = None
    /\ queued = None
    /\ running = {}
    /\ mainQ = <<>>
    /\ fault = "none"

-----------------------------------------------------------------------------
\* A tap on the search bar: from here on the rows are those of the search.
SearchBarShouldBeginEditing ==
    /\ open /\ fault = "none"
    /\ searching' = TRUE
    /\ UNCHANGED <<open, list, results, rows, typed, queued, running, mainQ,
                   fault>>

\* doSearchText: operations that have not started are cancelled, one is added.
TextDidChange(text) ==
    /\ open /\ fault = "none" /\ searching
    /\ Len(mainQ) < MaxQueue
    /\ typed' = text
    /\ queued' = text
    /\ UNCHANGED <<open, searching, list, results, rows, running, mainQ,
                   fault>>

\* The list is shown again; a search under way is not cancelled.
SearchBarCancelButtonClicked ==
    /\ CancelButton
    /\ open /\ fault = "none" /\ searching
    /\ searching' = FALSE /\ typed' = None
    /\ rows' = Cardinality(list)
    /\ UNCHANGED <<open, list, results, queued, running, mainQ, fault>>

\* The table asks for a row it counted: an index past the end terminates, and
\* so may an access to the array while an operation stores it.
CellForRowAt(i) ==
    /\ open /\ fault = "none"
    /\ i < rows
    /\ \/ i >= Cardinality(Shown) /\ fault' = "range"
       \/ searching /\ AtWork("storing") /\ fault' = "race"
    /\ UNCHANGED <<open, searching, list, results, rows, typed, queued,
                   running, mainQ>>

BackButtonDidTap ==
    /\ open /\ fault = "none"
    /\ open' = FALSE
    /\ UNCHANGED <<searching, list, results, rows, typed, queued, running,
                   mainQ, fault>>

-----------------------------------------------------------------------------
\* Variant with a bug: an operation starts whatever is running.
StartOperation_Concurrent ==
    /\ queued # None /\ fault = "none"
    /\ running' = running \cup
                    {[text |-> queued, phase |-> "reading", found |-> {}]}
    /\ queued' = None
    /\ UNCHANGED <<open, searching, list, results, rows, typed, mainQ, fault>>

\* The queue, of width one, starts the operation; behind a dismissed screen
\* [weak self] may find the presenter gone.
StartOperation ==
    /\ queued # None /\ running = {} /\ fault = "none"
    /\ \/ running' = {[text |-> queued, phase |-> "reading", found |-> {}]}
       \/ ~open /\ running' = {}
    /\ queued' = None
    /\ UNCHANGED <<open, searching, list, results, rows, typed, mainQ, fault>>

\* The operation filters: an entry without infinitive terminates ($0.infinitive!).
FilterList(op, source) ==
    /\ op \in running /\ op.phase = "reading" /\ fault = "none"
    /\ IF source \cap NoInfinitive # {}
       THEN fault' = "nil" /\ running' = running
       ELSE /\ running' = (running \ {op}) \cup
                 {[op EXCEPT !.phase = "storing",
                             !.found = Filter(op.text, source)]}
            /\ fault' = fault
    /\ UNCHANGED <<open, searching, list, results, rows, typed, queued, mainQ>>

\* The operation stores what it found and schedules the reload.
StoreResults(op) ==
    /\ op \in running /\ op.phase = "storing" /\ fault = "none"
    /\ results' = op.found
    /\ running' = running \ {op}
    /\ mainQ' = Append(mainQ, "reload")
    /\ UNCHANGED <<open, searching, list, rows, typed, queued, fault>>

\* Variant with a bug: one row too many.
RunReload_OffByOne ==
    /\ mainQ # <<>> /\ Head(mainQ) = "reload" /\ fault = "none"
    /\ mainQ' = Tail(mainQ)
    /\ rows' = IF open THEN Cardinality(Shown) + 1 ELSE rows
    /\ MayRace(open /\ searching /\ AtWork("storing"))
    /\ UNCHANGED <<open, searching, list, results, typed, queued, running>>

\* reloadTableView from the main queue, [weak self].
RunReload ==
    /\ mainQ # <<>> /\ Head(mainQ) = "reload" /\ fault = "none"
    /\ mainQ' = Tail(mainQ)
    /\ rows' = IF open THEN Cardinality(Shown) ELSE rows
    /\ MayRace(open /\ searching /\ AtWork("storing"))
    /\ UNCHANGED <<open, searching, list, results, typed, queued, running>>

\* The list is replaced and the table reloaded, by the closure at the head of
\* the main queue; an operation that reads the list meanwhile may terminate.
ReplaceList(newList) ==
    /\ fault = "none"
    /\ mainQ' = Tail(mainQ)
    /\ list' = newList
    /\ rows' = IF ~open THEN rows
               ELSE Cardinality(IF searching THEN results ELSE newList)
    /\ MayRace(AtWork("reading") \/ (open /\ searching /\ AtWork("storing")))
    /\ UNCHANGED <<open, searching, results, typed, queued, running>>

\* What the user, the table and the operation queue do in either list.
SearchUser == \/ SearchBarShouldBeginEditing \/ SearchBarCancelButtonClicked
              \/ \E text \in Texts : TextDidChange(text)
              \/ \E i \in 0..Cardinality(Verbs) : CellForRowAt(i)
              \/ BackButtonDidTap

-----------------------------------------------------------------------------
SearchTypeOK ==
    /\ open \in BOOLEAN /\ searching \in BOOLEAN
    /\ list \in SUBSET Verbs /\ results \in SUBSET Verbs
    /\ rows \in 0..Cardinality(Verbs)
    /\ typed \in Texts \cup {None} /\ queued \in Texts \cup {None}
    /\ running \in SUBSET Operations
    /\ fault \in Faults

Idle == queued = None /\ running = {}

\* Without a search every row the table counted is in the list, also when the
\* list arrives, or an operation ends, while the bar is not in use.
ListRowsExist == open /\ ~searching => rows = Cardinality(list)

\* When the operations are done, what is stored answers the text typed last,
\* filtered from the list as it is, or as it was before it was loaded: a
\* search that was overtaken leaves no trace.
ResultsAnswer ==
    open /\ typed # None /\ Idle =>
        results \in {{}, Filter(typed, list)}

\* A text typed when the list is there is answered from the list, unless
\* another text or the end comes first.
SearchAnswered ==
    \A t \in Texts :
        queued = t /\ list # {}
            ~> results = Filter(t, list) \/ typed # t \/ ~open \/ fault # "none"

\* currentVerbs(indexPath:) -> IrregularVerb: there is a verb for each row.
RowsAreThere == fault # "range"
=============================================================================
