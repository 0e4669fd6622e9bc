------------------------------ MODULE AllVerbs ------------------------------
(***************************************************************************)
(* The screen of all verbs: the list of VerbSearch is the downloaded       *)
(* dictionary.                                                             *)
(***************************************************************************)
EXTENDS VerbSearch

CONSTANT Dictionaries  \* what easy_verbs.json may hold

ASSUME DictionariesAssumption == Dictionaries \subseteq SUBSET Verbs

VARIABLE download   \* getData: asked or over

vars == <<searchVars, download>>

\* viewDidLoad has run: resaltsOfSearch = allVerbs, both empty, and the
\* dictionary is asked for.
Init == SearchInit /\ download = "asked"

StorageReply ==
    /\ download = "asked" /\ fault = "none"
    /\ download' = "over"
    /\ mainQ' = Append(mainQ, "decode")
    /\ UNCHANGED <<open, searching, list, results, rows, typed, queued,
                   running, fault>>

\* An error, or data that does not decode, is printed at most.
StorageFailed ==
    /\ download = "asked" /\ fault = "none"
    /\ download' = "over"
    /\ UNCHANGED searchVars

\* [weak self]: behind a dismissed screen the presenter may be gone.
RunDecode ==
    /\ mainQ # <<>> /\ Head(mainQ) = "decode" /\ fault = "none"
    /\ \/ mainQ' = Append(Tail(mainQ), "setVerbs")
       \/ ~open /\ mainQ' = Tail(mainQ)
    /\ UNCHANGED <<open, searching, list, results, rows, typed, queued,
                   running, fault, download>>

RunSetVerbs ==
    /\ mainQ # <<>> /\ Head(mainQ) = "setVerbs"
    /\ \E d \in Dictionaries : ReplaceList(d)
    /\ UNCHANGED download

\* Variant with a bug: a search narrows the results of the one before.
RunOperation_Narrows ==
    \E op \in running : FilterList(op, results) \/ StoreResults(op)

RunOperation == \E op \in running : FilterList(op, list) \/ StoreResults(op)

Next == \/ (SearchUser \/ StartOperation \/ RunOperation \/ RunReload)
             /\ UNCHANGED download
        \/ StorageReply \/ StorageFailed \/ RunDecode \/ RunSetVerbs

\* The operation queue and the main queue go on; the user owes nothing.
Fairness == /\ WF_vars(StartOperation /\ UNCHANGED download)
            /\ WF_vars(RunOperation /\ UNCHANGED download)
            /\ WF_vars(RunReload /\ UNCHANGED download)
            /\ WF_vars(RunDecode \/ RunSetVerbs)
            /\ WF_vars(StorageReply \/ StorageFailed)

Spec     == Init /\ [][Next]_vars
FairSpec == Spec /\ Fairness

\* Every variable of the screen stays in its type.
TypeOK == /\ SearchTypeOK
          /\ download \in {"asked", "over"}
          /\ mainQ \in Seq({"reload", "decode", "setVerbs"})
=============================================================================
