# A verification of easy-verbs

easy-verbs is an iOS application that teaches the irregular verbs of English.
Its own code is some 2800 lines of Swift under `src/easy-verbs/easy-verbs/`; the
other 650,000 lines of the repository are vendored libraries in
`src/easy-verbs/Pods/`.  Everything the application keeps across a restart it
keeps through one of these, Firestore, whose client engine (`Pods/FirebaseFirestore/
Firestore/core/src/`, C++) is therefore modelled too.  Swift paths below are
relative to the first directory, C++ paths to the last.

## 1. Inventory

The application is a set of screens, each a view controller with its presenter.

| Component | State | Operations | Talks to |
|---|---|---|---|
| Session (`AppDelegate`, `SceneDelegate`, `Menu/`) | Auth's current user, the stack of presented screens | scene activation, menu buttons, back arrows | Auth, every screen's factory |
| Sign-in (`Login/SignInModule`) | text fields | log in, open sign-up, alerts | Auth; opens the menu |
| Sign-up (`Login/SignUpModule`) | text fields | create account, dismiss, alerts | Auth, then the `users` collection |
| All verbs (`AllVerbs/AllVerbsModule`) | list, search results, search flag, table, operation queue | download, search, row delegate calls | Storage, main queue, details screen |
| Favourites (`AllVerbs/FavoriteVerbsModule`) | favourite names, favourite verbs, the same search | query, filter, search | Firestore, main queue, details screen |
| Details (`AllVerbs/DetailsModule`) | local copy of the favourite names, star colour, sound | load, toggle, play | Firestore, global and main queue, Storage |
| Training game (`LearningModule`) | clock, score, question, dictionary, best score | start, answer, tick, leave, load, save | Firestore, Storage, timers, main queue |
| Verb model (`AllVerbs/IrregularVerb.swift`) | four optional strings | decode | the three list screens |
| Firestore, queries (`core/event_manager.cc`, `core/query_listener.cc`, `core/sync_engine.cc`, `remote/remote_store.cc`, `remote/remote_event.cc`) | listeners of a query, its view, what the server has still to confirm, the cached documents | listen, remove, a watch response, a failed stream | watch stream, screens |
| Firestore, online state (`remote/online_state_tracker.cc`) | Unknown, Online or Offline; failures; a ten-second timer | stream started, stream failed, response received | listeners |
| Firestore, writes (`core/sync_engine.cc`, `remote/remote_store.cc`, `remote/write_stream.cc`, `local/`) | mutation queues on disk, callbacks, the pipeline of ten | write, acknowledge, reject, change of user | write stream, screens |
| Firestore, streams (`remote/stream.cc`) | a gRPC stream's state, backoff, idle timer | start, open, close, mark idle | network |
| Other vendored code: Auth, Storage, gRPC, BoringSSL, LevelDB, Abseil, nanopb | | | |
| Layout, assets, sounds | none of interest | | |
| Tests | none: Xcode's empty stubs | | |

How the parts interact:

* There is one main thread.  Taps, timers, Firestore callbacks and every
  `DispatchQueue.main.async` closure run on it one at a time; a closure that
  schedules another gives way to everything already queued.
* A few pieces leave the main thread: a search filters on an operation queue, the
  details screen stores the loaded names on a global queue.
* Firestore's engine runs on a worker queue of its own, on which its handlers are
  atomic.  It answers all calls of `getDocuments` that wait for the same query
  with one snapshot, in the order they asked; a local `updateData` is visible to
  later snapshots at once.  A query is answered from the cache when the client
  counts as Offline: at once if it does already, after the first failed stream
  (`kMaxWatchStreamFailures` is 1), or ten seconds after a stream was started.
* All of the screens of one user share a single document of `users` (`uid`,
  `bestScore`, the favourites), which every screen reads once and then trusts.
  Writes to it are unconditional, stay in a queue on disk until the server has
  answered, and are sent again when a stream breaks before.
* Closures hold presenters strongly or weakly, a running timer holds a view: a
  screen that was left may go on acting.

What makes each part correct:

* **Training game**: a game has one clock and ends at zero; its seconds are those
  it was given and earned; the label shows its score; the record stored is never
  replaced by less, and is saved in the end.
* **Lists**: the table never asks for a row that is not there; what is shown
  answers the last text typed; a search that was overtaken changes nothing.
* **Details**: one tap toggles exactly this verb's membership in the profile, and
  the star agrees with the profile when nothing is under way.
* **Accounts**: one profile per account, no account without profile; screens act
  for the user they were opened for.
* **Session**: one menu at a time, and only for a user.
* **Queries**: whoever waits is answered, once, with the others that wait; what
  counts as synced is no older than the query; what the code asserts of its
  streams and of the online state holds.
* **Writes**: they are sent in the order in which they were issued, whatever ends
  and starts again meanwhile; what a caller is told is true; each write lands; the
  server never rests on an earlier write of the device after a later one; what could be
read once is not unread.

Hard to test, and therefore what the models are about: the order in which
answers, timers, closures and taps meet; screens that act after they were left;
copies of the profile that are older than the profile; requests that fail without
anybody noticing; arrays shared by two threads; a table whose rows and number of
rows come from different moments; streams that fail, are stopped or are started
while calls come and go; responses to a watch that is no longer the present one;
ids given out anew after a restart; acknowledgements that are lost.
`PROJECT.json` lists each such place with its line and the properties about it.

## 2. Modules

| Module | What it is | Code |
|---|---|---|
| `Training` | the game of one or several training screens | `LearningModule/` |
| `HighScore` | abstract: what a best score promises | |
| `MCTraining` | instances, symmetry, the mapping of `Training` to `HighScore` | |
| `VerbSearch` | table, search bar and operation queue, shared by the two lists | the common code of `AllVerbsModule/` and `FavoriteVerbsModule/` |
| `AllVerbs`, `MCAllVerbs` | the list of all verbs | `AllVerbsModule/` |
| `FavoriteVerbs`, `MCFavoriteVerbs` | the list of the favourites | `FavoriteVerbsModule/` |
| `Details`, `MCDetails` | the favourites button of a verb | `DetailsModule/` |
| `Session`, `MCSession` | log-in, sign-up, menu, the stack of screens | `Login/`, `Menu/`, `SceneDelegate.swift` |
| `Stream` | a gRPC stream's state, shared by the two stores | `remote/stream.cc` |
| `OnlineStateTracker` | Unknown, Online, Offline | `remote/online_state_tracker.cc` |
| `WatchStore`, `MCWatchStore` | how `getDocuments` is answered | `core/`, `remote/` |
| `QueryPromise` | abstract: what a screen that asks is promised | |
| `WriteStore`, `MCWriteStore` | how `updateData` and `setData` reach the server | `core/`, `remote/`, `local/` |
| `TrainingProofs`, `VerbSearchProofs`, `AllVerbsProofs`, `FavoriteVerbsProofs`, `DetailsProofs`, `SessionProofs`, `WatchProofs`, `WriteProofs` | theorems about the module of that name (`WatchStore`, `WriteStore` for the last two) | |

The modules of the screens and those of the stores meet in `QueryPromise`: the
screens are modelled with an environment that answers all waiting queries at
once (`QueryAnswered`, `QueryFailed`), and `WatchStore` is shown to be such an
environment.  In the same way `profile`, the document that a screen's model
writes at once, is the cache under the pending writes of `WriteStore`.

Actions carry the names of the handlers they model (`StartLearning`,
`GoToNextVerb`, `ActionForTimer`, `AddToFavorites`, `SceneDidBecomeActive`,
`OnWatchStreamOpen`, `FillWritePipeline`, ...); `PROJECT.json` maps each definition to
its lines.  An action called `Run...` is one closure of the main queue, run to
its end.  Definitions with a suffix after an underscore, marked "Variant with a
bug", are never used by a specification: they are the mutations under which the
properties are known to fail.

**Queues.** `mainQ` is the main dispatch queue: closures are appended by what
schedules them and run from the head.  A tap or a timer may come between any two.
`globalQ` (`Details`) is a concurrent queue: any closure may be next.  The search
queue (`VerbSearch`) has width one: `queued` is what has not started and can be
cancelled, `running` is reading the list or storing its result.

**Firestore, as the screens see it.** A query waits in `waiting` until
`QueryAnswered` hands the snapshot of that moment to every query that waits, or
`QueryFailed`.  The requests that one handler makes are therefore answered by the
same snapshot: each of them is registered before the first answer can be acted
on.  `profile` is the document as this device sees it, with the writes that have
not reached the server.  The account situations are *full* (signed in, with a
document), *bare* (signed in, without: see `Session`) and *signedOut*.

**Data races** (an array read by one thread and stored by another) are modelled by
`fault`: the access succeeds or terminates the process.  What follows a fault is
nothing.

**Training.** The visible controls are one variable, `board`: the code hides and
shows them together.  `timers` counts the scheduled timers of a view, `waiting` and
`mainQ` hold its closures, and from these follows whether `[weak self]` still finds
the presenter.  A question is chosen from `Questions`, all that `randomElement` and
the random tense may ask.  `basis` is observation only: what the best score of a
screen rests on.

**Lists.** The table is `rows`, the number it was last told; a row is asked for
at any time (scrolling).  `list` is `allVerbs` or `userFavorite`.  A text is a
model string with the set of entries it matches.  In `FavoriteVerbs`, `NoInfinitive`
are the entries whose infinitive is nil.  `filterByFavorite` looks them up as ""
(`Blank`), so that a profile that names "" lists them, and `infinitive!` of the next
search ends the process.  The query's answer takes two closures of the main queue:
the callback of `getDocuments` (`RunDocuments`) and what it schedules for each
document (`RunSetFavorites`).  `searchBarCancelButtonClicked` can
only be called if the bar shows a cancel button, which `setUpSearchBar` does not
make it do; the constant `CancelButton` says whether it does, so that the handler is
checked, and `RowsAreThere` is refuted without it.

**Details.** `shown` is the colour of the title, `local` the presenter's copy.
`taps` (which also bounds the run) and `hasty` are observation only: `hasty` says
that something was tapped or opened while something was under way.

**Session.** `stack` holds what is presented above `SignInView`.  UIKit ignores a
presentation by a view that presents something already; this alone keeps the
menus apart, and swallows the alert or the menu of a late answer.  Emails stand for
user ids.  A restart keeps Auth's user and the documents; what was under way at the
server may have been done or not.

**Stream.** The five states of `Stream::State` and whether the idle timer is
scheduled.  A stream that is being started waits for its token; callbacks of an
earlier start are recognised by `close_count_` and dropped, so that they need no
action.  How long a timer or a backoff runs is left out: it may elapse at once.

**WatchStore.** Each call of `getDocuments` is a listener that goes from *waiting*
to *raised* (its event was raised and its removal scheduled, `api/query_core.cc`) to
*gone*.  The one query is that of the user's document, so that one target stands
for all the maps from queries to targets; whether it is in them is `Listening`.
`agg` is the target's state in the `WatchChangeAggregator`: the requests that the
server has not confirmed, CURRENT, and the document of the next snapshot.
`synced` is the view's state, `cache` the version of the document in the
`LocalStore`.  `toServer` and `toClient` are one stream's requests and responses.
`basis` is observation only: the version when the present listen began.

**WriteStore.** Writes are numbered as they are issued; each gets the batch id that
`next_batch_id_` held, which a restart or a change of the user computes again from the
queues on disk.  `pipeline` is the `RemoteStore`'s, `callbacks` the `SyncEngine`'s.
The server carries out the requests that have reached it in order and ends the
stream at the first one that the rules deny; `log` is who wrote each version of a
document.  `overtaken` is observation only: the writes whose acknowledgement had
arrived and was dropped for the status of a later request (`GrpcStream::
OnOperationFailed`).

A user's document has several `Fields`, and a write changes one of them
(`Field[w]`): it sets `bestScore`, or adds to or removes from an array
(`ArrayFields`).  A value is the set of the versions it is made of: the last one
that set the field, or all that changed the array.  So `Document(log, n)` is what the
server has as version `n`.  The cached document need not be a version of the
server's: an acknowledgement patches what is in the cache and stores it under the
version of the commit (`ApplyBatchResult`, `committed`), while another device may
have changed other fields in between.  A document from the watch stream replaces an
older one, and one of the same version if that was patched
(`local_store.cc:332-334`).  `watched` is observation only: the newest version that
the watch stream has brought.

What is assumed of the server and the network, for both stores: requests and
responses keep their order within a stream and are lost with it; what had not
reached the server before a stream ended is never carried out later; versions
grow.  For `WatchStore`: after a watch come "added", the document, CURRENT and then a
snapshot, or else a rejection; each unwatch is confirmed with "removed"; a stream
that is needed is not ended with OK; there are no existence filters, no RESET and no
limbo documents, which need a query that matches documents by other means than
their owner.  For `WriteStore`: the rules' verdict on a write does not change; each
write that is carried out makes a version, also one that changes nothing; the screens
have read the document before they write to it, as they all do (an update of a
document that is not in the cache makes an `UnknownDocument`, which is left out).

## 3. Runs

Bounds are constants with names that begin with `Max`, or said below.  The state
counts are TLC's distinct states.

| Run | Instance | Shows |
|---|---|---|
| `training_faults` | one screen, two seconds, two points, two failures, every account | the clock and the questions; an abandoned game ends; it implements `HighScore`; a record is saved if no request failed |
| `training_two` | two screens, one second, two points, one failure, no dictionary | who may lower a stored record, and that a loaded best score is current |
| `training_lost` | one screen | refutes that a record is never lowered |
| `all_search` | four entries, one without infinitive; three texts | results answer the last text, each search is answered; with and without the bad entry, cancel button shown |
| `all_rows` | no cancel button | refutes that every counted row is there |
| `favorites_loads` | three entries, one without infinitive; three names, "" among them; one toggle from another screen | the list is what the loaded names say and nothing else, a nil infinitive needs the name "", the list comes |
| `details_two` | two screens with any verb, two taps in all, every account, one failure | the colour is right after odd taps, the copy lags by one; no other verb is touched; races need haste; all ends |
| `details_second` | one screen, two taps | refutes that the colour is right after any tap |
| `session_users` | two users, three requests, one restart, one screen | menu, owner of a screen, each account gets its profile unless something was cut off |
| `watch_gets` | three calls, two versions, one break | the code's assertions, no missed answer, synced is fresh, it implements `QueryPromise` with its liveness |
| `watch_untimed` | two calls, no break | refutes that a call that waits in Unknown is timed |
| `writes` | two users, three writes, two in the pipeline, two breaks, one write of another device; two fields, one an array | order of the pipeline, callbacks, truth of what callers are told and of what is read, no earlier write stands after a later one, each write lands |

Why the bounds suffice.

* *Training.* A game is two or three ticks long because a tick is all the same but
  for the last; two points make a record after a record, and with two screens a
  lower record after a higher one.  In `training_two` no download comes to an end
  (`Served = {}`): the dictionary decides which answer is right, not when.  Two
  screens are enough for overtaking, since only one can be open and each is either
  before or after the other's write.
* *Details.* Two taps are a period of the button, on one screen or one on each of
  two.  That it repeats with any number of taps is proved (`TapsRight`).
* *Session.* Three requests are a log-in and a sign-up of different users and one
  more to be confused with.
* *Lists.* `MaxQueue` only stops a user from typing while reloads pile up.
* *WatchStore.* Three calls: one that is raised and not yet removed, one that joins,
  one that listens anew.  A break is what could be repeated for ever: a change of the
  connection or of the credentials, or a failure of a stream on which the server
  had responded (`tracker.state = "Online"`).  Failures of other streams are not
  bounded.  Two versions tell fresh from stale.  `kMaxWatchStreamFailures` is the
  code's.
* *WriteStore.* Three writes are one more than the pipeline holds
  (`kMaxPendingWrites` is ten in the code and two here), so that each answer lets
  another in.  Two breaks are a restart between two changes of the user, or a
  write that is lost twice.  The first and the third write set `bestScore`,
  the second and that of the other device change the array, so that a document that
  is patched with one of the former may lack the latter.  The run has 593,066 states and takes two to three minutes.

Deadlock is not checked: a left screen with empty queues, and a store that was
asked nothing, are normal ends.

## 4. Fairness

Weak fairness is given to what the system drives: a scheduled timer fires; the
main queue, the search queue and the global queue run what they hold; a request
of Storage or Auth ends, with an answer or an error.  Nothing is assumed of the
user, of other screens' taps, of scene activation, of the idle timer or of the
network's recovery.  `RunMain` is fair as a whole, since the queue decides which
closure is next.

In the screens' models a query comes to an end by assumption.  `WatchStore`
discharges it (`KeepsQueryPromise`) from less: tokens come, a backoff elapses,
what was received is handled, and a server that owes a response sends it or else
the stream fails, which the connection's keepalive sees to
(`grpc_connection.cc:264`, 30 s).  The ten-second timer is not assumed to fire and is not
needed.  What is needed is `MaxBreaks`: if for ever each stream failed right
after its first response, the tracker would go from Online to Unknown and never to
Offline, and a call would wait for ever.  The code has this livelock: a response
makes the client Online, which ends the ten seconds, and resets the backoff
(`watch_stream.cc:96`), so that nothing counts against such a server.  `WriteStore` assumes the same of tokens, backoff and server; with
unboundedly many breaks a write need not land, and the code promises none.

The liveness properties are `AbandonedGameEnds`, `RecordIsSaved`,
`SearchAnswered`, `FavoritesArrive`, `Settles`, `ProfileComes`, `EveryWriteLands` and the
liveness part of `KeepsQueryPromise`.

## 5. Proofs

All theorems hold for any values of the constants under the named assumptions
of the modules (`...Assumption`, `WriteBounds`) and nothing else.  The type
invariant of each module is proved first (`TypeCorrect`), one step per action; the
rest is as follows.

**TrainingProofs.**

* `ClockCorrect`, `ZeroNotMissed`, `SecondsEarned`, `LabelRight`: none is inductive
  alone.  A timer that fires needs `OneClock` to know that the timer it
  invalidates is the only one, and `OneClock` needs `NeverMissesZero` for the
  game to end at all; together they are `GameInv`, kept by every step
  (`GameStep`).  `TypeCorrect` needs it, too: that a time is never negative is a
  fact about the clock.
* `RecordInvariant`, `BestCurrent`, `RecordsKept`: that a loaded best score is at
  least the stored one depends on where the load is.  `RecordInv` says that a
  screen loads once (`OneLoad`), that nothing is on its way to a screen that is loaded
  (`LoadedOnce`), that what is on its way to a screen without a score is the stored
  score of this moment (`Unloaded`: any write moves the screen to *overtaken*), and
  that an unopened screen has none of it (`Unopened`).  The queues are handled
  by lemmas about the items of a tail and of an appended sequence.
  `RecordsKept`, the action property, follows: an update writes `best[s]`, and
  lowers the profile only when `basis[s]` is *blind* or *overtaken*.
* `BlankScoresOnce`: if no form of the dictionary is empty, a right answer with the
  dictionary at hand is followed by a question that asks for a word.  The
  assumption is about the data in Storage; the code does not check it.
* `PromiseKept`: with one screen every step of `Training` is a step of `HighScore` or
  none.  A game that ends with a record is `Claim`, or `Forget` if the best score
  was not loaded; an update is `Save`; from *blind* on, `Anything`.  That a load
  changes nothing the player was told is `RecordInv`: what is on its way to the
  screen is the stored score of this moment.  `Alone` says that nobody overtakes
  the only screen.

**WatchProofs.**

* `AssertionsCorrect`: the four parts of `AssertionsHold` need each other, and one
  fact more, `WiresOpen`: requests and responses are on the wires of an open
  stream only.  Without it a response could make the client Online while no
  stream is open, which breaks `OnlineIsEarned` and with it the assertion of
  `StartWatchStream`.  Together they are `StreamInv`.
* `NoneMissed`: every action that changes the view or the online state runs `Tell`,
  or leaves nobody waiting.  `StreamInv` is needed where the tracker moves without
  `Tell` (a stream that starts, a response): it moves away from Offline only.
* `PromiseKept`: each step maps to a step of `QueryPromise` or a stutter.  `Tell`
  answers all that wait with one answer or none.  The hard case is
  `JoinListeners`: a call that is answered at once must find nobody waiting,
  else one would be answered before the others; that is `NoMissedAnswer`, in the
  state before.  `AnswerMatches` ties a call's stage to whether it has its answer.
  The theorem is about the safety part of the promise; the liveness part is
  checked.
* `SyncedFresh`: `FreshInv` says where the answer to the present listen is.  Each
  request is counted until its confirmation was received (`Counted`), so that a
  target is active only when nothing earlier is on the wires.  While a call
  listens on an open stream, the last request is its watch; once the server has
  taken that, the responses after the last confirmation on the wire are the
  answer (`Answering`): their documents are no older than the listen, and a snapshot
  among them has such a document before it or already received (`Brought`).
  A response that is received moves the others up by one (`ConfirmingTail`,
  `AnsweringTail`), one that is sent goes behind them (`ConfirmingAppend`,
  `AnsweringConcat`).  If the rules deny the query nothing else is ever sent
  (`Verdict`).  TLC has three calls, the theorem any number.

**SessionProofs.** `StackInv` proves `MenuPlaced` and `ActForUser`: where each kind of
screen is in the stack, what may be above what, whether each is right for the
user, and that a success which waits on the main queue has a user
(`SuccessHasUser`), for the menu that it will present.  `ProfileInv` proves
`OneProfileEach`: a success of a sign-up that waits on the main queue belongs to an
account without a profile, and no two such belong to one account.

**VerbSearchProofs, AllVerbsProofs, FavoriteVerbsProofs.** What both lists share is
proved once, for the actions of `VerbSearch`.  `AnswerInv` says where the answer to the
last text is: still queued, or else in the operation that runs, or in the results.
It must be known that the list does not change under a search: `LoadInv` says that
the dictionary is loaded once and the list is empty before.  `ListInv` is the same
for the favourites, where the profile is asked only after the dictionary has come,
so that the list is filtered from a complete one.  `NilOnlyByBlank`
is inductive over `ListInv`: an entry without infinitive that a search meets is in
the list, hence was looked up as "" among the names that were loaded, and once the
process has ended nothing replaces these (`NilStep`).

**DetailsProofs.** `WriteInv`: a query that leads to a write is of a screen for a
verb with a name, tapped before; hence no missing name is written, and
`OwnVerbOnly`.  `RoundInv` proves `TapsRight` and `RaceIsHasty`: unless the user was
hasty, what is under way is one round of the one open screen, the load or the last
tap, in one of four phases (asked, writing, copying, colouring) that say what
each queue holds; the copy lags by one tap between rounds (`Lags`) and the
colour follows (`Settled`).  TLC checks two taps, the theorem is about any number.

**WriteProofs.** All the invariants of `WriteStore` and `ReadsAdvance`, for any users,
fields, writes, breaks and places in the pipeline.  They rest on `StoreInv`, four
conjuncts that need each other:

* `TypeOK`.
* `IssueInv`: batch ids rise in the order of issue over all queues on disk, ids in
  use are below `next_batch_id_`, and a queue loses its oldest writes only.  A restart
  and a change of the user compute `next_batch_id_` again from the queues, and may
  give an id twice, but never one that is still in a queue.
* `PipeInv`: the pipeline holds the oldest writes of the queue (`Oldest`), as many as
  it may (`Full`).  `InOrder` chooses the order of the ids; that there is one is
  `OrderExists`, shown by adding the greatest element to the order of a set that is
  smaller by one, along the least size that lacks an order (`Least`), as the
  library's induction theorems cannot be used.
* `WireInv`: the answers on the wire are those to the first writes of the pipeline, and
  true (`TrueAnswers`), the requests those for all others (`InStep`);
  until the server has answered the handshake nothing else is on the wires
  (`Greeting`).

`TypeCorrect`, `IdleDrained` and `PipelineOldest` follow from `StoreInv`.  For the
others the steps are sorted by what they do to the queues, the answers and the log
(`Moves`), and each takes `StoreInv` as given:

* `CallbacksMatch` is inductive over `StoreInv`: an id that is given again is found
  in no queue, so its old callback is nobody's.
* `WatchedWhole`, `ReadsForward`: `CacheSound` says of a cached document that its
  fields are made of changes to these fields up to its version, that it is that
  version of the server's unless it was patched, and that a patched one is ahead of
  what the watch stream has brought.  `Newer` lists what a step may do to it (patch
  it with a later write, replace it by a version that the code accepts), and
  `Forward` says that every step does only this and lets the logs grow
  (`ForwardNext`).  A field then keeps what it holds or gets what replaced it
  (`Keeps`), which is `ReadsForward`.
* `TruthTold`: what was told stays true under `Forward`; for the write that leaves the
  pipeline it is the answer of `TrueAnswers`.  An acknowledged write is read because
  it is patched into an older document, and a document that is not older has it:
  that is so of a version of the server's, and a patched one is of an earlier
  acknowledgement, which was for a lower version (`AcksInv`).  `ToldInv` is all this
  together.
* `RestsCorrect`: `RestInv` is about all writes that are *settled*, those that left the
  queue and those whose answer is on the wire: each is in the log behind all earlier
  ones (`Rests`).  A write is carried out again only if
  its answer was lost, and then all later ones are carried out again after it.
* `ResentBounded`: `CountInv` counts a write that is *pending*, in the queue and
  without an answer on its way, one less.  A break makes answered writes pending
  and pays for it; so does a result that is dropped (`Allowed`).

`StoreInv`, `ToldInv`, `LogInv`, `RestInv` and `CountInv` were checked with TLC first, on
the instance of the run `writes`.

Only model-checked: liveness under fairness, which the prover does not reach (the
seven properties of section 4), with the liveness part of `QueryPromise`.  Every
invariant and every action property of a passing run is proved.  Proved and in no run:
`ListRowsExist`, `OneProfile`, `TimeIsEarned`, `ScoreShown`.

## 6. What the checks refute

* **A record set before the load replaces a better one** (`training_lost`): the best
  score is 0 until `bestScoreFromFirebase` is applied; with the queries of load
  and record in one snapshot, or a load that failed, the lower score is written.
* **A row that is not there** (`all_rows`): a tap on the search bar changes what the
  rows are taken from without a reload; the next row the table asks for is past
  the end of the (empty) results.
* **The second tap on FAVORITES does nothing but says otherwise**
  (`details_second`): the copy that decides it lacks the first tap's write.
* **A query that waits untimed** (`watch_untimed`): the last listener leaves while the
  stream is not open, which stops the ten-second timer but not the stream; the
  next query finds the stream started and starts no timer.  It waits until that
  stream opens or fails.

Also visible in the models, without a run of their own:

* A favourite without infinitive: `filterByFavorite` reads a missing infinitive as
  "" (`FavoriteVerbsPresenter.swift:75`), `doSearchText` asserts that there is one
  (line 84).  With "" among the loaded names, which a dictionary with an empty
  infinitive lets the details screen store, the next search terminates the process;
  `NilNeedsBlank` says that nothing else does so.
* The score label of a new game shows the old score until the first point; an
  abandoned game that ends after another screen loaded makes that screen
  overtaken (`RecordsStand` allows it).
* An alert on the sign-in screen swallows the menu of a log-in that succeeds
  meanwhile; a failed sign-up is not reported.
* A watch stream that opens after its last listener left is not marked idle, and
  stays open until the next query or failure.
* `current_` of a target survives its being added again, although
  `remote_event.cc:158` says the state is reset; the outstanding count of a target
  whose rejection is met by an unwatch drifts to -1; a rejection that was meant for an
  earlier listen of the query is told to the later one.
* A view stays synced over a failure of the stream.
* A write that was carried out is reported as failed when the status of a later
  one overtakes its acknowledgement (*overtaken*); a write that is sent again after a
  lost acknowledgement replaces what another device wrote in between.
* A document that was patched on an acknowledgement claims a version in whose other
  fields it may lack what another device wrote, until the watch stream brings that
  version (`WatchedIsWhole`).
* What a property excuses rather than catches is said in the notes of the hazards in
  `PROJECT.json`: a record that a late load replaces before it is written, queries
  and downloads that fail silently, a text that was answered from the empty list.

## 7. Not modelled

*The application.* Layout, fonts, colours other than that of the favourites
button, sounds.  The label of the clock (it shows the last game's seconds until the
first tick).  Text matching: which entry starts with which text is given.  The
tests, which are Xcode's empty stubs.

*Firestore.* What the application never uses: permanent listeners, limits, limbo
documents, transactions, bundles, `waitForPendingWrites`, `disableNetwork`, `clearPersistence`,
persistence in several tabs.  Below that, what has no order of its own to get wrong
or is a library of its own: serialization, indexes, LevelDB and
the garbage collection of its cache (the application's few documents do not reach its
threshold of 100 MB, `api/settings.h:40`), and the pairing of completions with gRPC's completion queue.
Documents are modelled as far as which writes each field is made of; what the values
are, and how an array's elements cancel, is left out.

*The other vendored code.* Nearly all of the repository's C and C++ lines are gRPC,
BoringSSL, Abseil, nanopb, LevelDB and generated tables (certificates, elliptic
curves, object identifiers, protocol-buffer descriptors); the application is in
Swift.  Nothing of the application's behaviour depends on them but that streams
deliver in order or fail, which is what the models assume.  The models therefore
cover a small share of these lines: some 600 of the application's 2800, and 1180 of
Firestore's, the part that decides what the application observes.

## 8. Plan

Done, in this order: `Training` with `HighScore` and its proofs, the lists,
`Details`, `Session`; then `WatchStore` with `QueryPromise`, `WriteStore`, and the proofs of
`WatchStore`, `Session`, the lists, `Details`, the refinement of `HighScore`, and
`WriteStore`.

Next:

1. Composition over one users document: a details screen above the list of
   favourites, and a training screen after it, sharing `waiting`, `mainQ` and
   `profile`; the question is what a list shows after a toggle above it.
2. An abstract specification of the favourites as a set that a patient user toggles
   (implemented by `Details` for odd taps only), and of the search as a function of
   the last text, implemented by `VerbSearch` when idle.
