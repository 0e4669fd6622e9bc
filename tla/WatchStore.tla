----------------------------- MODULE WatchStore -----------------------------
(***************************************************************************)
(* How Firestore answers the query of a screen (getDocuments): the         *)
(* listeners of the EventManager, the SyncEngine's view of the query, the  *)
(* RemoteStore with its watch stream and OnlineStateTracker, and the       *)
(* WatchChangeAggregator.  All run on one worker queue, so that a handler  *)
(* is one step.  The screens ask one query, that of their user's document. *)
(*                                                                         *)
(* The server and the network are external: watch requests and responses   *)
(* keep their order within a stream and are lost with it.  A query that    *)
(* the rules allow is added, its document and CURRENT are sent, and then a *)
(* snapshot; every unwatch is confirmed.  Not modelled: existence filters, *)
(* RESET, limbo documents, writes (WriteStore), disableNetwork.            *)
(***************************************************************************)
EXTENDS Stream, OnlineStateTracker, Integers, Sequences

CONSTANTS Gets,         \* calls of getDocuments
          MaxVersion,   \* versions of the document at the server
          MaxBreaks     \* changes of the connection or of the credentials, and
                        \* failures of a stream on which the server had responded

ASSUME BoundsAssumption == MaxVersion \in Nat \ {0} /\ MaxBreaks \in Nat

VARIABLES
    get,       \* each call: "new", "waiting" for its first event, "raised"
               \* (the event is raised, Remove not yet run) or "gone"
    answer,    \* what each call was told
    synced,    \* the view of the query is not from cache
    cache,     \* version of the document in the LocalStore
    stream,    \* watch_stream_
    tracker,   \* online_state_tracker_
    agg,       \* watch_change_aggregator_: the target's state, pending document
    breaks,    \* how many so far
    toServer,  \* requests on the stream
    toClient,  \* responses on the stream
    backend,   \* what the server owes the target
    version,   \* version of the document at the server
    denied,    \* the security rules deny the query
    basis      \* history: version when the present listen began

client == <<get, answer, synced, cache>>
network == <<stream, tracker, agg, breaks>>
wires == <<toServer, toClient, backend>>
server == <<version, denied>>
vars == <<client, network, wires, server, basis>>

NoAnswer == [is |-> "none", ver |-> 0]
Answers == [is : {"synced", "cached", "error"}, ver : 0..MaxVersion]

\* Version 0 stands for no document.
NoTarget == [outstanding |-> 0, current |-> FALSE, doc |-> 0]

Message(type) == [type |-> type, ver |-> 0]
Messages == [type : {"added", "removed", "current", "doc", "snapshot", "denied"},
             ver : 0..MaxVersion]

TypeOK ==
    /\ get \in [Gets -> {"new", "waiting", "raised", "gone"}]
    /\ answer \in [Gets -> Answers \cup {NoAnswer}]
    /\ synced \in BOOLEAN /\ cache \in 0..MaxVersion
    /\ stream \in StreamStates /\ tracker \in Trackers
    /\ agg \in [outstanding : Int, current : BOOLEAN, doc : 0..MaxVersion]
    /\ breaks \in 0..MaxBreaks
    /\ toServer \in Seq({"watch", "unwatch"}) /\ toClient \in Seq(Messages)
    /\ backend \in {"none", "added", "owing", "settled"}
    /\ version \in 1..MaxVersion /\ denied \in BOOLEAN
    /\ basis \in 0..MaxVersion

Init ==
    /\ get = [g \in Gets |-> "new"] /\ answer = [g \in Gets |-> NoAnswer]
    /\ synced = FALSE /\ cache \in 0..1
    /\ stream = Stopped /\ tracker = UpdateState("Unknown")
    /\ agg = NoTarget /\ breaks = 0
    /\ toServer = <<>> /\ toClient = <<>> /\ backend = "none"
    /\ version = 1 /\ denied \in BOOLEAN
    /\ basis = 0

-----------------------------------------------------------------------------
Listeners(stage) == {g \in Gets : stage[g] \in {"waiting", "raised"}}
\* Then queries_, queries_by_target_ and listen_targets_ hold the query.
Listening == Listeners(get) # {}

\* A listener waits for the server unless there is no hope to hear of it.
ShouldRaiseInitialEvent(isSynced, t) == isSynced \/ t.state = "Offline"

\* The listeners of the stages hear of the view and of the online state: those
\* that wait are raised if they should be.  Offline a view is from cache.
Tell(stage, isSynced, t, ver) ==
    LET raised == {g \in Gets : stage[g] = "waiting"
                                /\ ShouldRaiseInitialEvent(isSynced, t)}
        is == IF t.state = "Offline" THEN "cached" ELSE "synced"
    IN  /\ get' = [g \in Gets |-> IF g \in raised THEN "raised" ELSE stage[g]]
        /\ answer' = [g \in Gets |-> IF g \in raised THEN [is |-> is, ver |-> ver]
                                     ELSE answer[g]]
        /\ synced' = (isSynced /\ t.state # "Offline")

Waiting(g) == [get EXCEPT ![g] = "waiting"]

\* A request is counted until the server confirms it.
Send(request) ==
    /\ toServer' = Append(toServer, request)
    /\ agg' = [agg EXCEPT !.outstanding = @ + 1]

\* The stream is closed: what is on its way is lost, and the aggregator too.
DropStream ==
    /\ agg' = NoTarget
    /\ toServer' = <<>> /\ toClient' = <<>> /\ backend' = "none"

Break == breaks < MaxBreaks /\ breaks' = breaks + 1

-----------------------------------------------------------------------------
(* The callers. *)

\* Variant with a bug: the new listener is not told what is known already.
JoinListeners_NotTold(g) ==
    /\ get[g] = "new" /\ Listening
    /\ get' = Waiting(g)
    /\ UNCHANGED <<answer, synced, cache, network, wires, server, basis>>

\* getDocuments while another call still listens to the query: the stored view
\* is told to the new listener.
JoinListeners(g) ==
    /\ get[g] = "new" /\ Listening
    /\ Tell(Waiting(g), synced, tracker, cache)
    /\ UNCHANGED <<cache, network, wires, server, basis>>

\* getDocuments that nobody else waits for: a view from cache is computed and
\* told, then the target is watched.
Listen(g) ==
    /\ get[g] = "new" /\ ~Listening
    /\ Tell(Waiting(g), FALSE, tracker, cache)
    /\ basis' = version
    /\ \/ /\ ~IsStarted(stream)
          /\ stream' = Start(stream) /\ agg' = NoTarget
          /\ tracker' = HandleWatchStreamStart(tracker)
          /\ UNCHANGED wires
       \/ /\ IsOpen(stream)
          /\ Send("watch") /\ stream' = Write(stream)
          /\ UNCHANGED <<tracker, toClient, backend>>
       \/ /\ IsStarted(stream) /\ ~IsOpen(stream)
          /\ UNCHANGED <<stream, tracker, agg, wires>>
    /\ UNCHANGED <<cache, breaks, server>>

\* Once raised, the listener is removed on the worker queue.  The last one
\* stops the listen.
RemoveListener(g) ==
    /\ get[g] = "raised"
    /\ get' = [get EXCEPT ![g] = "gone"]
    /\ IF Listeners(get) # {g}
       THEN UNCHANGED <<synced, stream, tracker, agg, wires>>
       ELSE /\ synced' = FALSE
            /\ \/ /\ IsOpen(stream)
                  /\ Send("unwatch") /\ stream' = MarkIdle(Write(stream))
                  /\ UNCHANGED <<tracker, toClient, backend>>
               \/ /\ ~IsOpen(stream)
                  /\ tracker' = UpdateState("Unknown")
                  /\ UNCHANGED <<stream, agg, wires>>
    /\ UNCHANGED <<answer, cache, breaks, server, basis>>

-----------------------------------------------------------------------------
(* The watch stream. *)

\* Variant with a bug: the watches are not restored.
OnWatchStreamOpen_NotRestored ==
    /\ stream.state = "Starting"
    /\ stream' = OnStreamStart(stream)
    /\ UNCHANGED <<client, tracker, agg, breaks, wires, server, basis>>

\* A token of an earlier start is recognised by close_count_ and dropped.
OnWatchStreamOpen ==
    /\ stream.state = "Starting"
    /\ stream' = OnStreamStart(stream)
    /\ IF Listening THEN Send("watch") ELSE UNCHANGED <<toServer, agg>>
    /\ UNCHANGED <<client, tracker, breaks, toClient, backend, server, basis>>

\* The stream, or getting the token for it, fails.
OnWatchStreamError ==
    /\ stream.state \in {"Starting", "Open"}
    /\ IF tracker.state = "Online" THEN Break ELSE UNCHANGED breaks
    /\ IF Listening
       THEN LET t == HandleWatchStreamFailure(tracker)
            IN  /\ stream' = Start(Failed)
                /\ tracker' = HandleWatchStreamStart(t)
                /\ Tell(get, synced, t, cache)
       ELSE /\ stream' = Failed /\ tracker' = UpdateState("Unknown")
            /\ UNCHANGED <<get, answer, synced>>
    /\ DropStream
    /\ UNCHANGED <<cache, server, basis>>

BackoffElapses ==
    /\ stream.state = "Backoff"
    /\ stream' = [stream EXCEPT !.state = "Starting"]
    /\ UNCHANGED <<client, tracker, agg, breaks, wires, server, basis>>

\* Variant with a bug: the online state survives the stream.
IdleTimeout_StateStays ==
    /\ stream.idle
    /\ stream' = Stopped /\ DropStream
    /\ UNCHANGED <<client, tracker, breaks, server, basis>>

\* A stream that is needed is not idle: OnWatchStreamClose asserts it.
IdleTimeout ==
    /\ stream.idle
    /\ stream' = Stopped /\ tracker' = UpdateState("Unknown")
    /\ DropStream
    /\ UNCHANGED <<client, breaks, server, basis>>

OnlineTimeout ==
    /\ tracker.timer
    /\ tracker' = OnlineStateTimeout(tracker)
    /\ Tell(get, synced, tracker', cache)
    /\ UNCHANGED <<cache, stream, agg, breaks, wires, server, basis>>

\* The connection or the credentials have changed.
RestartNetwork ==
    /\ Break
    /\ stream' = IF Listening THEN Start(Stopped) ELSE Stopped
    /\ tracker' = IF Listening THEN HandleWatchStreamStart(UpdateState("Unknown"))
                  ELSE UpdateState("Unknown")
    /\ DropStream
    /\ UNCHANGED <<client, server, basis>>

-----------------------------------------------------------------------------
(* OnWatchStreamChange.  Any response shows that the client is online. *)

\* Variant with a bug: responses that are due to earlier requests count as well.
Active_Pending == Listening

\* A target is active when the server has confirmed all that was requested.
Active == Listening /\ agg.outstanding = 0

Receive(type) ==
    /\ toClient # <<>> /\ Head(toClient).type = type
    /\ toClient' = Tail(toClient)
    /\ tracker' = UpdateState("Online")
    /\ UNCHANGED <<stream, breaks, toServer, backend, server, basis>>

ReceiveAdded ==
    /\ Receive("added")
    /\ agg' = [agg EXCEPT !.outstanding = @ - 1]
    /\ UNCHANGED client

\* With the last response that is due the state of the target is erased.
ReceiveRemoved ==
    /\ Receive("removed")
    /\ agg' = IF agg.outstanding = 1 THEN [NoTarget EXCEPT !.doc = agg.doc]
              ELSE [agg EXCEPT !.outstanding = @ - 1]
    /\ UNCHANGED client

ReceiveCurrent ==
    /\ Receive("current")
    /\ agg' = [agg EXCEPT !.current = Active \/ @]
    /\ UNCHANGED client

ReceiveDocument ==
    /\ Receive("doc")
    /\ agg' = [agg EXCEPT !.doc = IF Active THEN Head(toClient).ver ELSE @]
    /\ UNCHANGED client

\* A consistent snapshot: what is pending is applied to the cache and the view.
ReceiveSnapshot ==
    /\ Receive("snapshot")
    /\ cache' = IF agg.doc > cache THEN agg.doc ELSE cache
    /\ agg' = [agg EXCEPT !.doc = 0]
    /\ Tell(get, IF Active THEN agg.current ELSE synced, tracker', cache')

\* The target is rejected: all its listeners are told and forgotten.
ReceiveDenied ==
    /\ Receive("denied")
    /\ IF Listening
       THEN /\ get' = [g \in Gets |-> IF g \in Listeners(get) THEN "gone" ELSE get[g]]
            /\ answer' = [g \in Gets |-> IF get[g] = "waiting"
                                         THEN [is |-> "error", ver |-> 0]
                                         ELSE answer[g]]
            /\ synced' = FALSE
            /\ agg' = [NoTarget EXCEPT !.doc = agg.doc]
       ELSE UNCHANGED <<get, answer, synced, agg>>
    /\ UNCHANGED cache

OnWatchStreamChange ==
    ReceiveAdded \/ ReceiveRemoved \/ ReceiveCurrent \/ ReceiveDocument
    \/ ReceiveSnapshot \/ ReceiveDenied

-----------------------------------------------------------------------------
(* The server. *)

Serve(request, reply, owes) ==
    /\ toServer # <<>> /\ Head(toServer) = request
    /\ toServer' = Tail(toServer)
    /\ toClient' = Append(toClient, Message(reply)) /\ backend' = owes
    /\ UNCHANGED <<client, network, server, basis>>

ServeWatch == Serve("watch", IF denied THEN "denied" ELSE "added",
                    IF denied THEN "none" ELSE "added")

ServeUnwatch == Serve("unwatch", "removed", "none")

Document == [type |-> "doc", ver |-> version]

ServeCurrent ==
    /\ backend = "added" /\ backend' = "owing"
    /\ toClient' = toClient \o <<Document, Message("current")>>
    /\ UNCHANGED <<client, network, toServer, server, basis>>

ServeSnapshot ==
    /\ backend = "owing" /\ backend' = "settled"
    /\ toClient' = Append(toClient, Message("snapshot"))
    /\ UNCHANGED <<client, network, toServer, server, basis>>

\* The document changes.
Change ==
    /\ version < MaxVersion /\ version' = version + 1
    /\ IF backend \in {"owing", "settled"}
       THEN /\ backend' = "owing"
            /\ toClient' = Append(toClient, [Document EXCEPT !.ver = version'])
       ELSE UNCHANGED <<backend, toClient>>
    /\ UNCHANGED <<client, network, toServer, denied, basis>>

ServerAnswers == ServeWatch \/ ServeUnwatch \/ ServeCurrent \/ ServeSnapshot

-----------------------------------------------------------------------------
ServerOwes == toServer # <<>> \/ backend \in {"added", "owing"}

Next ==
    \/ \E g \in Gets : JoinListeners(g) \/ Listen(g) \/ RemoveListener(g)
    \/ OnWatchStreamOpen \/ OnWatchStreamError \/ BackoffElapses
    \/ IdleTimeout \/ OnlineTimeout \/ RestartNetwork
    \/ OnWatchStreamChange
    \/ ServerAnswers \/ Change

Spec == Init /\ [][Next]_vars

\* Tokens and timers come.  What is received is handled.  A server that owes a
\* response sends it, or else the keepalive of the connection finds it broken.
Fairness ==
    /\ WF_vars(OnWatchStreamOpen) /\ WF_vars(BackoffElapses)
    /\ WF_vars(OnWatchStreamChange)
    /\ WF_vars(ServerOwes /\ (ServerAnswers \/ OnWatchStreamError))

FairSpec == Spec /\ Fairness

-----------------------------------------------------------------------------
(* Properties. *)

\* Without a stream there is no belief about the connection left over: no timer,
\* no failures, Unknown.  StartWatchStream relies on it, which asserts that no
\* timer runs; StopListening, OnWatchStreamClose and RestartNetwork see to it.
UnknownUntilStarted == ~IsStarted(stream) => tracker = UpdateState("Unknown")

\* The timer runs only while the client tries to connect and has not given up:
\* what OnlineStateTimeout asserts when it elapses.
TimerMeansTrying ==
    tracker.timer => /\ tracker.state = "Unknown" /\ IsStarted(stream)
                     /\ tracker.failures < kMaxWatchStreamFailures

\* Online is said only of a stream that is open, and without a failure or a
\* timer: what HandleWatchStreamFailure asserts.
OnlineIsEarned ==
    tracker.state = "Online" => /\ IsOpen(stream)
                                /\ tracker.failures = 0 /\ ~tracker.timer

\* The idle timer runs on an open stream that nobody listens on, however calls
\* come and go: OnWatchStreamClose asserts it when the timer has stopped the
\* stream.
IdleMeansUnwatched == stream.idle => IsOpen(stream) /\ ~Listening

\* What the code asserts of the stream and the tracker, over all orders of calls,
\* timers, failures and restarts.
AssertionsHold == /\ UnknownUntilStarted /\ TimerMeansTrying
                  /\ OnlineIsEarned /\ IdleMeansUnwatched

\* Nobody waits for an event that is due: a listener is told when it joins, when
\* the view is synced and when the client goes offline, whichever comes first.
NoMissedAnswer ==
    \A g \in Gets : get[g] = "waiting" => ~ShouldRaiseInitialEvent(synced, tracker)

\* A view that counts as synced is as fresh as the server was when the listen
\* began: responses to earlier listens of the same target, which are still on
\* their way after a quick unwatch and watch, do not make it synced.
SyncedIsFresh == Listening /\ synced => cache >= basis

\* The promise that the models of the screens are written against, with its
\* liveness: every call of getDocuments is answered once.
Promise == INSTANCE QueryPromise WITH asked <- {g \in Gets : get[g] # "new"}
KeepsQueryPromise == Promise!Spec

\* "If the timeout is reached, we transition to Offline rather than waiting
\* indefinitely" (online_state_tracker.cc:48): while a call waits and nobody
\* knows whether the server is there, the timer runs.
UnknownIsTimed ==
    (\E g \in Gets : get[g] = "waiting") /\ tracker.state = "Unknown"
        => tracker.timer
=============================================================================
