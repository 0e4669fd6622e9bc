----------------------------- MODULE WriteStore -----------------------------
(***************************************************************************)
(* How Firestore brings the writes of the screens (updateData, setData) to *)
(* the server: the SyncEngine's callbacks, the mutation queues on the      *)
(* device, the RemoteStore's write pipeline, the write stream with its     *)
(* handshake, and the cache.  All run on one worker queue, so that a       *)
(* handler is one step.  Every user has one document; a write sets one     *)
(* field of it, or adds to or removes from an array.  The screens have     *)
(* read the document before they write to it.                              *)
(*                                                                         *)
(* The server and the network are external: requests and responses keep    *)
(* their order within a stream and are lost with it, though requests that  *)
(* arrived are carried out; the rules give a write the same verdict        *)
(* whenever it comes; each write carried out makes a version.  Not         *)
(* modelled: transactions, waitForPendingWrites.                           *)
(***************************************************************************)
EXTENDS Stream, Naturals, Sequences, SequencesExt

CONSTANTS Users,
          MaxWrites,           \* writes of this device
          kMaxPendingWrites,   \* writes in the pipeline
          MaxBreaks,           \* failures, restarts, changes of the credentials
          MaxOther,            \* writes of other devices
          Fields,              \* of a user's document
          ArrayFields,         \* those written by arrayUnion and arrayRemove
          Field                \* Field[w]: the field that a write changes

ASSUME WriteBounds ==
    /\ MaxWrites \in Nat /\ MaxBreaks \in Nat /\ MaxOther \in Nat
    /\ kMaxPendingWrites \in Nat \ {0}

Writes == 1..MaxWrites  \* in the order in which they are issued
AllWrites == 1..(MaxWrites + MaxOther)  \* then those of other devices
Hello == 0              \* the request of the handshake
Nobody == "nobody"      \* no owner: not yet written

ASSUME UsersAssumption == Users # {} /\ Nobody \notin Users
ASSUME FieldAssumption == Field \in [AllWrites -> Fields] /\ ArrayFields \subseteq Fields

VARIABLES
    user,       \* current_user_
    owner,      \* history: the user who issued each write
    batchId,    \* the id of each write's batch
    nextId,     \* next_batch_id_
    queue,      \* the mutation queue of each user, on disk
    callbacks,  \* mutation_callbacks_: of each user, pairs of an id and a write
    told,       \* what the caller of each write was told; "orphan" when the
                \* process of the caller ended before
    pipeline,   \* write_pipeline_
    stream,     \* write_stream_
    handshake,  \* handshake_complete_
    toServer,   \* requests on the stream: Hello or writes
    toClient,   \* responses: hello, the version of a commit, or denied
    log,        \* server: the write that made each version of the document
    bad,        \* server: the writes that the rules deny
    cache,      \* each user's document in the remote document cache: its
                \* version, for each field the versions its value is made of,
                \* and whether writes were applied to it (kCommittedMutations)
    watched,    \* history: the newest version that the watch stream brought
    overtaken,  \* history: writes whose result was dropped for a later status
    breaks, others

device == <<user, owner, batchId, nextId, queue, callbacks, told>>
network == <<pipeline, stream, handshake>>
wires == <<toServer, toClient>>
vars == <<device, network, wires, log, bad, cache, watched, overtaken, breaks, others>>

Response(type, ver) == [type |-> type, ver |-> ver]

CachedDocuments == [ver : Nat, doc : [Fields -> SUBSET Nat], committed : BOOLEAN]

\* Version n of a document: a field has the value that was set last, an array
\* all that was done to it.
Document(l, n) ==
    [f \in Fields |->
        LET changes == {v \in 1..n : Field[l[v]] = f}
        IN  IF f \in ArrayFields THEN changes
            ELSE {v \in changes : \A x \in changes : x <= v}]

TypeOK ==
    /\ user \in Users /\ owner \in [Writes -> Users \cup {Nobody}]
    /\ batchId \in [Writes -> 0..MaxWrites] /\ nextId \in 1..(MaxWrites + 1)
    /\ queue \in [Users -> SUBSET Writes]
    /\ callbacks \in [Users -> SUBSET ((1..MaxWrites) \X Writes)]
    /\ told \in [Writes -> {"nothing", "done", "failed", "orphan"}]
    /\ pipeline \in Seq(Writes) /\ stream \in StreamStates
    /\ handshake \in BOOLEAN
    /\ toServer \in Seq(Writes \cup {Hello})
    /\ toClient \in Seq([type : {"hello", "done", "denied"}, ver : Nat])
    /\ log \in [Users -> Seq(AllWrites)]
    /\ bad \subseteq Writes /\ overtaken \subseteq Writes
    /\ cache \in [Users -> CachedDocuments]
    /\ watched \in [Users -> Nat]
    /\ breaks \in 0..MaxBreaks /\ others \in 0..MaxOther

Init ==
    /\ user = CHOOSE u \in Users : TRUE   \* nothing tells them apart
    /\ owner = [w \in Writes |-> Nobody]
    /\ batchId = [w \in Writes |-> 0] /\ nextId = 1
    /\ queue = [u \in Users |-> {}] /\ callbacks = [u \in Users |-> {}]
    /\ told = [w \in Writes |-> "nothing"]
    /\ pipeline = <<>> /\ stream = Stopped /\ handshake = FALSE
    /\ toServer = <<>> /\ toClient = <<>>
    /\ log = [u \in Users |-> <<>>] /\ bad \in SUBSET Writes
    /\ cache = [u \in Users |-> [ver |-> 0, doc |-> Document(<<>>, 0),
                                 committed |-> FALSE]]
    /\ watched = [u \in Users |-> 0]
    /\ overtaken = {} /\ breaks = 0 /\ others = 0

-----------------------------------------------------------------------------
(* The mutation queue and the pipeline. *)

\* Variant with a bug: an id is left out.
LoadNextBatchIdFromDb_OffByOne == 2 + Max({0} \cup {batchId[w] : w \in UNION Range(queue)})

\* Variant with a bug: ids start anew, whatever the queues hold.
LoadNextBatchIdFromDb_Anew == 1

LoadNextBatchIdFromDb == 1 + Max({0} \cup {batchId[w] : w \in UNION Range(queue)})

\* Batches in the order of their ids, which are their keys on disk.
InOrder(ids, batches) ==
    CHOOSE s \in [1..Cardinality(batches) -> batches] :
        \A i, j \in DOMAIN s : i < j => s[i] # s[j] /\ ids[s[i]] <= ids[s[j]]

\* The batches that follow those of a pipeline, as far as there is room.
NextBatches(ids, batches, p) ==
    LET last == IF p = <<>> THEN 0 ELSE ids[Last(p)]
        rest == InOrder(ids, {w \in batches : ids[w] > last})
    IN  SubSeq(rest, 1, Min({Len(rest), kMaxPendingWrites - Len(p)}))

\* Variant with a bug: batches are sent before the handshake is complete.
FillWritePipeline_Early(ids, batches, p, s, requests) ==
    LET added == NextBatches(ids, batches, p)
    IN  /\ pipeline' = p \o added
        /\ toServer' = IF IsOpen(s) THEN requests \o added ELSE requests
        /\ stream' = IF p \o added = <<>> THEN MarkIdle(s)
                     ELSE IF ~IsStarted(s) THEN Start(s)
                     ELSE IF added = <<>> THEN s ELSE Write(s)

\* Variant with a bug: a batch that is sent does not cancel the idle timer.
FillWritePipeline_IdleStays(ids, batches, p, s, requests) ==
    LET added == NextBatches(ids, batches, p)
    IN  /\ pipeline' = p \o added
        /\ toServer' = IF IsOpen(s) /\ handshake THEN requests \o added ELSE requests
        /\ stream' = IF p \o added = <<>> THEN MarkIdle(s)
                     ELSE IF ~IsStarted(s) THEN Start(s) ELSE s

\* The pipeline p of the stream s is filled.  What is added is sent after the
\* requests, if the stream is ready; a stream that is needed is started.
FillWritePipeline(ids, batches, p, s, requests) ==
    LET added == NextBatches(ids, batches, p)
        send == IsOpen(s) /\ handshake /\ added # <<>>
    IN  /\ pipeline' = p \o added
        /\ toServer' = IF send THEN requests \o added ELSE requests
        /\ stream' = IF p \o added = <<>> THEN MarkIdle(s)
                     ELSE IF ~IsStarted(s) THEN Start(s)
                     ELSE IF send THEN Write(s) ELSE s

\* Variant with a bug: the callback is kept.
NotifyUser_Kept(id, status) ==
    LET found == {c \in callbacks[user] : c[1] = id}
    IN  /\ UNCHANGED callbacks
        /\ told' = [w \in Writes |-> IF \E c \in found : c[2] = w THEN status
                                     ELSE told[w]]

\* The caller hears of the batch, if it is there.
NotifyUser(id, status) ==
    LET found == {c \in callbacks[user] : c[1] = id}
    IN  /\ callbacks' = [callbacks EXCEPT ![user] = @ \ found]
        /\ told' = [w \in Writes |-> IF \E c \in found : c[2] = w THEN status
                                     ELSE told[w]]

Issued == {w \in Writes : owner[w] # Nobody}

\* A screen writes.
WriteMutations(w) ==
    /\ w \notin Issued /\ \A v \in 1..(w - 1) : v \in Issued
    /\ owner' = [owner EXCEPT ![w] = user]
    /\ batchId' = [batchId EXCEPT ![w] = nextId] /\ nextId' = nextId + 1
    /\ queue' = [queue EXCEPT ![user] = @ \cup {w}]
    /\ callbacks' = [callbacks EXCEPT ![user] = @ \cup {<<nextId, w>>}]
    /\ FillWritePipeline(batchId', queue'[user], pipeline, stream, toServer)
    /\ UNCHANGED <<user, told, handshake, toClient, log, bad, cache, watched, overtaken,
                   breaks, others>>

-----------------------------------------------------------------------------
(* The write stream. *)

Receive(type) ==
    /\ toClient # <<>> /\ Head(toClient).type = type
    /\ toClient' = Tail(toClient)

OnWriteStreamOpen ==
    /\ stream.state = "Starting"
    /\ stream' = OnStreamStart(stream)
    /\ toServer' = <<Hello>>
    /\ UNCHANGED <<device, pipeline, handshake, toClient, log, bad, cache, watched,
                   overtaken, breaks, others>>

OnWriteStreamHandshakeComplete ==
    /\ Receive("hello")
    /\ handshake' = TRUE
    /\ toServer' = toServer \o pipeline
    /\ stream' = IF pipeline = <<>> THEN stream ELSE Write(stream)
    /\ UNCHANGED <<device, pipeline, log, bad, cache, watched, overtaken, breaks, others>>

\* What the write w, carried out as version ver, makes of a document.
ApplyToRemoteDocument(doc, w, ver) ==
    [doc EXCEPT ![Field[w]] = IF Field[w] \in ArrayFields THEN @ \cup {ver}
                              ELSE {ver}]

\* Variant with a bug: the result is not applied to the cached document.
ApplyBatchResult_NotCached(w, ver) == UNCHANGED cache

\* An older document takes the write, and the version that it was committed as.
ApplyBatchResult(w, ver) ==
    cache' = [cache EXCEPT ![user] =
        IF @.ver < ver
        THEN [ver |-> ver, doc |-> ApplyToRemoteDocument(@.doc, w, ver),
              committed |-> TRUE]
        ELSE @]

\* The result of the first batch in the pipeline.
OnWriteStreamMutationResult ==
    /\ Receive("done")
    /\ LET w == Head(pipeline)
       IN  /\ NotifyUser(batchId[w], "done")
           /\ ApplyBatchResult(w, Head(toClient).ver)
           /\ queue' = [queue EXCEPT ![user] = @ \ {w}]
           /\ FillWritePipeline(batchId, queue'[user], Tail(pipeline), stream,
                                toServer)
    /\ UNCHANGED <<user, owner, batchId, nextId, handshake, log, bad, watched,
                   overtaken, breaks, others>>

\* The server has ended the stream.
HasEnded == toClient # <<>> /\ Last(toClient).type = "denied"

\* The first batch in the pipeline is rejected, and the stream started for the
\* rest without a backoff.
HandleWriteError ==
    LET w == Head(pipeline)
    IN  /\ queue' = [queue EXCEPT ![user] = @ \ {w}]
        /\ NotifyUser(batchId[w], "failed")
        /\ FillWritePipeline(batchId, queue'[user], Tail(pipeline), Stopped, <<>>)
        /\ overtaken' = IF Len(toClient) > 1 THEN overtaken \cup {w} ELSE overtaken
        /\ UNCHANGED <<user, owner, batchId, nextId>>

\* The stream is closed with a permanent error, after the handshake.  If a
\* request has failed before the worker queue came to them, responses are dropped
\* (GrpcStream::FinishGrpcCall), so that the status overtakes them.
OnWriteStreamDenied ==
    /\ HasEnded
    /\ HandleWriteError
    /\ toClient' = <<>> /\ handshake' = FALSE
    /\ UNCHANGED <<log, bad, cache, watched, breaks, others>>

Break == breaks < MaxBreaks /\ breaks' = breaks + 1

\* The stream, or getting the token for it, fails with any other error or before
\* the handshake is complete.  It is started again if it is needed.
OnWriteStreamBroken ==
    /\ stream.state \in {"Starting", "Open"}
    /\ Break
    /\ stream' = IF pipeline = <<>> THEN Failed ELSE Start(Failed)
    /\ toServer' = <<>> /\ toClient' = <<>> /\ handshake' = FALSE
    /\ UNCHANGED <<device, pipeline, log, bad, cache, watched, overtaken, others>>

BackoffElapses ==
    /\ stream.state = "Backoff"
    /\ stream' = [stream EXCEPT !.state = "Starting"]
    /\ UNCHANGED <<device, pipeline, handshake, wires, log, bad, cache, watched,
                   overtaken, breaks, others>>

IdleTimeout ==
    /\ stream.idle
    /\ stream' = Stopped
    /\ toServer' = <<>> /\ toClient' = <<>> /\ handshake' = FALSE
    /\ UNCHANGED <<device, pipeline, log, bad, cache, watched, overtaken, breaks, others>>

-----------------------------------------------------------------------------
(* Restarts. *)

\* The streams are stopped and the pipeline is filled from the user's queue.
RestartNetwork(u) ==
    /\ FillWritePipeline(batchId, queue[u], <<>>, Stopped, <<>>)
    /\ toClient' = <<>> /\ handshake' = FALSE
    /\ UNCHANGED <<log, bad, cache, watched, overtaken, others>>

\* The connection or the token has changed, or the user has.
HandleCredentialChange(u) ==
    /\ Break
    /\ user' = u
    /\ nextId' = IF u = user THEN nextId ELSE LoadNextBatchIdFromDb
    /\ RestartNetwork(u)
    /\ UNCHANGED <<owner, batchId, queue, callbacks, told>>

\* Variant with a bug: the process starts without a look at its queue.
StartProcess_Empty ==
    /\ Break
    /\ nextId' = LoadNextBatchIdFromDb
    /\ callbacks' = [u \in Users |-> {}]
    /\ told' = [w \in Writes |-> IF w \in Issued /\ told[w] = "nothing"
                                 THEN "orphan" ELSE told[w]]
    /\ pipeline' = <<>> /\ stream' = Stopped /\ handshake' = FALSE
    /\ toServer' = <<>> /\ toClient' = <<>>
    /\ UNCHANGED <<user, owner, batchId, queue, log, bad, cache, watched, overtaken, others>>

\* The process ends and starts again: the callers are gone, the queues are not.
StartProcess ==
    /\ Break
    /\ nextId' = LoadNextBatchIdFromDb
    /\ callbacks' = [u \in Users |-> {}]
    /\ told' = [w \in Writes |-> IF w \in Issued /\ told[w] = "nothing"
                                 THEN "orphan" ELSE told[w]]
    /\ RestartNetwork(user)
    /\ UNCHANGED <<user, owner, batchId, queue>>

-----------------------------------------------------------------------------
(* The server, the other devices, and the watch stream. *)

\* It reads on until it has denied a request.
Serve(reply) ==
    /\ toServer' = Tail(toServer) /\ toClient' = Append(toClient, reply)
    /\ ~HasEnded
    /\ UNCHANGED <<device, network, bad, cache, watched, overtaken, breaks, others>>

ServeHello ==
    /\ toServer # <<>> /\ Head(toServer) = Hello
    /\ Serve(Response("hello", 0)) /\ UNCHANGED log

ServeWrite ==
    /\ toServer # <<>> /\ Head(toServer) # Hello
    /\ LET w == Head(toServer)
       IN  IF w \in bad THEN Serve(Response("denied", 0)) /\ UNCHANGED log
           ELSE /\ log' = [log EXCEPT ![owner[w]] = Append(@, w)]
                /\ Serve(Response("done", Len(log'[owner[w]])))

OtherWrites(u) ==
    /\ others < MaxOther /\ others' = others + 1
    /\ log' = [log EXCEPT ![u] = Append(@, MaxWrites + others')]
    /\ UNCHANGED <<device, network, wires, bad, cache, watched, overtaken, breaks>>

Watched(ver) ==
    [ver |-> ver, doc |-> Document(log[user], ver), committed |-> FALSE]

\* Variant with a bug: an older document replaces a newer one.
ApplyRemoteEvent_Older(ver) == cache' = [cache EXCEPT ![user] = Watched(ver)]

\* Variant with a bug: a document of the same version is ignored, too.
ApplyRemoteEvent_Newer(ver) ==
    cache' = [cache EXCEPT ![user] = IF ver > @.ver THEN Watched(ver) ELSE @]

\* A document that is outdated is ignored; one of the same version replaces one
\* that writes were applied to.
ApplyRemoteEvent(ver) ==
    cache' = [cache EXCEPT ![user] =
        IF ver > @.ver \/ (ver = @.ver /\ @.committed) THEN Watched(ver) ELSE @]

\* The watch stream brings a version of the document, no matter how late.
WatchDocument(ver) ==
    /\ ver \in DOMAIN log[user]
    /\ ApplyRemoteEvent(ver)
    /\ watched' = [watched EXCEPT ![user] = Max({@, ver})]
    /\ UNCHANGED <<device, network, wires, log, bad, overtaken, breaks, others>>

-----------------------------------------------------------------------------
OnWriteStreamResponse ==
    OnWriteStreamHandshakeComplete \/ OnWriteStreamMutationResult
    \/ OnWriteStreamDenied

ServerAnswers == ServeHello \/ ServeWrite

Next ==
    \/ \E w \in Writes : WriteMutations(w)
    \/ OnWriteStreamOpen \/ OnWriteStreamResponse
    \/ OnWriteStreamBroken \/ BackoffElapses \/ IdleTimeout
    \/ \E u \in Users : HandleCredentialChange(u) \/ OtherWrites(u)
    \/ StartProcess
    \/ ServerAnswers
    \/ \E ver \in UNION {DOMAIN log[u] : u \in Users} : WatchDocument(ver)

Spec == Init /\ [][Next]_vars

\* Tokens and timers come.  What is received is handled.  A server that owes a
\* response sends it, or else the keepalive of the connection finds it broken.
Fairness ==
    /\ WF_vars(OnWriteStreamOpen) /\ WF_vars(BackoffElapses)
    /\ WF_vars(OnWriteStreamResponse)
    /\ WF_vars(toServer # <<>> /\ (ServerAnswers \/ OnWriteStreamBroken))

FairSpec == Spec /\ Fairness

-----------------------------------------------------------------------------
(* Properties. *)

\* The pipeline holds the oldest of the user's writes that are not resolved, as
\* many as it may, in the order in which they were issued: through acknow-
\* ledgements, rejections, restarts and changes of the user, which give out ids
\* anew.
PipelineIsOldest ==
    LET mine == InOrder([w \in Writes |-> w], queue[user])
    IN  pipeline = SubSeq(mine, 1, Min({Len(mine), kMaxPendingWrites}))

\* Each caller of this process that was told nothing yet has its callback under
\* the id of its own batch, which is still in the queue of its user, also while
\* another user is signed in.
CallbackMatches ==
    \A u \in Users :
        /\ \A c \in callbacks[u] : c[2] \in queue[u] /\ batchId[c[2]] = c[1]
        /\ \A w \in Writes : owner[w] = u /\ told[w] = "nothing"
                                => <<batchId[w], w>> \in callbacks[u]

\* The value of the field f in a document holds what version v did to it, or
\* what replaced it since.
Holds(doc, f, v) == v \in doc[f] \/ (f \notin ArrayFields /\ \E x \in doc[f] : x > v)

\* Who was told that a write is done reads it, or what replaced it, from the
\* cache, whatever the watch stream has brought before or brings after.
DoneIsRead ==
    \A w \in Writes : told[w] = "done" =>
        \E v \in DOMAIN log[owner[w]] : log[owner[w]][v] = w
                                      /\ Holds(cache[owner[w]].doc, Field[w], v)

\* A write that failed was denied, or else its result had been dropped for the
\* status of a later request.
FailedIsDenied == \A w \in Writes : told[w] = "failed" => w \in bad \cup overtaken

\* What a caller is told is true, at the server and in the cache.
ToldTruth == DoneIsRead /\ FailedIsDenied

\* A write is applied to the document that is cached, whatever other devices
\* have written since: its version then promises what the document does not
\* hold.  Once the watch stream has brought that version, it does.
WatchedIsWhole ==
    \A u \in Users : watched[u] >= cache[u].ver
                       => cache[u].doc = Document(log[u], cache[u].ver)

\* What can once be read of a field is not unread: neither a result nor the
\* watch stream brings back a value that was replaced.
ReadsAdvance ==
    [][\A u \in Users, f \in Fields :
            \A v \in cache[u].doc[f] : Holds(cache'[u].doc, f, v)]_vars

\* A write that has left the queue and was not denied is at the server, and no
\* earlier write of this device was carried out after it: writes that are sent
\* again do not leave an older value behind.
RestsOnLast ==
    \A u \in Users : \A w \in Writes \ bad :
        owner[w] = u /\ w \notin queue[u] =>
            \E v \in DOMAIN log[u] :
                log[u][v] = w /\ \A x \in DOMAIN log[u] : x > v => log[u][x] >= w

\* How often a write is carried out is bounded by the breaks and the results
\* that were dropped for a later status, over what another device may have
\* written in between.
ResentOnlyAfterBreak ==
    \A w \in Issued :
        Cardinality({v \in DOMAIN log[owner[w]] : log[owner[w]][v] = w})
            <= 1 + breaks + Cardinality(overtaken)

\* The idle timer runs only when nothing is left to send: OnWriteStreamClose
\* asserts it when the timer has stopped the stream.
IdleMeansDrained == stream.idle => IsOpen(stream) /\ queue[user] = {}

\* A write leaves the queue, done or denied, unless the user leaves.
EveryWriteLands ==
    \A u \in Users, w \in Writes :
        w \in queue[u] ~> (w \notin queue[u] \/ user # u)
=============================================================================
