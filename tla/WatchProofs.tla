----------------------------- MODULE WatchProofs -----------------------------
(***************************************************************************)
(* What holds of the watch stream and its listeners for any number of      *)
(* calls, any number of failures before the client counts as offline, and  *)
(* any number of restarts.                                                 *)
(***************************************************************************)
EXTENDS WatchStore, SequenceTheorems, FunctionTheorems, FiniteSetTheorems, TLAPS

Stages == {"new", "waiting", "raised", "gone"}
Aggregators == [outstanding : Int, current : BOOLEAN, doc : 0..MaxVersion]

-----------------------------------------------------------------------------
(* Helpers: the tracker, the stream, and what telling the listeners does.  *)

\* Each handler of the OnlineStateTracker, in one line per outcome.
LEMMA TrackerFacts ==
    ASSUME NEW t \in Trackers
    PROVE  /\ UpdateState("Unknown") \in Trackers
           /\ UpdateState("Online") \in Trackers
           /\ HandleWatchStreamStart(t) \in Trackers
           /\ HandleWatchStreamFailure(t) \in Trackers
           /\ OnlineStateTimeout(t) \in Trackers
           /\ t.failures # 0 => HandleWatchStreamStart(t) = t
           /\ t.failures = 0 => /\ HandleWatchStreamStart(t).state = "Unknown"
                                /\ HandleWatchStreamStart(t).failures = 0
           /\ HandleWatchStreamFailure(t).state # "Online"
           /\ t.state = "Online" =>
                 /\ HandleWatchStreamFailure(t).state = "Unknown"
                 /\ HandleWatchStreamFailure(t).failures = t.failures
                 /\ HandleWatchStreamFailure(t).timer = t.timer
           /\ t.state # "Online" =>
                 /\ HandleWatchStreamFailure(t).failures # 0
                 /\ \/ HandleWatchStreamFailure(t).timer = FALSE
                    \/ /\ HandleWatchStreamFailure(t).timer = t.timer
                       /\ HandleWatchStreamFailure(t).state = t.state
                       /\ HandleWatchStreamFailure(t).failures
                             < kMaxWatchStreamFailures
<1> USE FailuresAssumption
<1>1. t.failures \in Nat /\ t.failures <= kMaxWatchStreamFailures
  BY DEF Trackers
<1>2. /\ UpdateState("Unknown") \in Trackers
      /\ UpdateState("Online") \in Trackers
  BY DEF Trackers, UpdateState
<1>3. HandleWatchStreamStart(t) \in Trackers
  BY DEF Trackers, HandleWatchStreamStart
<1>4. OnlineStateTimeout(t) \in Trackers
  BY DEF Trackers, OnlineStateTimeout
<1>5. HandleWatchStreamFailure(t) \in Trackers
  BY <1>1 DEF Trackers, HandleWatchStreamFailure
<1>6. /\ t.failures # 0 => HandleWatchStreamStart(t) = t
      /\ t.failures = 0 => /\ HandleWatchStreamStart(t).state = "Unknown"
                           /\ HandleWatchStreamStart(t).failures = 0
  BY DEF Trackers, HandleWatchStreamStart
<1>7. CASE t.state = "Online"
  <2>1. HandleWatchStreamFailure(t) = [t EXCEPT !.state = "Unknown"]
    BY <1>7 DEF HandleWatchStreamFailure
  <2> QED BY <1>2, <1>3, <1>4, <1>5, <1>6, <1>7, <2>1 DEF Trackers
<1>8. CASE t.state # "Online" /\ t.failures + 1 < kMaxWatchStreamFailures
  <2>1. HandleWatchStreamFailure(t) = [t EXCEPT !.failures = @ + 1]
    BY <1>8 DEF HandleWatchStreamFailure
  <2> QED BY <1>1, <1>2, <1>3, <1>4, <1>5, <1>6, <1>8, <2>1 DEF Trackers
<1>9. CASE t.state # "Online" /\ ~(t.failures + 1 < kMaxWatchStreamFailures)
  <2>1. HandleWatchStreamFailure(t) =
           [state |-> "Offline", failures |-> kMaxWatchStreamFailures,
            timer |-> FALSE]
    BY <1>9 DEF HandleWatchStreamFailure
  <2> QED BY <1>1, <1>2, <1>3, <1>4, <1>5, <1>6, <1>9, <2>1
<1> QED BY <1>7, <1>8, <1>9

\* Each operation of a stream: whether it is open, started or idle afterwards.
LEMMA StreamFacts ==
    ASSUME NEW s \in StreamStates
    PROVE  /\ Start(s) \in StreamStates /\ IsStarted(Start(s)) /\ ~IsOpen(Start(s))
           /\ Start(s).idle = s.idle
           /\ OnStreamStart(s) \in StreamStates /\ IsOpen(OnStreamStart(s))
           /\ OnStreamStart(s).idle = s.idle
           /\ MarkIdle(s) \in StreamStates /\ MarkIdle(s).state = s.state
           /\ ~IsOpen(s) => MarkIdle(s) = s
           /\ Write(s) \in StreamStates /\ Write(s).state = s.state
           /\ Write(s).idle = FALSE
           /\ IsOpen(s) => IsStarted(s)
BY DEF StreamStates, Start, OnStreamStart, MarkIdle, Write, IsOpen, IsStarted

\* A stream that has ended is neither started nor idle.
LEMMA EndedFacts ==
    /\ Stopped \in StreamStates /\ ~IsStarted(Stopped) /\ Stopped.idle = FALSE
    /\ Failed \in StreamStates /\ ~IsStarted(Failed) /\ Failed.idle = FALSE
BY DEF StreamStates, Stopped, Failed, IsStarted

\* The listeners of the stages stay, and who waits on has nothing to be told.
LEMMA TellFacts ==
    ASSUME answer \in [Gets -> Answers \cup {NoAnswer}],
           NEW stage \in [Gets -> Stages], NEW isSynced \in BOOLEAN,
           NEW t \in Trackers, NEW ver \in 0..MaxVersion,
           Tell(stage, isSynced, t, ver)
    PROVE  /\ get' \in [Gets -> Stages]
           /\ answer' \in [Gets -> Answers \cup {NoAnswer}]
           /\ synced' \in BOOLEAN
           /\ synced' = (isSynced /\ t.state # "Offline")
           /\ Listeners(get') = Listeners(stage)
           /\ \A g \in Gets : get'[g] = "waiting" =>
                 ~isSynced /\ t.state # "Offline"
<1>1. \A is \in {"cached", "synced"} : [is |-> is, ver |-> ver] \in Answers
  BY DEF Answers
<1>2. /\ get' \in [Gets -> Stages]
      /\ answer' \in [Gets -> Answers \cup {NoAnswer}]
      /\ synced' \in BOOLEAN
      /\ synced' = (isSynced /\ t.state # "Offline")
  BY <1>1 DEF Tell, Stages
<1>3. Listeners(get') = Listeners(stage)
  BY DEF Tell, Listeners, Stages
<1>4. \A g \in Gets : get'[g] = "waiting" => ~isSynced /\ t.state # "Offline"
  BY DEF Tell, ShouldRaiseInitialEvent
<1> QED BY <1>2, <1>3, <1>4

\* Requests and responses go to the ends of typed sequences.
LEMMA WiresTyped ==
    ASSUME TypeOK
    PROVE  /\ Append(toServer, "watch") \in Seq({"watch", "unwatch"})
           /\ Append(toServer, "unwatch") \in Seq({"watch", "unwatch"})
           /\ toServer # <<>> => Tail(toServer) \in Seq({"watch", "unwatch"})
           /\ \A m \in Messages : Append(toClient, m) \in Seq(Messages)
           /\ toClient # <<>> => /\ Tail(toClient) \in Seq(Messages)
                                 /\ Head(toClient) \in Messages
<1>1. toServer \in Seq({"watch", "unwatch"}) /\ toClient \in Seq(Messages)
  BY DEF TypeOK
<1> QED BY <1>1, AppendProperties, HeadTailProperties

-----------------------------------------------------------------------------
(* Type correctness.                                                       *)

\* The handlers that tell the listeners of a view keep the types of the client.
LEMMA ClientTyped ==
    ASSUME TypeOK, NEW g \in Gets
    PROVE  /\ get \in [Gets -> Stages] /\ Waiting(g) \in [Gets -> Stages]
           /\ answer \in [Gets -> Answers \cup {NoAnswer}]
BY DEF TypeOK, Stages, Waiting

\* A response of the server changes the types of nothing.
LEMMA ReceiveTyped ==
    ASSUME TypeOK, OnWatchStreamChange
    PROVE  TypeOK'
<1> USE BoundsAssumption
<1>1. UpdateState("Online") \in Trackers /\ UpdateState("Unknown") \in Trackers
  BY FailuresAssumption DEF Trackers, UpdateState
<1>0. /\ agg \in Aggregators
      /\ [agg EXCEPT !.outstanding = @ - 1] \in Aggregators
      /\ [NoTarget EXCEPT !.doc = agg.doc] \in Aggregators
  <2>1. agg \in Aggregators
    BY DEF TypeOK, Aggregators
  <2>2. agg.doc \in 0..MaxVersion
    BY <2>1 DEF Aggregators
  <2>3. [agg EXCEPT !.outstanding = @ - 1] \in Aggregators
    BY <2>1 DEF Aggregators
  <2>4. NoTarget \in Aggregators
    BY DEF NoTarget, Aggregators
  <2>5. \A a \in Aggregators : [a EXCEPT !.doc = agg.doc] \in Aggregators
    BY <2>2 DEF Aggregators
  <2> QED BY <2>1, <2>3, <2>4, <2>5
<1>2. ASSUME NEW type, Receive(type)
      PROVE  /\ tracker' \in Trackers
             /\ toClient' \in Seq(Messages)
             /\ Head(toClient).ver \in 0..MaxVersion
             /\ UNCHANGED <<stream, breaks, toServer, backend, server, basis>>
  BY <1>1, <1>2, WiresTyped DEF Receive, Messages
<1>3. ASSUME ReceiveAdded PROVE TypeOK'
  <2>1. agg' \in Aggregators
    BY <1>3, <1>0 DEF ReceiveAdded
  <2>2. Receive("added") /\ UNCHANGED <<get, answer, synced, cache>>
    BY <1>3 DEF ReceiveAdded, client
  <2>3. /\ tracker' \in Trackers /\ toClient' \in Seq(Messages)
        /\ UNCHANGED <<stream, breaks, toServer, backend, server, basis>>
    BY <1>2, <2>2
  <2> QED BY <2>1, <2>2, <2>3 DEF TypeOK, server, Aggregators
<1>4. ASSUME ReceiveRemoved PROVE TypeOK'
  <2>1. agg' \in Aggregators
    BY <1>4, <1>0 DEF ReceiveRemoved
  <2>2. Receive("removed") /\ UNCHANGED <<get, answer, synced, cache>>
    BY <1>4 DEF ReceiveRemoved, client
  <2>3. /\ tracker' \in Trackers /\ toClient' \in Seq(Messages)
        /\ UNCHANGED <<stream, breaks, toServer, backend, server, basis>>
    BY <1>2, <2>2
  <2> QED BY <2>1, <2>2, <2>3 DEF TypeOK, server, Aggregators
<1>5. ASSUME ReceiveCurrent PROVE TypeOK'
  BY <1>2, <1>5 DEF ReceiveCurrent, TypeOK, client, server, Active
<1>6. ASSUME ReceiveDocument PROVE TypeOK'
  BY <1>2, <1>6 DEF ReceiveDocument, TypeOK, client, server
<1>7. ASSUME ReceiveSnapshot PROVE TypeOK'
  <2>1. /\ cache' \in 0..MaxVersion
        /\ agg' \in [outstanding : Int, current : BOOLEAN, doc : 0..MaxVersion]
    BY <1>7 DEF ReceiveSnapshot, TypeOK
  <2>2. (IF Active THEN agg.current ELSE synced) \in BOOLEAN
    BY DEF TypeOK
  <2>3. /\ get' \in [Gets -> Stages]
        /\ answer' \in [Gets -> Answers \cup {NoAnswer}]
        /\ synced' \in BOOLEAN
    <3>1. /\ Tell(get, IF Active THEN agg.current ELSE synced, tracker', cache')
          /\ tracker' \in Trackers
      BY <1>2, <1>7 DEF ReceiveSnapshot
    <3>2. get \in [Gets -> Stages] /\ answer \in [Gets -> Answers \cup {NoAnswer}]
      BY DEF TypeOK, Stages
    <3> QED BY <2>1, <2>2, <3>1, <3>2, TellFacts
  <2> QED BY <1>2, <1>7, <2>1, <2>3 DEF ReceiveSnapshot, TypeOK, server, Stages
<1>8. ASSUME ReceiveDenied PROVE TypeOK'
  <2>1. [is |-> "error", ver |-> 0] \in Answers
    BY DEF Answers
  <2>2. /\ get' \in [Gets -> Stages]
        /\ answer' \in [Gets -> Answers \cup {NoAnswer}]
        /\ synced' \in BOOLEAN
    BY <1>8, <2>1 DEF ReceiveDenied, TypeOK, Stages
  <2>3. agg' \in Aggregators
    BY <1>8, <1>0 DEF ReceiveDenied
  <2> QED BY <1>2, <1>8, <2>2, <2>3
       DEF ReceiveDenied, TypeOK, server, Stages, Aggregators
<1> QED BY <1>3, <1>4, <1>5, <1>6, <1>7, <1>8 DEF OnWatchStreamChange

\* Everything the client does on its own keeps the types.
LEMMA ClientStepTyped ==
    ASSUME TypeOK,
           \/ \E g \in Gets : JoinListeners(g) \/ Listen(g) \/ RemoveListener(g)
           \/ OnWatchStreamOpen \/ OnWatchStreamError \/ BackoffElapses
           \/ IdleTimeout \/ OnlineTimeout \/ RestartNetwork
    PROVE  TypeOK'
<1> USE BoundsAssumption, FailuresAssumption
<1>1. /\ agg \in Aggregators /\ NoTarget \in Aggregators
      /\ [agg EXCEPT !.outstanding = @ + 1] \in Aggregators
  BY DEF TypeOK, NoTarget, Aggregators
<1>2. /\ tracker \in Trackers /\ UpdateState("Unknown") \in Trackers
      /\ HandleWatchStreamStart(tracker) \in Trackers
      /\ HandleWatchStreamFailure(tracker) \in Trackers
      /\ HandleWatchStreamStart(HandleWatchStreamFailure(tracker)) \in Trackers
      /\ HandleWatchStreamStart(UpdateState("Unknown")) \in Trackers
      /\ OnlineStateTimeout(tracker) \in Trackers
  BY TrackerFacts DEF TypeOK
<1>3. /\ stream \in StreamStates
      /\ Start(stream) \in StreamStates /\ OnStreamStart(stream) \in StreamStates
      /\ Write(stream) \in StreamStates /\ MarkIdle(Write(stream)) \in StreamStates
      /\ Failed \in StreamStates /\ Start(Failed) \in StreamStates
      /\ Stopped \in StreamStates /\ Start(Stopped) \in StreamStates
  <2>1. stream \in StreamStates
    BY DEF TypeOK
  <2>2. /\ Start(stream) \in StreamStates /\ OnStreamStart(stream) \in StreamStates
        /\ Write(stream) \in StreamStates
    BY <2>1, StreamFacts
  <2>3. MarkIdle(Write(stream)) \in StreamStates
    BY <2>2, StreamFacts
  <2>4. /\ Failed \in StreamStates /\ Start(Failed) \in StreamStates
        /\ Stopped \in StreamStates /\ Start(Stopped) \in StreamStates
    BY StreamFacts, EndedFacts
  <2> QED BY <2>1, <2>2, <2>3, <2>4
<1>4. <<>> \in Seq(Messages) /\ <<>> \in Seq({"watch", "unwatch"})
  BY EmptySeq
<1>5. ASSUME DropStream
      PROVE  /\ agg' \in Aggregators /\ toServer' \in Seq({"watch", "unwatch"})
             /\ toClient' \in Seq(Messages) /\ backend' = "none"
  BY <1>1, <1>4, <1>5 DEF DropStream
<1>6. ASSUME NEW g \in Gets, JoinListeners(g)
      PROVE  TypeOK'
  <2>1. /\ get' \in [Gets -> Stages]
        /\ answer' \in [Gets -> Answers \cup {NoAnswer}]
        /\ synced' \in BOOLEAN
    BY <1>2, <1>6, ClientTyped, TellFacts DEF JoinListeners, TypeOK
  <2> QED BY <1>6, <2>1 DEF JoinListeners, TypeOK, network, wires, server, Stages
<1>7. ASSUME NEW g \in Gets, Listen(g)
      PROVE  TypeOK'
  <2>1. /\ get' \in [Gets -> Stages]
        /\ answer' \in [Gets -> Answers \cup {NoAnswer}]
        /\ synced' \in BOOLEAN
    BY <1>2, <1>7, ClientTyped, TellFacts DEF Listen, TypeOK
  <2>2. stream' \in StreamStates /\ tracker' \in Trackers
    BY <1>2, <1>3, <1>7 DEF Listen
  <2>3. /\ agg' \in Aggregators /\ toServer' \in Seq({"watch", "unwatch"})
        /\ UNCHANGED <<toClient, backend>>
    BY <1>1, <1>7, WiresTyped DEF Listen, Send, wires, TypeOK
  <2> QED BY <1>7, <2>1, <2>2, <2>3
       DEF Listen, TypeOK, server, Stages, Aggregators
<1>8. ASSUME NEW g \in Gets, RemoveListener(g)
      PROVE  TypeOK'
  <2>1. get' \in [Gets -> Stages] /\ synced' \in BOOLEAN
    BY <1>8 DEF RemoveListener, TypeOK, Stages
  <2>2. stream' \in StreamStates /\ tracker' \in Trackers
    BY <1>2, <1>3, <1>8 DEF RemoveListener
  <2>3. /\ agg' \in Aggregators /\ toServer' \in Seq({"watch", "unwatch"})
        /\ UNCHANGED <<toClient, backend>>
    BY <1>1, <1>8, WiresTyped DEF RemoveListener, Send, wires, TypeOK
  <2> QED BY <1>8, <2>1, <2>2, <2>3
       DEF RemoveListener, TypeOK, server, Stages, Aggregators
<1>9. CASE OnWatchStreamOpen
  <2>1. /\ stream' \in StreamStates /\ agg' \in Aggregators
        /\ toServer' \in Seq({"watch", "unwatch"})
    <3>1. stream' \in StreamStates
      BY <1>3, <1>9 DEF OnWatchStreamOpen
    <3>2. toServer \in Seq({"watch", "unwatch"})
      BY DEF TypeOK
    <3> QED BY <1>1, <1>9, <3>1, <3>2, WiresTyped DEF OnWatchStreamOpen, Send
  <2> QED BY <1>9, <2>1 DEF OnWatchStreamOpen, TypeOK, client, server, Aggregators
<1>10. CASE OnWatchStreamError
  <2>1. breaks' \in 0..MaxBreaks
    BY <1>10 DEF OnWatchStreamError, Break, TypeOK
  <2>2. stream' \in StreamStates /\ tracker' \in Trackers
    <3>1. CASE Listening
      BY <1>2, <1>3, <1>10, <3>1 DEF OnWatchStreamError
    <3>2. CASE ~Listening
      BY <1>2, <1>3, <1>10, <3>2 DEF OnWatchStreamError
    <3> QED BY <3>1, <3>2
  <2>3. /\ get' \in [Gets -> Stages]
        /\ answer' \in [Gets -> Answers \cup {NoAnswer}]
        /\ synced' \in BOOLEAN
    BY <1>2, <1>10, TellFacts DEF OnWatchStreamError, TypeOK, Stages
  <2> QED BY <1>5, <1>10, <2>1, <2>2, <2>3
       DEF OnWatchStreamError, TypeOK, server, Stages, Aggregators
<1>11. CASE BackoffElapses
  <2>1. stream' \in StreamStates
    BY <1>3, <1>11 DEF BackoffElapses, StreamStates
  <2> QED BY <1>11, <2>1 DEF BackoffElapses, TypeOK, client, wires, server
<1>12. CASE IdleTimeout
  BY <1>2, <1>3, <1>5, <1>12
     DEF IdleTimeout, TypeOK, client, server, Aggregators
<1>13. CASE OnlineTimeout
  <2>1. /\ get' \in [Gets -> Stages]
        /\ answer' \in [Gets -> Answers \cup {NoAnswer}]
        /\ synced' \in BOOLEAN
    BY <1>2, <1>13, TellFacts DEF OnlineTimeout, TypeOK, Stages
  <2> QED BY <1>2, <1>13, <2>1 DEF OnlineTimeout, TypeOK, wires, server, Stages
<1>14. CASE RestartNetwork
  <2>1. stream' \in StreamStates /\ tracker' \in Trackers
    BY <1>2, <1>3, <1>14 DEF RestartNetwork
  <2>2. breaks' \in 0..MaxBreaks
    BY <1>14 DEF RestartNetwork, Break, TypeOK
  <2> QED BY <1>5, <1>14, <2>1, <2>2
       DEF RestartNetwork, TypeOK, client, server, Aggregators
<1> QED BY <1>6, <1>7, <1>8, <1>9, <1>10, <1>11, <1>12, <1>13, <1>14

\* A step of the server keeps the types.
LEMMA ServerStepTyped ==
    ASSUME TypeOK, ServerAnswers \/ Change
    PROVE  TypeOK'
<1> USE BoundsAssumption
<1>1. \A type \in {"added", "removed", "current", "snapshot", "denied"} :
         Message(type) \in Messages
  BY DEF Message, Messages
<1>2. ASSUME NEW request, NEW reply \in {"added", "removed", "denied"},
             NEW owes \in {"none", "added"}, Serve(request, reply, owes)
      PROVE  TypeOK'
  <2>1. /\ toServer' \in Seq({"watch", "unwatch"})
        /\ toClient' \in Seq(Messages)
    BY <1>1, <1>2, WiresTyped DEF Serve
  <2> QED BY <1>2, <2>1 DEF Serve, TypeOK, client, network, server
<1>3. CASE ServeWatch
  BY <1>2, <1>3 DEF ServeWatch
<1>4. CASE ServeUnwatch
  BY <1>2, <1>4 DEF ServeUnwatch
<1>5. CASE ServeCurrent
  <2>1. Document \in Messages /\ Message("current") \in Messages
    BY <1>1 DEF Document, Messages, TypeOK
  <2>2. <<Document, Message("current")>> \in Seq(Messages)
    BY <2>1
  <2>3. toClient' \in Seq(Messages)
    BY <1>5, <2>2, ConcatProperties DEF ServeCurrent, TypeOK
  <2> QED BY <1>5, <2>3 DEF ServeCurrent, TypeOK, client, network, server
<1>6. CASE ServeSnapshot
  <2>1. toClient' \in Seq(Messages)
    BY <1>1, <1>6, WiresTyped DEF ServeSnapshot
  <2> QED BY <1>6, <2>1 DEF ServeSnapshot, TypeOK, client, network, server
<1>7. CASE Change
  <2>1. version' \in 1..MaxVersion
    BY <1>7 DEF Change, TypeOK
  <2>2. [Document EXCEPT !.ver = version'] \in Messages
    <3>1. Document \in Messages
      BY DEF Document, Messages, TypeOK
    <3>2. \A m \in Messages : [m EXCEPT !.ver = version'] \in Messages
      BY <2>1 DEF Messages
    <3> QED BY <3>1, <3>2
  <2>3. /\ toClient' \in Seq(Messages)
        /\ backend' \in {"none", "added", "owing", "settled"}
    BY <1>7, <2>2, WiresTyped DEF Change, TypeOK
  <2> QED BY <1>7, <2>1, <2>3 DEF Change, TypeOK, client, network
<1> QED BY <1>3, <1>4, <1>5, <1>6, <1>7 DEF ServerAnswers

\* The initial states are typed, and every step keeps the types.
THEOREM TypeCorrect == Spec => []TypeOK
<1>1. Init => TypeOK
  <2> SUFFICES ASSUME Init PROVE TypeOK
    OBVIOUS
  <2>1. stream \in StreamStates
    BY EndedFacts DEF Init
  <2>2. agg \in Aggregators
    BY BoundsAssumption DEF Init, Aggregators, NoTarget
  <2>3. tracker \in Trackers
    BY FailuresAssumption DEF Init, Trackers, UpdateState
  <2>4. toServer \in Seq({"watch", "unwatch"}) /\ toClient \in Seq(Messages)
    BY EmptySeq DEF Init
  <2>5. /\ get \in [Gets -> {"new", "waiting", "raised", "gone"}]
        /\ answer \in [Gets -> Answers \cup {NoAnswer}]
        /\ synced \in BOOLEAN /\ denied \in BOOLEAN
    BY DEF Init
  <2>6. /\ cache \in 0..MaxVersion /\ breaks \in 0..MaxBreaks
        /\ version \in 1..MaxVersion /\ basis \in 0..MaxVersion
    BY BoundsAssumption DEF Init
  <2>7. backend = "none"
    BY DEF Init
  <2> QED BY <2>1, <2>2, <2>3, <2>4, <2>5, <2>6, <2>7 DEF TypeOK, Aggregators
<1>2. TypeOK /\ [Next]_vars => TypeOK'
  <2> SUFFICES ASSUME TypeOK, [Next]_vars PROVE TypeOK'
    OBVIOUS
  <2>1. CASE UNCHANGED vars
    BY <2>1 DEF vars, client, network, wires, server, TypeOK
  <2>2. CASE Next
    BY <2>2, ClientStepTyped, ReceiveTyped, ServerStepTyped DEF Next
  <2> QED BY <2>1, <2>2
<1> QED BY <1>1, <1>2, PTL DEF Spec

-----------------------------------------------------------------------------
(* The assertions of the code, as one inductive invariant: what they say of *)
(* the tracker and of the idle timer needs that nothing is on the wires of  *)
(* a stream that is not open.                                               *)

WiresOpen == ~IsOpen(stream) => /\ toServer = <<>> /\ toClient = <<>>
                                /\ backend = "none"

StreamInv == AssertionsHold /\ WiresOpen

\* A tracker that was reset satisfies the assertions about it.
LEMMA ResetFacts ==
    /\ UpdateState("Unknown").state = "Unknown" /\ ~UpdateState("Unknown").timer
    /\ UpdateState("Unknown").failures = 0
    /\ UpdateState("Online").state = "Online" /\ ~UpdateState("Online").timer
    /\ UpdateState("Online").failures = 0
BY DEF UpdateState

\* A stream that stopped and is needed is started from a tracker that was reset.
LEMMA StartFromReset ==
    LET t == HandleWatchStreamStart(UpdateState("Unknown"))
    IN  t.state = "Unknown" /\ t.failures = 0
<1>1. UpdateState("Unknown") \in Trackers
  BY FailuresAssumption DEF UpdateState, Trackers
<1> QED BY <1>1, ResetFacts, TrackerFacts

\* A call that joins others changes nothing of the stream.
LEMMA JoinKeepsStream ==
    ASSUME TypeOK, StreamInv, NEW g \in Gets, JoinListeners(g)
    PROVE  StreamInv'
<1>1. UNCHANGED <<stream, tracker, toServer, toClient, backend>>
  BY DEF JoinListeners, network, wires
<1>2. ~stream.idle
  BY DEF JoinListeners, StreamInv, AssertionsHold, IdleMeansUnwatched
<1> QED BY <1>1, <1>2
   DEF StreamInv, AssertionsHold, UnknownUntilStarted, TimerMeansTrying,
       OnlineIsEarned, IdleMeansUnwatched, WiresOpen, IsOpen, IsStarted

\* A first call starts the stream, or sends its watch on the open one.
LEMMA ListenKeepsStream ==
    ASSUME TypeOK, StreamInv, NEW g \in Gets, Listen(g)
    PROVE  StreamInv'
<1>1. stream \in StreamStates /\ tracker \in Trackers
  BY DEF TypeOK
<1>2. CASE ~IsStarted(stream)
  <2>1. /\ stream' = Start(stream) /\ UNCHANGED wires
        /\ tracker' = HandleWatchStreamStart(tracker)
    BY <1>1, <1>2, StreamFacts DEF Listen
  <2>2. tracker = UpdateState("Unknown") /\ ~IsOpen(stream) /\ ~stream.idle
    BY <1>1, <1>2, StreamFacts
       DEF StreamInv, AssertionsHold, UnknownUntilStarted, IdleMeansUnwatched
  <2>3. tracker'.state = "Unknown" /\ tracker'.failures = 0
    BY <2>1, <2>2, StartFromReset
  <2>4. IsStarted(stream') /\ ~IsOpen(stream') /\ ~stream'.idle
    BY <1>1, <2>1, <2>2, StreamFacts
  <2>5. toServer' = <<>> /\ toClient' = <<>> /\ backend' = "none"
    BY <2>1, <2>2 DEF StreamInv, WiresOpen, wires
  <2> QED BY <2>3, <2>4, <2>5, FailuresAssumption
       DEF StreamInv, AssertionsHold, UnknownUntilStarted, TimerMeansTrying,
           OnlineIsEarned, IdleMeansUnwatched, WiresOpen, IsOpen, IsStarted
<1>3. CASE IsOpen(stream)
  <2>1. stream' = Write(stream) /\ UNCHANGED tracker
    BY <1>1, <1>3, StreamFacts DEF Listen
  <2>2. IsOpen(stream') /\ IsStarted(stream') /\ ~stream'.idle
    BY <1>1, <1>3, <2>1, StreamFacts DEF IsOpen, IsStarted
  <2> QED BY <1>3, <2>1, <2>2
       DEF StreamInv, AssertionsHold, UnknownUntilStarted, TimerMeansTrying,
           OnlineIsEarned, IdleMeansUnwatched, WiresOpen, IsOpen, IsStarted
<1>4. CASE IsStarted(stream) /\ ~IsOpen(stream)
  <2>1. UNCHANGED <<stream, tracker, toServer, toClient, backend>>
    BY <1>4 DEF Listen, wires
  <2>2. ~stream.idle
    BY <1>4 DEF StreamInv, AssertionsHold, IdleMeansUnwatched
  <2> QED BY <1>4, <2>1, <2>2
       DEF StreamInv, AssertionsHold, UnknownUntilStarted, TimerMeansTrying,
           OnlineIsEarned, IdleMeansUnwatched, WiresOpen, IsOpen, IsStarted
<1> QED BY <1>2, <1>3, <1>4

\* The last call that leaves marks an open stream idle, and has the tracker
\* forget a stream that is not open.
LEMMA RemoveKeepsStream ==
    ASSUME TypeOK, StreamInv, NEW g \in Gets, RemoveListener(g)
    PROVE  StreamInv'
<1>1. stream \in StreamStates
  BY DEF TypeOK
<1>2. CASE Listeners(get) # {g}
  <2>1. UNCHANGED <<stream, tracker, toServer, toClient, backend>>
    BY <1>2 DEF RemoveListener, wires
  <2>2. ~stream.idle
    BY DEF RemoveListener, StreamInv, AssertionsHold, IdleMeansUnwatched,
           Listening, Listeners, TypeOK
  <2> QED BY <2>1, <2>2
       DEF StreamInv, AssertionsHold, UnknownUntilStarted, TimerMeansTrying,
           OnlineIsEarned, IdleMeansUnwatched, WiresOpen, IsOpen, IsStarted
<1>3. CASE Listeners(get) = {g} /\ IsOpen(stream)
  <2>1. stream' = MarkIdle(Write(stream)) /\ UNCHANGED tracker
    BY <1>3 DEF RemoveListener
  <2>2. IsOpen(stream') /\ IsStarted(stream')
    <3>1. Write(stream) \in StreamStates /\ Write(stream).state = stream.state
      BY <1>1, StreamFacts
    <3>2. MarkIdle(Write(stream)).state = stream.state
      BY <3>1, StreamFacts
    <3> QED BY <1>3, <2>1, <3>2 DEF IsOpen, IsStarted
  <2>3. ~Listening'
    BY <1>3 DEF RemoveListener, Listening, Listeners, TypeOK
  <2> QED BY <1>3, <2>1, <2>2, <2>3
       DEF StreamInv, AssertionsHold, UnknownUntilStarted, TimerMeansTrying,
           OnlineIsEarned, IdleMeansUnwatched, WiresOpen, IsOpen, IsStarted
<1>4. CASE Listeners(get) = {g} /\ ~IsOpen(stream)
  <2>1. /\ UNCHANGED <<stream, toServer, toClient, backend>>
        /\ tracker' = UpdateState("Unknown")
    BY <1>4 DEF RemoveListener, wires
  <2>2. ~stream.idle
    BY <1>4 DEF StreamInv, AssertionsHold, IdleMeansUnwatched
  <2> QED BY <1>4, <2>1, <2>2, ResetFacts
       DEF StreamInv, AssertionsHold, UnknownUntilStarted, TimerMeansTrying,
           OnlineIsEarned, IdleMeansUnwatched, WiresOpen, IsOpen, IsStarted
<1> QED BY <1>2, <1>3, <1>4

\* A failure that a listener suffers counts in the tracker, which may give up;
\* another makes it forget.  Either way the stream has lost its wires.
LEMMA ErrorKeepsStream ==
    ASSUME TypeOK, StreamInv, OnWatchStreamError
    PROVE  StreamInv'
<1>1. stream \in StreamStates /\ tracker \in Trackers
  BY DEF TypeOK
<1>2. toServer' = <<>> /\ toClient' = <<>> /\ backend' = "none"
  BY DEF OnWatchStreamError, DropStream
<1>3. IsStarted(stream)
  BY DEF OnWatchStreamError, IsStarted, IsOpen
<1>4. CASE ~Listening
  <2>1. stream' = Failed /\ tracker' = UpdateState("Unknown")
    BY <1>4 DEF OnWatchStreamError
  <2>2. ~IsStarted(stream') /\ ~stream'.idle
    BY <2>1, EndedFacts
  <2> QED BY <1>2, <2>1, <2>2, ResetFacts
       DEF StreamInv, AssertionsHold, UnknownUntilStarted, TimerMeansTrying,
           OnlineIsEarned, IdleMeansUnwatched, WiresOpen, IsOpen, IsStarted
<1>5. CASE Listening
  <2> DEFINE t == HandleWatchStreamFailure(tracker)
  <2>1. stream' = Start(Failed) /\ tracker' = HandleWatchStreamStart(t)
    BY <1>5 DEF OnWatchStreamError
  <2>2. IsStarted(stream') /\ ~IsOpen(stream') /\ ~stream'.idle
    BY <2>1, EndedFacts, StreamFacts
  <2>3. t \in Trackers /\ t.state # "Online"
    BY <1>1, TrackerFacts
  <2>4. CASE t.failures = 0
    <3>1. tracker'.state = "Unknown" /\ tracker'.failures = 0
      BY <2>1, <2>3, <2>4, TrackerFacts
    <3> QED BY <1>2, <2>2, <3>1, FailuresAssumption
         DEF StreamInv, AssertionsHold, UnknownUntilStarted, TimerMeansTrying,
             OnlineIsEarned, IdleMeansUnwatched, WiresOpen, IsOpen, IsStarted
  <2>5. CASE t.failures # 0
    <3>1. tracker' = t
      BY <2>1, <2>3, <2>5, TrackerFacts
    <3>2. tracker.state # "Online"
      BY <1>1, <2>5, TrackerFacts DEF StreamInv, AssertionsHold, OnlineIsEarned
    <3>3. \/ t.timer = FALSE
          \/ /\ t.timer = tracker.timer /\ t.state = tracker.state
             /\ t.failures < kMaxWatchStreamFailures
      BY <1>1, <3>2, TrackerFacts
    <3>4. t.timer => t.state = "Unknown" /\ t.failures < kMaxWatchStreamFailures
      <4> HIDE DEF t
      <4> QED BY <3>3 DEF StreamInv, AssertionsHold, TimerMeansTrying
    <3> HIDE DEF t
    <3> QED BY <1>2, <2>2, <2>3, <3>1, <3>4
         DEF StreamInv, AssertionsHold, UnknownUntilStarted, TimerMeansTrying,
             OnlineIsEarned, IdleMeansUnwatched, WiresOpen, IsOpen, IsStarted
  <2> QED BY <2>4, <2>5
<1> QED BY <1>4, <1>5

\* Tokens, timers and restarts.
LEMMA TimersKeepStream ==
    ASSUME TypeOK, StreamInv,
           OnWatchStreamOpen \/ BackoffElapses \/ IdleTimeout \/ OnlineTimeout
             \/ RestartNetwork
    PROVE  StreamInv'
<1>1. stream \in StreamStates /\ tracker \in Trackers
  BY DEF TypeOK
<1>2. CASE OnWatchStreamOpen
  <2>1. IsStarted(stream) /\ ~IsOpen(stream)
    BY <1>2 DEF OnWatchStreamOpen, IsStarted, IsOpen
  <2>2. /\ IsOpen(stream') /\ IsStarted(stream') /\ stream'.idle = stream.idle
        /\ UNCHANGED tracker
    BY <1>1, <1>2, StreamFacts DEF OnWatchStreamOpen, IsOpen, IsStarted
  <2> QED BY <2>1, <2>2
       DEF StreamInv, AssertionsHold, UnknownUntilStarted, TimerMeansTrying,
           OnlineIsEarned, IdleMeansUnwatched, WiresOpen, IsOpen, IsStarted
<1>3. CASE BackoffElapses
  <2>1. IsStarted(stream) /\ ~IsOpen(stream)
    BY <1>3 DEF BackoffElapses, IsStarted, IsOpen
  <2>2. /\ ~IsOpen(stream') /\ IsStarted(stream') /\ stream'.idle = stream.idle
        /\ UNCHANGED <<tracker, toServer, toClient, backend>>
    BY <1>1, <1>3 DEF BackoffElapses, IsOpen, IsStarted, StreamStates, wires
  <2> QED BY <2>1, <2>2
       DEF StreamInv, AssertionsHold, UnknownUntilStarted, TimerMeansTrying,
           OnlineIsEarned, IdleMeansUnwatched, WiresOpen, IsOpen, IsStarted
<1>4. CASE IdleTimeout
  <2>1. /\ stream' = Stopped /\ tracker' = UpdateState("Unknown")
        /\ toServer' = <<>> /\ toClient' = <<>> /\ backend' = "none"
    BY <1>4 DEF IdleTimeout, DropStream
  <2>2. /\ ~IsStarted(stream') /\ ~IsOpen(stream') /\ ~stream'.idle
        /\ tracker'.state = "Unknown" /\ ~tracker'.timer
    BY <2>1, EndedFacts, ResetFacts DEF IsOpen, IsStarted
  <2>3. WiresOpen'
    BY <2>1 DEF WiresOpen
  <2> QED BY <2>1, <2>2, <2>3
       DEF StreamInv, AssertionsHold, UnknownUntilStarted, TimerMeansTrying,
           OnlineIsEarned, IdleMeansUnwatched
<1>5. CASE OnlineTimeout
  <2>1. /\ tracker'.state = "Offline" /\ ~tracker'.timer
        /\ UNCHANGED <<stream, toServer, toClient, backend>>
    BY <1>1, <1>5 DEF OnlineTimeout, OnlineStateTimeout, Trackers, wires
  <2>2. IsStarted(stream)
    BY <1>5 DEF OnlineTimeout, StreamInv, AssertionsHold, TimerMeansTrying
  <2>3. Listening' = Listening
    <3>1. Listeners(get') = Listeners(get)
      <4>1. tracker' \in Trackers /\ Tell(get, synced, tracker', cache)
        BY <1>1, <1>5, TrackerFacts DEF OnlineTimeout
      <4>2. /\ get \in [Gets -> Stages] /\ synced \in BOOLEAN
            /\ answer \in [Gets -> Answers \cup {NoAnswer}] /\ cache \in 0..MaxVersion
        BY DEF TypeOK, Stages
      <4> QED BY <4>1, <4>2, TellFacts
    <3> QED BY <3>1 DEF Listening
  <2> QED BY <2>1, <2>2, <2>3
       DEF StreamInv, AssertionsHold, UnknownUntilStarted, TimerMeansTrying,
           OnlineIsEarned, IdleMeansUnwatched, WiresOpen, IsOpen, IsStarted
<1>6. CASE RestartNetwork
  <2>1. toServer' = <<>> /\ toClient' = <<>> /\ backend' = "none"
    BY <1>6 DEF RestartNetwork, DropStream
  <2>2. CASE Listening
    <3>1. /\ stream' = Start(Stopped)
          /\ tracker' = HandleWatchStreamStart(UpdateState("Unknown"))
      BY <1>6, <2>2 DEF RestartNetwork
    <3>2. IsStarted(stream') /\ ~IsOpen(stream') /\ ~stream'.idle
      BY <3>1, EndedFacts, StreamFacts
    <3>3. tracker'.state = "Unknown" /\ tracker'.failures = 0
      BY <3>1, StartFromReset
    <3> QED BY <2>1, <3>2, <3>3, FailuresAssumption
         DEF StreamInv, AssertionsHold, UnknownUntilStarted, TimerMeansTrying,
             OnlineIsEarned, IdleMeansUnwatched, WiresOpen, IsOpen, IsStarted
  <2>3. CASE ~Listening
    <3>1. stream' = Stopped /\ tracker' = UpdateState("Unknown")
      BY <1>6, <2>3 DEF RestartNetwork
    <3> QED BY <2>1, <3>1, EndedFacts, ResetFacts
         DEF StreamInv, AssertionsHold, UnknownUntilStarted, TimerMeansTrying,
             OnlineIsEarned, IdleMeansUnwatched, WiresOpen, IsOpen, IsStarted
  <2> QED BY <2>2, <2>3
<1> QED BY <1>2, <1>3, <1>4, <1>5, <1>6

\* A response shows that the client is online; nobody begins to listen with it.
LEMMA ReceiveKeepsStream ==
    ASSUME TypeOK, StreamInv, OnWatchStreamChange
    PROVE  StreamInv'
<1>1. \E type : Receive(type)
  BY DEF OnWatchStreamChange, ReceiveAdded, ReceiveRemoved, ReceiveCurrent,
         ReceiveDocument, ReceiveSnapshot, ReceiveDenied
<1>2. /\ tracker' = UpdateState("Online") /\ UNCHANGED stream
      /\ toClient # <<>>
  BY <1>1 DEF Receive
<1>3. IsOpen(stream) /\ IsStarted(stream)
  BY <1>2 DEF StreamInv, WiresOpen, IsOpen, IsStarted
<1>4. Listening' => Listening
  <2>1. CASE ReceiveSnapshot
    <3>1. Listeners(get') = Listeners(get)
      <4>1. (IF Active THEN agg.current ELSE synced) \in BOOLEAN
        BY DEF TypeOK
      <4>2. tracker' \in Trackers /\ cache' \in 0..MaxVersion
        BY <2>1, ReceiveTyped DEF TypeOK
      <4> QED BY <2>1, <4>1, <4>2, TellFacts DEF ReceiveSnapshot, TypeOK, Stages
    <3> QED BY <3>1 DEF Listening
  <2>2. CASE ReceiveDenied
    BY <2>2 DEF ReceiveDenied, Listening, Listeners, TypeOK
  <2>3. CASE UNCHANGED client
    BY <2>3 DEF client, Listening, Listeners
  <2> QED BY <2>1, <2>2, <2>3
       DEF OnWatchStreamChange, ReceiveAdded, ReceiveRemoved, ReceiveCurrent,
           ReceiveDocument
<1> QED BY <1>2, <1>3, <1>4, ResetFacts
   DEF StreamInv, AssertionsHold, UnknownUntilStarted, TimerMeansTrying,
       OnlineIsEarned, IdleMeansUnwatched, WiresOpen, IsOpen, IsStarted

\* The server writes to the wires of an open stream only.
LEMMA ServerKeepsStream ==
    ASSUME StreamInv, ServerAnswers \/ Change
    PROVE  StreamInv'
<1>1. UNCHANGED <<client, stream, tracker>>
  BY DEF ServerAnswers, ServeWatch, ServeUnwatch, Serve, ServeCurrent,
         ServeSnapshot, Change, network
<1>2. WiresOpen'
  BY <1>1 DEF StreamInv, WiresOpen, ServerAnswers, ServeWatch, ServeUnwatch,
     Serve, ServeCurrent, ServeSnapshot, Change, IsOpen
<1> QED BY <1>1, <1>2
   DEF StreamInv, AssertionsHold, UnknownUntilStarted, TimerMeansTrying,
       OnlineIsEarned, IdleMeansUnwatched, IsOpen, IsStarted, client, Listening,
       Listeners

\* What the stream and the tracker assert holds in the beginning.
LEMMA StreamInitially == Init => StreamInv
<1> SUFFICES ASSUME Init PROVE StreamInv
  OBVIOUS
<1>1. /\ ~IsStarted(stream) /\ ~stream.idle /\ ~IsOpen(stream)
      /\ tracker = UpdateState("Unknown")
      /\ toServer = <<>> /\ toClient = <<>> /\ backend = "none"
  BY EndedFacts DEF Init, IsOpen, IsStarted
<1> QED BY <1>1, ResetFacts
   DEF StreamInv, AssertionsHold, UnknownUntilStarted, TimerMeansTrying,
       OnlineIsEarned, IdleMeansUnwatched, WiresOpen

\* Every step keeps them.
LEMMA StreamStep ==
    ASSUME TypeOK, StreamInv, [Next]_vars
    PROVE  StreamInv'
<1>1. CASE UNCHANGED vars
  BY <1>1 DEF vars, client, network, wires, StreamInv, AssertionsHold,
     UnknownUntilStarted, TimerMeansTrying, OnlineIsEarned, IdleMeansUnwatched,
     WiresOpen, IsOpen, IsStarted, Listening, Listeners
<1>2. CASE Next
  BY <1>2, JoinKeepsStream, ListenKeepsStream, RemoveKeepsStream,
     ErrorKeepsStream, TimersKeepStream, ReceiveKeepsStream, ServerKeepsStream
     DEF Next
<1> QED BY <1>1, <1>2

\* The HARD_ASSERTs of OnlineStateTracker and RemoteStore never fire: not that of
\* StartWatchStream about the timer, nor those of HandleWatchStreamFailure and of
\* the timer's callback, nor that of OnWatchStreamClose about an idle stream.
THEOREM AssertionsCorrect == Spec => []AssertionsHold
<1>1. Init => StreamInv
  BY StreamInitially
<1>2. TypeOK /\ StreamInv /\ [Next]_vars => StreamInv'
  BY StreamStep
<1>3. StreamInv => AssertionsHold
  BY DEF StreamInv
<1> QED BY <1>1, <1>2, <1>3, TypeCorrect, PTL DEF Spec

-----------------------------------------------------------------------------
(* Nobody is left out when an answer is known.                              *)

\* A start of the watch stream gives no reason to answer: it says Unknown or
\* leaves the state as it was.
LEMMA StartTellsNobody ==
    ASSUME NEW t \in Trackers
    PROVE  HandleWatchStreamStart(t).state = "Offline" => t.state = "Offline"
BY TrackerFacts

\* A step that moves the state of no listener to "waiting", makes no view synced
\* and does not go offline leaves nobody out.
LEMMA QuietStep ==
    ASSUME NoMissedAnswer,
           \A g \in Gets : get'[g] = "waiting" => get[g] = "waiting",
           synced' => synced,
           tracker'.state = "Offline" => tracker.state = "Offline"
    PROVE  NoMissedAnswer'
BY DEF NoMissedAnswer, ShouldRaiseInitialEvent

\* Every step keeps NoMissedAnswer: what tells of the view or of the online state
\* tells all, and nothing else gives a reason to answer.
LEMMA AnswerStep ==
    ASSUME TypeOK, StreamInv, NoMissedAnswer, [Next]_vars
    PROVE  NoMissedAnswer'
<1>0. /\ tracker \in Trackers /\ HandleWatchStreamFailure(tracker) \in Trackers
      /\ HandleWatchStreamStart(tracker) \in Trackers
      /\ cache \in 0..MaxVersion /\ synced \in BOOLEAN
      /\ get \in [Gets -> Stages] /\ answer \in [Gets -> Answers \cup {NoAnswer}]
  BY TrackerFacts DEF TypeOK, Stages
<1>1. ASSUME NEW stage \in [Gets -> Stages], NEW isSynced \in BOOLEAN,
             NEW t \in Trackers, NEW ver \in 0..MaxVersion,
             Tell(stage, isSynced, t, ver),
             tracker'.state = "Offline" => t.state = "Offline"
      PROVE  NoMissedAnswer'
  BY <1>0, <1>1, TellFacts DEF NoMissedAnswer, ShouldRaiseInitialEvent
<1>2. ASSUME UNCHANGED <<get, synced, tracker>> PROVE NoMissedAnswer'
  BY <1>2 DEF NoMissedAnswer, ShouldRaiseInitialEvent
<1>3. ASSUME NEW g \in Gets, JoinListeners(g) PROVE NoMissedAnswer'
  <2>1. UNCHANGED tracker
    BY <1>3 DEF JoinListeners, network
  <2> QED BY <1>0, <1>1, <1>3, <2>1, ClientTyped DEF JoinListeners
<1>4. ASSUME NEW g \in Gets, Listen(g) PROVE NoMissedAnswer'
  <2>1. tracker'.state = "Offline" => tracker.state = "Offline"
    BY <1>0, <1>4, StartTellsNobody DEF Listen
  <2>2. Tell(Waiting(g), FALSE, tracker, cache)
    BY <1>4 DEF Listen
  <2> QED BY <1>0, <1>1, <2>1, <2>2, ClientTyped
<1>5. ASSUME NEW g \in Gets, RemoveListener(g) PROVE NoMissedAnswer'
  <2>1. \A h \in Gets : get'[h] = "waiting" => get[h] = "waiting"
    BY <1>0, <1>5 DEF RemoveListener
  <2>2. synced' => synced
    BY <1>5 DEF RemoveListener
  <2>3. tracker'.state = "Offline" => tracker.state = "Offline"
    BY <1>5, ResetFacts DEF RemoveListener
  <2> QED BY <2>1, <2>2, <2>3, QuietStep
<1>6. ASSUME OnWatchStreamError PROVE NoMissedAnswer'
  <2>1. CASE Listening
    <3>1. tracker' = HandleWatchStreamStart(HandleWatchStreamFailure(tracker))
      BY <1>6, <2>1 DEF OnWatchStreamError
    <3>2. Tell(get, synced, HandleWatchStreamFailure(tracker), cache)
      BY <1>6, <2>1 DEF OnWatchStreamError
    <3> QED BY <1>0, <1>1, <3>1, <3>2, StartTellsNobody
  <2>2. CASE ~Listening
    BY <1>6, <2>2, ResetFacts, QuietStep DEF OnWatchStreamError
  <2> QED BY <2>1, <2>2
<1>7. ASSUME OnlineTimeout PROVE NoMissedAnswer'
  <2>1. tracker' \in Trackers
    BY <1>0, <1>7, TrackerFacts DEF OnlineTimeout
  <2> QED BY <1>0, <1>1, <1>7, <2>1 DEF OnlineTimeout
<1>8. ASSUME RestartNetwork PROVE NoMissedAnswer'
  <2>1. tracker'.state # "Offline"
    BY <1>8, ResetFacts, StartFromReset DEF RestartNetwork
  <2> QED BY <1>8, <2>1, QuietStep DEF RestartNetwork, client
<1>9. ASSUME IdleTimeout PROVE NoMissedAnswer'
  BY <1>9, ResetFacts, QuietStep DEF IdleTimeout, client
<1>10. ASSUME ReceiveSnapshot PROVE NoMissedAnswer'
  <2>1. tracker' \in Trackers /\ cache' \in 0..MaxVersion
    BY <1>10, ReceiveTyped DEF TypeOK, OnWatchStreamChange
  <2>2. (IF Active THEN agg.current ELSE synced) \in BOOLEAN
    BY DEF TypeOK
  <2> QED BY <1>0, <1>1, <1>10, <2>1, <2>2 DEF ReceiveSnapshot
<1>11. ASSUME ReceiveDenied PROVE NoMissedAnswer'
  <2>1. tracker'.state # "Offline"
    BY <1>11, ResetFacts DEF ReceiveDenied, Receive
  <2>2. \A g \in Gets : get'[g] = "waiting" => get[g] = "waiting"
    BY <1>0, <1>11 DEF ReceiveDenied
  <2>3. synced' => synced
    BY <1>11 DEF ReceiveDenied
  <2> QED BY <2>1, <2>2, <2>3, QuietStep
<1>12. ASSUME ReceiveAdded \/ ReceiveRemoved \/ ReceiveCurrent \/ ReceiveDocument
       PROVE  NoMissedAnswer'
  <2>1. UNCHANGED client /\ tracker' = UpdateState("Online")
    BY <1>12 DEF ReceiveAdded, ReceiveRemoved, ReceiveCurrent, ReceiveDocument,
       Receive
  <2> QED BY <2>1, ResetFacts, QuietStep DEF client
<1>13. ASSUME OnWatchStreamOpen \/ BackoffElapses \/ ServerAnswers \/ Change
       PROVE  NoMissedAnswer'
  BY <1>2, <1>13 DEF OnWatchStreamOpen, BackoffElapses, ServerAnswers, ServeWatch,
     ServeUnwatch, Serve, ServeCurrent, ServeSnapshot, Change, client, network
<1>14. CASE UNCHANGED vars
  BY <1>2, <1>14 DEF vars, client, network
<1> QED BY <1>3, <1>4, <1>5, <1>6, <1>7, <1>8, <1>9, <1>10, <1>11, <1>12, <1>13,
       <1>14 DEF Next, OnWatchStreamChange

\* No call of getDocuments goes on waiting once the view of its query is synced or
\* the client counts as offline (QueryListener::ShouldRaiseInitialEvent).
THEOREM NoneMissed == Spec => []NoMissedAnswer
<1>1. Init => NoMissedAnswer
  BY DEF Init, NoMissedAnswer
<1>2. /\ TypeOK /\ StreamInv /\ NoMissedAnswer /\ [Next]_vars => NoMissedAnswer'
  BY AnswerStep
<1>3. Spec => []StreamInv
  BY StreamInitially, StreamStep, TypeCorrect, PTL DEF Spec
<1> QED BY <1>1, <1>2, <1>3, TypeCorrect, PTL DEF Spec

-----------------------------------------------------------------------------
(* The promise to the screens: the safety of QueryPromise is implemented.   *)

\* A call has an answer from its first event on, and never before.
AnswerMatches ==
    \A g \in Gets : answer[g] = NoAnswer <=> get[g] \in {"new", "waiting"}

\* No answer is taken for the lack of one.
LEMMA NoAnswerIsNone == NoAnswer \notin Answers
BY DEF NoAnswer, Answers

\* The promise in the terms of the listeners.
LEMMA PromiseFacts ==
    ASSUME TypeOK, AnswerMatches
    PROVE  Promise!Waiting = {g \in Gets : get[g] = "waiting"}
BY DEF Promise!Waiting, AnswerMatches, TypeOK

\* Telling answers all that wait with one answer, or nobody.
LEMMA TellAnswers ==
    ASSUME NEW stage \in [Gets -> Stages], NEW isSynced \in BOOLEAN,
           NEW t \in Trackers, NEW ver \in 0..MaxVersion,
           answer \in [Gets -> Answers \cup {NoAnswer}],
           \A g \in Gets : answer[g] = NoAnswer <=> stage[g] \in {"new", "waiting"},
           Tell(stage, isSynced, t, ver)
    PROVE  /\ AnswerMatches'
           /\ \A g \in Gets : get'[g] # "new" <=> stage[g] # "new"
           /\ ShouldRaiseInitialEvent(isSynced, t) =>
                 \E a \in Answers : answer' =
                    [g \in Gets |-> IF stage[g] = "waiting" THEN a ELSE answer[g]]
           /\ ~ShouldRaiseInitialEvent(isSynced, t) => answer' = answer
<1> DEFINE a == [is |-> IF t.state = "Offline" THEN "cached" ELSE "synced",
                 ver |-> ver]
<1>1. a \in Answers
  BY DEF Answers
<1>2. CASE ShouldRaiseInitialEvent(isSynced, t)
  <2>1. /\ get' = [g \in Gets |-> IF stage[g] = "waiting" THEN "raised"
                                  ELSE stage[g]]
        /\ answer' = [g \in Gets |-> IF stage[g] = "waiting" THEN a ELSE answer[g]]
    BY <1>2 DEF Tell
  <2>2. AnswerMatches'
    <3> HIDE DEF a
    <3> QED BY <1>1, <2>1, NoAnswerIsNone DEF AnswerMatches, Stages
  <2>3. \A g \in Gets : get'[g] # "new" <=> stage[g] # "new"
    BY <2>1
  <2> HIDE DEF a
  <2> QED BY <1>1, <1>2, <2>1, <2>2, <2>3
<1>3. CASE ~ShouldRaiseInitialEvent(isSynced, t)
  <2>1. get' = stage /\ answer' = answer
    BY <1>3 DEF Tell
  <2> QED BY <1>3, <2>1 DEF AnswerMatches
<1> QED BY <1>2, <1>3

\* Telling those that listen already: an answer to all that wait, or a stutter.
LEMMA TellKeepsPromise ==
    ASSUME TypeOK, AnswerMatches,
           NEW isSynced \in BOOLEAN, NEW t \in Trackers, NEW ver \in 0..MaxVersion,
           Tell(get, isSynced, t, ver)
    PROVE  AnswerMatches' /\ [Promise!Next]_Promise!vars
<1>1. get \in [Gets -> Stages] /\ answer \in [Gets -> Answers \cup {NoAnswer}]
  BY DEF TypeOK, Stages
<1>2. /\ AnswerMatches'
      /\ \A g \in Gets : get'[g] # "new" <=> get[g] # "new"
  BY <1>1, TellAnswers DEF AnswerMatches
<1>3. UNCHANGED {g \in Gets : get[g] # "new"}
  BY <1>2
<1>4. CASE ShouldRaiseInitialEvent(isSynced, t) /\ Promise!Waiting # {}
  <2>1. PICK a \in Answers : answer' =
           [g \in Gets |-> IF get[g] = "waiting" THEN a ELSE answer[g]]
    BY <1>1, <1>4, TellAnswers DEF AnswerMatches
  <2>2. Promise!AnswerAll(a)
    BY <1>3, <1>4, <2>1, PromiseFacts DEF Promise!AnswerAll
  <2> QED BY <1>2, <2>2 DEF Promise!Next
<1>5. CASE ~(ShouldRaiseInitialEvent(isSynced, t) /\ Promise!Waiting # {})
  <2>1. answer' = answer
    <3>1. CASE ~ShouldRaiseInitialEvent(isSynced, t)
      BY <1>1, <3>1, TellAnswers DEF AnswerMatches
    <3>2. CASE ShouldRaiseInitialEvent(isSynced, t) /\ Promise!Waiting = {}
      <4>1. PICK a \in Answers : answer' =
               [g \in Gets |-> IF get[g] = "waiting" THEN a ELSE answer[g]]
        BY <1>1, <3>2, TellAnswers DEF AnswerMatches
      <4> QED BY <1>1, <3>2, <4>1, PromiseFacts
    <3> QED BY <1>5, <3>1, <3>2
  <2> QED BY <1>2, <1>3, <2>1 DEF Promise!vars
<1> QED BY <1>4, <1>5

\* Telling a new listener while nobody else is owed what it is told: it has asked,
\* or it has been answered at once.
LEMMA JoinKeepsPromise ==
    ASSUME TypeOK, AnswerMatches, NEW g \in Gets, get[g] = "new",
           NEW isSynced \in BOOLEAN, NEW t \in Trackers, NEW ver \in 0..MaxVersion,
           ShouldRaiseInitialEvent(isSynced, t) =>
              \A h \in Gets : get[h] # "waiting",
           Tell(Waiting(g), isSynced, t, ver)
    PROVE  AnswerMatches' /\ [Promise!Next]_Promise!vars
<1>1. /\ get \in [Gets -> Stages] /\ Waiting(g) \in [Gets -> Stages]
      /\ answer \in [Gets -> Answers \cup {NoAnswer}]
  BY ClientTyped DEF TypeOK, Stages
<1>2. Waiting(g) = [h \in Gets |-> IF h = g THEN "waiting" ELSE get[h]]
  BY <1>1 DEF Waiting
<1>3. \A h \in Gets :
         answer[h] = NoAnswer <=> Waiting(g)[h] \in {"new", "waiting"}
  BY <1>2 DEF AnswerMatches
<1>4. /\ AnswerMatches'
      /\ \A h \in Gets : get'[h] # "new" <=> Waiting(g)[h] # "new"
  BY <1>1, <1>3, TellAnswers
<1>5. /\ {h \in Gets : get'[h] # "new"} = {h \in Gets : get[h] # "new"} \cup {g}
      /\ g \notin {h \in Gets : get[h] # "new"}
  BY <1>2, <1>4
<1>6. CASE ShouldRaiseInitialEvent(isSynced, t)
  <2>1. PICK a \in Answers : answer' =
           [h \in Gets |-> IF Waiting(g)[h] = "waiting" THEN a ELSE answer[h]]
    BY <1>1, <1>3, <1>6, TellAnswers
  <2>2. answer' = [answer EXCEPT ![g] = a]
    BY <1>1, <1>2, <1>6, <2>1
  <2>3. Promise!Waiting = {}
    BY <1>6, PromiseFacts
  <2>4. Promise!AnswerAtOnce(g, a)
    BY <1>5, <2>2, <2>3 DEF Promise!AnswerAtOnce
  <2> QED BY <1>4, <2>4 DEF Promise!Next
<1>7. CASE ~ShouldRaiseInitialEvent(isSynced, t)
  <2>1. answer' = answer
    BY <1>1, <1>3, <1>7, TellAnswers
  <2>2. Promise!Ask(g)
    BY <1>5, <2>1 DEF Promise!Ask
  <2> QED BY <1>4, <2>2 DEF Promise!Next
<1> QED BY <1>6, <1>7

\* Every step is one of the promise, or a stutter.  That a new listener is answered
\* at once only when nobody waits needs NoMissedAnswer.
LEMMA PromiseStep ==
    ASSUME TypeOK, NoMissedAnswer, AnswerMatches, [Next]_vars
    PROVE  AnswerMatches' /\ [Promise!Next]_Promise!vars
<1>0. /\ tracker \in Trackers /\ HandleWatchStreamFailure(tracker) \in Trackers
      /\ cache \in 0..MaxVersion /\ synced \in BOOLEAN
      /\ get \in [Gets -> Stages] /\ answer \in [Gets -> Answers \cup {NoAnswer}]
  BY TrackerFacts DEF TypeOK, Stages
<1>1. ASSUME UNCHANGED <<get, answer>>
      PROVE  AnswerMatches' /\ [Promise!Next]_Promise!vars
  BY <1>1 DEF AnswerMatches, Promise!vars
<1>2. ASSUME NEW g \in Gets, JoinListeners(g)
      PROVE  AnswerMatches' /\ [Promise!Next]_Promise!vars
  BY <1>0, <1>2, JoinKeepsPromise DEF JoinListeners, NoMissedAnswer
<1>3. ASSUME NEW g \in Gets, Listen(g)
      PROVE  AnswerMatches' /\ [Promise!Next]_Promise!vars
  <2>1. \A h \in Gets : get[h] # "waiting"
    BY <1>3 DEF Listen, Listening, Listeners
  <2>2. get[g] = "new" /\ Tell(Waiting(g), FALSE, tracker, cache)
    BY <1>3 DEF Listen
  <2> QED BY <1>0, <2>1, <2>2, JoinKeepsPromise
<1>4. ASSUME NEW g \in Gets, RemoveListener(g)
      PROVE  AnswerMatches' /\ [Promise!Next]_Promise!vars
  <2>1. get' = [h \in Gets |-> IF h = g THEN "gone" ELSE get[h]] /\ answer' = answer
    BY <1>0, <1>4 DEF RemoveListener
  <2>2. get[g] = "raised"
    BY <1>4 DEF RemoveListener
  <2>3. UNCHANGED {h \in Gets : get[h] # "new"}
    BY <2>1, <2>2
  <2>4. AnswerMatches'
    BY <2>1, <2>2 DEF AnswerMatches
  <2> QED BY <2>1, <2>3, <2>4 DEF Promise!vars
<1>5. CASE OnWatchStreamError
  <2>1. CASE Listening
    BY <1>0, <1>5, <2>1, TellKeepsPromise DEF OnWatchStreamError
  <2>2. CASE ~Listening
    BY <1>1, <1>5, <2>2 DEF OnWatchStreamError
  <2> QED BY <2>1, <2>2
<1>6. CASE OnlineTimeout
  <2>1. tracker' \in Trackers
    BY <1>0, <1>6, TrackerFacts DEF OnlineTimeout
  <2> QED BY <1>0, <1>6, <2>1, TellKeepsPromise DEF OnlineTimeout
<1>7. CASE ReceiveSnapshot
  <2>1. tracker' \in Trackers /\ cache' \in 0..MaxVersion
    BY <1>7, ReceiveTyped DEF TypeOK, OnWatchStreamChange
  <2>2. (IF Active THEN agg.current ELSE synced) \in BOOLEAN
    BY DEF TypeOK
  <2> QED BY <1>7, <2>1, <2>2, TellKeepsPromise DEF ReceiveSnapshot
<1>8. CASE ReceiveDenied
  <2>1. CASE ~Listening
    BY <1>1, <1>8, <2>1 DEF ReceiveDenied
  <2>2. CASE Listening
    <3> DEFINE error == [is |-> "error", ver |-> 0]
    <3>1. error \in Answers
      BY BoundsAssumption DEF Answers
    <3>2. /\ get' = [g \in Gets |-> IF g \in Listeners(get) THEN "gone" ELSE get[g]]
          /\ answer' = [g \in Gets |-> IF get[g] = "waiting" THEN error
                                       ELSE answer[g]]
      BY <1>8, <2>2 DEF ReceiveDenied
    <3> HIDE DEF error
    <3>3. AnswerMatches'
      BY <1>0, <3>1, <3>2, NoAnswerIsNone DEF AnswerMatches, Listeners, Stages
    <3>4. UNCHANGED {g \in Gets : get[g] # "new"}
      BY <3>2 DEF Listeners
    <3>5. CASE Promise!Waiting # {}
      <4>1. Promise!AnswerAll(error)
        BY <3>2, <3>4, <3>5, PromiseFacts DEF Promise!AnswerAll
      <4> QED BY <3>1, <3>3, <4>1 DEF Promise!Next
    <3>6. CASE Promise!Waiting = {}
      <4>1. answer' = answer
        BY <1>0, <3>2, <3>6, PromiseFacts
      <4> QED BY <3>3, <3>4, <4>1 DEF Promise!vars
    <3> QED BY <3>5, <3>6
  <2> QED BY <2>1, <2>2
<1>9. CASE \/ ReceiveAdded \/ ReceiveRemoved \/ ReceiveCurrent \/ ReceiveDocument
           \/ OnWatchStreamOpen \/ BackoffElapses \/ IdleTimeout \/ RestartNetwork
           \/ ServerAnswers \/ Change
  BY <1>1, <1>9 DEF ReceiveAdded, ReceiveRemoved, ReceiveCurrent, ReceiveDocument,
     OnWatchStreamOpen, BackoffElapses, IdleTimeout, RestartNetwork, ServerAnswers,
     ServeWatch, ServeUnwatch, Serve, ServeCurrent, ServeSnapshot, Change, client
<1>10. CASE UNCHANGED vars
  BY <1>1, <1>10 DEF vars, client
<1> QED BY <1>2, <1>3, <1>4, <1>5, <1>6, <1>7, <1>8, <1>9, <1>10
       DEF Next, OnWatchStreamChange

\* Firestore keeps the promise that the models of the screens are written against:
\* all that wait for the query are answered together and once, and who joins when
\* an answer is known does not overtake anybody.
THEOREM PromiseKept == Spec => Promise!Init /\ [][Promise!Next]_Promise!vars
<1>1. Init => AnswerMatches /\ Promise!Init
  BY DEF Init, AnswerMatches, Promise!Init
<1>2. TypeOK /\ NoMissedAnswer /\ AnswerMatches /\ [Next]_vars
         => AnswerMatches' /\ [Promise!Next]_Promise!vars
  BY PromiseStep
<1> QED BY <1>1, <1>2, TypeCorrect, NoneMissed, PTL DEF Spec
-----------------------------------------------------------------------------
(* What is synced is fresh: the responses to the present listen are those   *)
(* after the last confirmation, and bring a document no older than it.      *)

Confirms(m) == m.type \in {"added", "removed"}

\* The confirmations on their way to the client.
Confirming(q) == {i \in DOMAIN q : Confirms(q[i])}

\* Nothing is denied unless the rules deny it, and then nothing is sent.
Verdict ==
    IF denied
    THEN /\ backend = "none" /\ ~agg.current /\ ~synced
         /\ \A i \in DOMAIN toClient : toClient[i].type \in {"denied", "removed"}
    ELSE \A i \in DOMAIN toClient : toClient[i].type # "denied"

\* Each request is counted until its confirmation was received.
Counted ==
    agg.outstanding = Len(toServer) + Cardinality(Confirming(toClient))

\* From here on the responses are to the last request.
Later(i) == \A j \in Confirming(toClient) : j < i

\* A document of the present listen is ahead of this place, or has come.
Brought(i) ==
    \/ \E j \in DOMAIN toClient : j < i /\ Later(j) /\ toClient[j].type = "doc"
    \/ Confirming(toClient) = {} /\ (agg.doc >= basis \/ cache >= basis)

\* What answers the present listen is fresh.
Answering ==
    /\ \A i \in DOMAIN toClient :
          Later(i) => /\ toClient[i].type = "doc" => toClient[i].ver >= basis
                      /\ toClient[i].type = "snapshot" => Brought(i)
    /\ backend \in {"owing", "settled"} => Brought(Len(toClient) + 1)

FreshWires ==
    Listening /\ IsOpen(stream) =>
        IF toServer = <<>> THEN Answering ELSE toServer[Len(toServer)] = "watch"

FreshInv == /\ Verdict /\ basis <= version
            /\ ~denied => Counted /\ FreshWires /\ SyncedIsFresh

\* The confirmations can be counted.
LEMMA ConfirmingCounts ==
    ASSUME NEW q \in Seq(Messages)
    PROVE  /\ IsFiniteSet(Confirming(q)) /\ Cardinality(Confirming(q)) \in Nat
           /\ Confirming(q) \subseteq 1..Len(q) /\ Len(q) \in Nat
<1>1. Len(q) \in Nat /\ DOMAIN q = 1..Len(q)
  BY LenProperties
<1>2. Confirming(q) \subseteq 1..Len(q)
  BY <1>1 DEF Confirming
<1>3. IsFiniteSet(1..Len(q))
  <2>1. 1 \in Int /\ Len(q) \in Int
    BY <1>1
  <2> QED BY <2>1, FS_Interval
<1>4. IsFiniteSet(Confirming(q))
  BY <1>2, <1>3, FS_Subset
<1>5. Cardinality(Confirming(q)) \in Nat
  BY <1>4, FS_CardinalityType
<1> QED BY <1>1, <1>2, <1>4, <1>5

\* One response more: what is confirmed with it.
LEMMA ConfirmingAppend ==
    ASSUME NEW q \in Seq(Messages), NEW m \in Messages
    PROVE  /\ Append(q, m) \in Seq(Messages) /\ Len(Append(q, m)) = Len(q) + 1
           /\ \A i \in DOMAIN q : i \in DOMAIN Append(q, m) /\ Append(q, m)[i] = q[i]
           /\ Append(q, m)[Len(q) + 1] = m
           /\ Confirming(Append(q, m)) =
                 Confirming(q) \cup (IF Confirms(m) THEN {Len(q) + 1} ELSE {})
           /\ Cardinality(Confirming(Append(q, m))) =
                 Cardinality(Confirming(q)) + (IF Confirms(m) THEN 1 ELSE 0)
           /\ Cardinality(Confirming(q)) \in Nat
<1>1. Len(q) \in Nat /\ DOMAIN q = 1..Len(q)
  BY LenProperties
<1>2. /\ Append(q, m) \in Seq(Messages) /\ Len(Append(q, m)) = Len(q) + 1
      /\ \A i \in 1..Len(q) : Append(q, m)[i] = q[i]
      /\ Append(q, m)[Len(q) + 1] = m
  BY AppendProperties
<1>3. DOMAIN Append(q, m) = 1..(Len(q) + 1)
  BY <1>2, LenProperties
<1>4. Confirming(Append(q, m)) =
         Confirming(q) \cup (IF Confirms(m) THEN {Len(q) + 1} ELSE {})
  BY <1>1, <1>2, <1>3 DEF Confirming
<1>5. IsFiniteSet(Confirming(q)) /\ Len(q) + 1 \notin Confirming(q)
  BY ConfirmingCounts
<1>6. /\ Cardinality(Confirming(q)) \in Nat
      /\ Cardinality(Confirming(q) \cup {Len(q) + 1}) = Cardinality(Confirming(q)) + 1
  BY <1>5, FS_CardinalityType, FS_AddElement
<1>7. Cardinality(Confirming(Append(q, m))) =
         Cardinality(Confirming(q)) + (IF Confirms(m) THEN 1 ELSE 0)
  <2>1. CASE Confirms(m)
    BY <1>4, <1>6, <2>1
  <2>2. CASE ~Confirms(m)
    <3>1. Confirming(Append(q, m)) = Confirming(q)
      BY <1>4, <2>2
    <3> QED BY <1>6, <2>2, <3>1
  <2> QED BY <2>1, <2>2
<1>8. \A i \in DOMAIN q : i \in DOMAIN Append(q, m) /\ Append(q, m)[i] = q[i]
  BY <1>1, <1>2, <1>3
<1> QED BY <1>2, <1>4, <1>6, <1>7, <1>8

\* One response less: the places move up by one.
LEMMA ConfirmingTail ==
    ASSUME NEW q \in Seq(Messages), q # <<>>
    PROVE  /\ Tail(q) \in Seq(Messages) /\ Len(q) \in Nat /\ Len(Tail(q)) = Len(q) - 1
           /\ Head(q) = q[1] /\ 1 \in DOMAIN q
           /\ \A i : i \in DOMAIN Tail(q) <=> i \in Nat \ {0} /\ i + 1 \in DOMAIN q
           /\ \A i \in DOMAIN Tail(q) : Tail(q)[i] = q[i + 1]
           /\ \A i : i \in Confirming(Tail(q))
                        <=> i \in Nat \ {0} /\ i + 1 \in Confirming(q)
           /\ 1 \in Confirming(q) <=> Confirms(Head(q))
           /\ Cardinality(Confirming(Tail(q))) =
                 Cardinality(Confirming(q)) - (IF Confirms(Head(q)) THEN 1 ELSE 0)
           /\ Cardinality(Confirming(q)) \in Nat
<1>1. Len(q) \in Nat \ {0} /\ DOMAIN q = 1..Len(q)
  BY LenProperties, EmptySeq
<1>2. /\ Tail(q) \in Seq(Messages) /\ Len(Tail(q)) = Len(q) - 1 /\ Head(q) = q[1]
      /\ \A i \in 1..Len(Tail(q)) : Tail(q)[i] = q[i + 1]
  BY HeadTailProperties
<1>3. DOMAIN Tail(q) = 1..(Len(q) - 1)
  BY <1>2, LenProperties
<1>4. \A i : i \in DOMAIN Tail(q) <=> i \in Nat \ {0} /\ i + 1 \in DOMAIN q
  BY <1>1, <1>3
<1>5. \A i : i \in Confirming(Tail(q)) <=> i \in Nat \ {0} /\ i + 1 \in Confirming(q)
  BY <1>1, <1>2, <1>3 DEF Confirming
<1>6. 1 \in Confirming(q) <=> Confirms(Head(q))
  BY <1>1, <1>2 DEF Confirming
<1> DEFINE rest == Confirming(q) \ {1}
<1>7. IsFiniteSet(Confirming(q)) /\ Confirming(q) \subseteq Nat \ {0}
  BY ConfirmingCounts
<1>8. Cardinality(rest) =
         Cardinality(Confirming(q)) - (IF Confirms(Head(q)) THEN 1 ELSE 0)
      /\ IsFiniteSet(rest) /\ Cardinality(Confirming(q)) \in Nat
  <2>1. IsFiniteSet(rest) /\ Cardinality(Confirming(q)) \in Nat
    BY <1>7, FS_Subset, FS_CardinalityType
  <2>2. Cardinality(rest) = IF 1 \in Confirming(q) THEN Cardinality(Confirming(q)) - 1
                            ELSE Cardinality(Confirming(q))
    BY <1>7, FS_RemoveElement
  <2> QED BY <1>6, <2>1, <2>2
<1>9. Cardinality(Confirming(Tail(q))) = Cardinality(rest)
  <2> DEFINE f == [i \in rest |-> i - 1]
  <2>1. \A i \in rest : i - 1 \in Confirming(Tail(q)) /\ i \in Nat
    BY <1>5, <1>7
  <2>2. f \in [rest -> Confirming(Tail(q))]
    BY <2>1
  <2>3. \A i, j \in rest : f[i] = f[j] => i = j
    BY <2>1
  <2>4. \A k \in Confirming(Tail(q)) : \E i \in rest : f[i] = k
    <3>1. \A k \in Confirming(Tail(q)) : k + 1 \in rest /\ f[k + 1] = k
      BY <1>5
    <3> QED BY <3>1
  <2>5. f \in Bijection(rest, Confirming(Tail(q)))
    BY <2>2, <2>3, <2>4 DEF Bijection, Injection, Surjection, IsInjective
  <2> QED BY <1>8, <2>5, FS_Bijection DEF ExistsBijection
<1> QED BY <1>1, <1>2, <1>4, <1>5, <1>6, <1>8, <1>9

\* Nothing is to be confirmed if nothing is counted.
LEMMA NoneCounted ==
    ASSUME TypeOK, Counted, agg.outstanding = 0
    PROVE  toServer = <<>> /\ Confirming(toClient) = {}
<1>1. toServer \in Seq({"watch", "unwatch"}) /\ toClient \in Seq(Messages)
  BY DEF TypeOK
<1>2. Len(toServer) \in Nat /\ IsFiniteSet(Confirming(toClient))
      /\ Cardinality(Confirming(toClient)) \in Nat
  BY <1>1, LenProperties, ConfirmingCounts
<1>3. Len(toServer) = 0 /\ Cardinality(Confirming(toClient)) = 0
  BY <1>2 DEF Counted
<1> QED BY <1>1, <1>2, <1>3, EmptySeq, FS_EmptySet

\* A step that leaves the wires and the cache alone keeps what is fresh.
LEMMA FreshFrame ==
    ASSUME FreshInv, UNCHANGED <<cache, agg, wires, server, basis>>,
           IsOpen(stream') => IsOpen(stream),
           Listening' => Listening, synced' => synced
    PROVE  FreshInv'
<1>1. UNCHANGED <<toServer, toClient, backend, version, denied>>
  BY DEF wires, server
<1>2. Verdict' /\ basis' <= version' /\ (Counted => Counted')
  BY <1>1 DEF FreshInv, Verdict, Counted
<1>3. Answering => Answering'
  BY <1>1 DEF Answering, Brought, Later
<1>4. FreshWires => FreshWires'
  BY <1>1, <1>3 DEF FreshWires
<1>5. SyncedIsFresh => SyncedIsFresh'
  BY DEF SyncedIsFresh
<1> QED BY <1>1, <1>2, <1>4, <1>5 DEF FreshInv

\* With a stream all that is counted is gone.
LEMMA FreshDropped ==
    ASSUME FreshInv, DropStream, ~IsOpen(stream'),
           UNCHANGED <<cache, server, basis>>,
           Listening' => Listening, synced' => synced
    PROVE  FreshInv'
<1>1. /\ agg' = NoTarget /\ toServer' = <<>> /\ toClient' = <<>>
      /\ backend' = "none" /\ UNCHANGED <<version, denied>>
  BY DEF DropStream, server
<1>2. Len(toServer') = 0 /\ DOMAIN toClient' = {}
  BY <1>1
<1>3. Confirming(toClient') = {}
  BY <1>2 DEF Confirming
<1>4. Counted'
  BY <1>1, <1>2, <1>3, FS_EmptySet DEF Counted, NoTarget
<1>5. Verdict' /\ basis' <= version'
  BY <1>1, <1>2 DEF FreshInv, Verdict, NoTarget
<1>6. SyncedIsFresh => SyncedIsFresh'
  BY DEF SyncedIsFresh
<1> QED BY <1>1, <1>4, <1>5, <1>6 DEF FreshInv, FreshWires

\* A request is counted and is the last.
LEMMA FreshSend ==
    ASSUME TypeOK, FreshInv, NEW request \in {"watch", "unwatch"}, Send(request),
           UNCHANGED <<cache, toClient, backend, server>>,
           basis' \in {basis, version},
           Listening' => request = "watch", ~synced'
    PROVE  FreshInv'
<1>1. toServer \in Seq({"watch", "unwatch"}) /\ UNCHANGED <<version, denied>>
      /\ agg.outstanding \in Int /\ version \in Nat
  BY BoundsAssumption DEF TypeOK, server
<1>2. /\ toServer' = Append(toServer, request)
      /\ toServer' \in Seq({"watch", "unwatch"})
      /\ Len(toServer') = Len(toServer) + 1 /\ Len(toServer) \in Nat
      /\ toServer'[Len(toServer')] = request
  <2>1. toServer' = Append(toServer, request)
    BY DEF Send
  <2> QED BY <1>1, <2>1, AppendProperties, LenProperties
<1>3. toServer' # <<>>
  BY <1>2, EmptySeq
<1>4. agg'.outstanding = agg.outstanding + 1 /\ agg'.current = agg.current
  BY DEF Send, TypeOK
<1>5. Counted => Counted'
  <2>1. Cardinality(Confirming(toClient)) \in Nat
    BY ConfirmingCounts DEF TypeOK
  <2> QED BY <1>2, <1>4, <2>1 DEF Counted
<1>6. Verdict' /\ basis' <= version'
  BY <1>1, <1>4 DEF FreshInv, Verdict
<1>7. FreshWires'
  BY <1>2, <1>3 DEF FreshWires
<1>8. SyncedIsFresh'
  BY DEF SyncedIsFresh
<1> QED BY <1>1, <1>5, <1>6, <1>7, <1>8 DEF FreshInv

\* The callers: a new listen begins with a view from cache and a request that is
\* the last, as soon as there is a stream to send it on.
LEMMA CallersKeepFresh ==
    ASSUME TypeOK, StreamInv, FreshInv, NEW g \in Gets,
           JoinListeners(g) \/ Listen(g) \/ RemoveListener(g)
    PROVE  FreshInv'
<1>1. tracker \in Trackers /\ stream \in StreamStates /\ synced \in BOOLEAN
      /\ cache \in 0..MaxVersion /\ version \in Nat /\ basis \in Nat
  BY BoundsAssumption DEF TypeOK
<1>2. CASE JoinListeners(g)
  <2>1. synced' => synced
    BY <1>2 DEF JoinListeners, Tell
  <2>2. UNCHANGED <<cache, agg, wires, server, basis, stream>> /\ Listening
    BY <1>2 DEF JoinListeners, network
  <2> QED BY <2>1, <2>2, FreshFrame
<1>3. CASE Listen(g)
  <2>1. ~synced' /\ basis' = version /\ UNCHANGED <<cache, server>> /\ ~Listening
    BY <1>3 DEF Listen, Tell
  <2>2. CASE IsOpen(stream)
    <3>1. Send("watch") /\ UNCHANGED <<toClient, backend>>
      BY <1>1, <1>3, <2>2, StreamFacts DEF Listen
    <3> QED BY <2>1, <3>1, FreshSend
  <2>3. CASE ~IsOpen(stream)
    <3>1. toServer = <<>> /\ toClient = <<>> /\ backend = "none"
      BY <2>3 DEF StreamInv, WiresOpen
    <3>2. UNCHANGED wires /\ ~IsOpen(stream') /\ agg' \in {agg, NoTarget}
      BY <1>1, <1>3, <2>3, StreamFacts DEF Listen
    <3>3. Len(toServer') = 0 /\ DOMAIN toClient' = {} /\ backend' = "none"
          /\ UNCHANGED <<denied, version, toServer, toClient>>
      BY <2>1, <3>1, <3>2 DEF wires, server
    <3>4. Confirming(toClient') = {}
      BY <3>3 DEF Confirming
    <3>5. Counted => Counted'
      BY <3>2, <3>3, <3>4, FS_EmptySet DEF Counted, NoTarget
    <3>6. Verdict' /\ basis' <= version'
      BY <1>1, <2>1, <3>2, <3>3 DEF FreshInv, Verdict, NoTarget
    <3> QED BY <2>1, <3>2, <3>3, <3>5, <3>6 DEF FreshInv, FreshWires, SyncedIsFresh
  <2> QED BY <2>2, <2>3
<1>4. CASE RemoveListener(g)
  <2>1. UNCHANGED <<cache, server, basis>>
    BY <1>4 DEF RemoveListener
  <2>2. Listeners(get') = Listeners(get) \ {g}
    BY <1>4 DEF RemoveListener, Listeners, TypeOK
  <2>3. CASE Listeners(get) # {g}
    <3>1. UNCHANGED <<synced, stream, agg, wires>> /\ Listening
      BY <1>4, <2>3 DEF RemoveListener, Listening, Listeners
    <3> QED BY <2>1, <3>1, FreshFrame
  <2>4. CASE Listeners(get) = {g}
    <3>1. ~synced' /\ ~Listening'
      BY <1>4, <2>2, <2>4 DEF RemoveListener, Listening
    <3>2. CASE IsOpen(stream)
      <4>1. Send("unwatch") /\ UNCHANGED <<toClient, backend>>
        BY <1>4, <2>4, <3>2 DEF RemoveListener
      <4> QED BY <2>1, <3>1, <4>1, FreshSend
    <3>3. CASE ~IsOpen(stream)
      <4>1. UNCHANGED <<stream, agg, wires>>
        BY <1>4, <2>4, <3>3 DEF RemoveListener
      <4> QED BY <2>1, <3>1, <4>1, FreshFrame
    <3> QED BY <3>2, <3>3
  <2> QED BY <2>3, <2>4
<1> QED BY <1>2, <1>3, <1>4

\* The stream opens, fails, stops or is restarted; the timers elapse.
LEMMA TimersKeepFresh ==
    ASSUME TypeOK, StreamInv, FreshInv,
           \/ OnWatchStreamOpen \/ OnWatchStreamError \/ BackoffElapses
           \/ IdleTimeout \/ OnlineTimeout \/ RestartNetwork
    PROVE  FreshInv'
<1>1. tracker \in Trackers /\ stream \in StreamStates /\ synced \in BOOLEAN
      /\ cache \in 0..MaxVersion
  BY DEF TypeOK
<1>2. CASE OnWatchStreamOpen
  <2>1. /\ UNCHANGED <<client, toClient, backend, server, basis>>
        /\ IF Listening THEN Send("watch") ELSE UNCHANGED <<toServer, agg>>
    BY <1>2 DEF OnWatchStreamOpen
  <2>2. /\ Listening' = Listening /\ UNCHANGED <<synced, cache, version, denied>>
    BY <2>1 DEF client, server, Listening, Listeners
  <2>3. CASE ~Listening
    <3>1. UNCHANGED <<toServer, agg>>
      BY <2>1, <2>3
    <3>2. Verdict' /\ (Counted => Counted') /\ basis' <= version'
      BY <2>1, <2>2, <3>1 DEF FreshInv, Verdict, Counted
    <3> QED BY <2>2, <2>3, <3>2 DEF FreshInv, FreshWires, SyncedIsFresh
  <2>4. CASE Listening
    <3>1. Send("watch")
      BY <2>1, <2>4
    <3>2. ~IsOpen(stream)
      BY <1>2 DEF OnWatchStreamOpen, IsOpen
    <3>3. toServer = <<>> /\ DOMAIN toClient = {}
      BY <3>2 DEF StreamInv, WiresOpen
    <3>4. toServer' = <<"watch">> /\ agg' = [agg EXCEPT !.outstanding = @ + 1]
      BY <3>1, <3>3 DEF Send
    <3>5. Len(toServer') = 1 /\ toServer'[1] = "watch" /\ Len(toServer) = 0
          /\ toServer' # <<>>
      BY <3>3, <3>4
    <3>6. agg'.outstanding = agg.outstanding + 1 /\ agg'.current = agg.current
      BY <3>4 DEF TypeOK
    <3>7. Confirming(toClient) = {} /\ Confirming(toClient') = {}
      BY <2>1, <3>3 DEF Confirming
    <3>8. Counted => Counted'
      BY <3>5, <3>6, <3>7, FS_EmptySet DEF Counted
    <3>9. Verdict' /\ basis' <= version'
      BY <2>1, <2>2, <3>6 DEF FreshInv, Verdict
    <3>10. FreshWires'
      BY <3>5 DEF FreshWires
    <3>11. SyncedIsFresh => SyncedIsFresh'
      BY <2>1, <2>2 DEF SyncedIsFresh
    <3> QED BY <2>2, <3>8, <3>9, <3>10, <3>11 DEF FreshInv
  <2> QED BY <2>3, <2>4
<1>3. CASE OnWatchStreamError
  <2>1. DropStream /\ UNCHANGED <<cache, server, basis>>
    BY <1>3 DEF OnWatchStreamError
  <2>2. stream' \in {Failed, Start(Failed)}
    BY <1>3 DEF OnWatchStreamError
  <2>3. ~IsOpen(stream')
    BY <2>2, EndedFacts, StreamFacts DEF IsOpen, IsStarted
  <2>4. (Listening' => Listening) /\ (synced' => synced)
    <3>1. CASE Listening
      BY <1>3, <3>1 DEF OnWatchStreamError, Tell
    <3>2. CASE ~Listening
      BY <1>3, <3>2 DEF OnWatchStreamError, Listening, Listeners
    <3> QED BY <3>1, <3>2
  <2> QED BY <2>1, <2>3, <2>4, FreshDropped
<1>4. CASE BackoffElapses
  <2>1. UNCHANGED <<client, cache, agg, wires, server, basis>> /\ ~IsOpen(stream')
    BY <1>1, <1>4 DEF BackoffElapses, IsOpen, client, StreamStates
  <2>2. (Listening' => Listening) /\ (synced' => synced)
    BY <2>1 DEF client, Listening, Listeners
  <2> QED BY <2>1, <2>2, FreshFrame
<1>5. CASE IdleTimeout
  <2>1. /\ DropStream /\ UNCHANGED <<client, cache, server, basis>>
        /\ ~IsOpen(stream')
    BY <1>5, EndedFacts, StreamFacts DEF IdleTimeout, client, Stopped, IsOpen
  <2>2. (Listening' => Listening) /\ (synced' => synced)
    BY <2>1 DEF client, Listening, Listeners
  <2> QED BY <2>1, <2>2, FreshDropped
<1>6. CASE OnlineTimeout
  <2>1. UNCHANGED <<cache, stream, agg, wires, server, basis>>
    BY <1>6 DEF OnlineTimeout
  <2>2. Listeners(get') = Listeners(get)
    <3>1. tracker' \in Trackers /\ Tell(get, synced, tracker', cache)
      BY <1>1, <1>6, TrackerFacts DEF OnlineTimeout
    <3>2. get \in [Gets -> Stages] /\ answer \in [Gets -> Answers \cup {NoAnswer}]
      BY DEF TypeOK, Stages
    <3> QED BY <1>1, <3>1, <3>2, TellFacts
  <2>3. (Listening' => Listening) /\ (synced' => synced)
    BY <1>6, <2>2 DEF OnlineTimeout, Tell, Listening
  <2> QED BY <2>1, <2>3, FreshFrame
<1>7. CASE RestartNetwork
  <2>1. DropStream /\ UNCHANGED <<client, cache, server, basis>>
    BY <1>7 DEF RestartNetwork, client
  <2>2. stream' \in {Stopped, Start(Stopped)}
    BY <1>7 DEF RestartNetwork
  <2>3. ~IsOpen(stream')
    BY <2>2, EndedFacts, StreamFacts DEF IsOpen, IsStarted
  <2>4. (Listening' => Listening) /\ (synced' => synced)
    BY <2>1 DEF client, Listening, Listeners
  <2> QED BY <2>1, <2>3, <2>4, FreshDropped
<1> QED BY <1>2, <1>3, <1>4, <1>5, <1>6, <1>7

\* Responses that are received leave those after them in their order: a document
\* that is taken from the wire must have come to the client.
LEMMA AnsweringTail ==
    ASSUME TypeOK, Answering, toClient # <<>>, toClient' = Tail(toClient),
           UNCHANGED <<basis, backend>>,
           Confirming(toClient) = {} =>
              /\ Head(toClient).type = "doc" /\ Head(toClient).ver >= basis
                    => agg'.doc >= basis \/ cache' >= basis
              /\ agg.doc >= basis \/ cache >= basis
                    => agg'.doc >= basis \/ cache' >= basis
    PROVE  Answering'
<1>1. toClient \in Seq(Messages)
  BY DEF TypeOK
<1>2. /\ Len(toClient) \in Nat /\ Len(toClient') = Len(toClient) - 1
      /\ Head(toClient) = toClient[1] /\ 1 \in DOMAIN toClient
      /\ \A i : i \in DOMAIN toClient' <=> i \in Nat \ {0} /\ i + 1 \in DOMAIN toClient
      /\ \A i \in DOMAIN toClient' : toClient'[i] = toClient[i + 1]
      /\ \A i : i \in Confirming(toClient')
                   <=> i \in Nat \ {0} /\ i + 1 \in Confirming(toClient)
  BY <1>1, ConfirmingTail
<1>3. \A i \in DOMAIN toClient : i \in Nat \ {0}
  BY <1>1, LenProperties
<1>4. \A i \in Confirming(toClient) : i \in Nat \ {0}
  BY <1>3 DEF Confirming
<1>5. \A i \in Nat \ {0} : Later(i)' <=> Later(i + 1)
  <2> SUFFICES ASSUME NEW i \in Nat \ {0}
               PROVE  Later(i)' <=> Later(i + 1)
    OBVIOUS
  <2>1. ASSUME Later(i)', NEW k \in Confirming(toClient)
        PROVE  k < i + 1
    <3>1. CASE k = 1
      BY <3>1
    <3>2. CASE k # 1
      <4>1. k - 1 \in Confirming(toClient')
        <5>1. k \in Nat /\ k - 1 \in Nat \ {0} /\ (k - 1) + 1 = k
          BY <1>4, <2>1, <3>2
        <5> QED BY <1>2, <2>1, <5>1
      <4> QED BY <1>4, <2>1, <4>1 DEF Later
    <3> QED BY <3>1, <3>2
  <2>2. ASSUME Later(i + 1), NEW j \in Confirming(toClient')
        PROVE  j < i
    BY <1>2, <2>2 DEF Later
  <2> QED BY <2>1, <2>2 DEF Later
<1>6. ASSUME NEW i \in Nat \ {0}, Brought(i + 1)
      PROVE  Brought(i)'
  <2>1. CASE Confirming(toClient) = {} /\ (agg.doc >= basis \/ cache >= basis)
    <3>1. Confirming(toClient') = {}
      BY <1>2, <2>1
    <3> QED BY <2>1, <3>1 DEF Brought
  <2>2. ASSUME NEW j \in DOMAIN toClient, j < i + 1, Later(j),
               toClient[j].type = "doc"
        PROVE  Brought(i)'
    <3>1. CASE j = 1
      <4>1. Confirming(toClient) = {}
        BY <1>3, <2>2, <3>1 DEF Later, Confirming
      <4>2. Head(toClient).type = "doc" /\ Head(toClient).ver >= basis
        BY <1>2, <2>2, <3>1 DEF Answering
      <4>3. Confirming(toClient') = {}
        BY <1>2, <4>1
      <4> QED BY <4>1, <4>2, <4>3 DEF Brought
    <3>2. CASE j # 1
      <4>0. j - 1 \in Nat \ {0} /\ (j - 1) + 1 = j
        BY <1>3, <2>2, <3>2
      <4>1. j - 1 \in DOMAIN toClient' /\ toClient'[j - 1] = toClient[j] /\ j - 1 < i
        BY <1>2, <2>2, <4>0
      <4>2. Later(j - 1)'
        BY <1>5, <2>2, <4>0
      <4> QED BY <2>2, <4>1, <4>2 DEF Brought
    <3> QED BY <3>1, <3>2
  <2> QED BY <1>6, <2>1, <2>2 DEF Brought
<1>7. ASSUME NEW i \in DOMAIN toClient', Later(i)'
      PROVE  /\ toClient'[i].type = "doc" => toClient'[i].ver >= basis
             /\ toClient'[i].type = "snapshot" => Brought(i)'
  <2>1. i \in Nat \ {0} /\ i + 1 \in DOMAIN toClient /\ toClient'[i] = toClient[i + 1]
    BY <1>2
  <2>2. Later(i + 1)
    BY <1>5, <1>7, <2>1
  <2> QED BY <1>6, <2>1, <2>2 DEF Answering
<1>8. (backend \in {"owing", "settled"} => Brought(Len(toClient) + 1))'
  <2> SUFFICES ASSUME backend' \in {"owing", "settled"},
                      NEW i \in Nat \ {0}, i = Len(toClient)
               PROVE  Brought(Len(toClient) + 1)'
    BY <1>1, <1>2, EmptySeq
  <2>1. Brought(Len(toClient) + 1)
    BY DEF Answering
  <2>2. Brought(i + 1)
    BY <2>1
  <2>3. Brought(i)'
    BY <1>6, <2>2
  <2>4. i = Len(toClient') + 1
    BY <1>2
  <2> QED BY <2>3, <2>4 DEF Brought
<1> QED BY <1>7, <1>8 DEF Answering

\* What the client receives keeps its order, its counts and its freshness.
LEMMA ReceiveKeepsFresh ==
    ASSUME TypeOK, StreamInv, FreshInv, OnWatchStreamChange
    PROVE  FreshInv'
<1> DEFINE m == Head(toClient)
<1>1. /\ toClient # <<>> /\ toClient' = Tail(toClient)
      /\ UNCHANGED <<stream, toServer, backend, version, denied, basis>>
  BY DEF OnWatchStreamChange, ReceiveAdded, ReceiveRemoved, ReceiveCurrent,
         ReceiveDocument, ReceiveSnapshot, ReceiveDenied, Receive, server
<1>2. /\ toClient \in Seq(Messages) /\ agg \in Aggregators /\ synced \in BOOLEAN
      /\ cache \in 0..MaxVersion /\ basis \in Nat /\ version \in Nat
  BY BoundsAssumption DEF TypeOK, Aggregators
<1>3. /\ m = toClient[1] /\ 1 \in DOMAIN toClient
      /\ \A i : i \in DOMAIN toClient' <=> i \in Nat \ {0} /\ i + 1 \in DOMAIN toClient
      /\ \A i \in DOMAIN toClient' : toClient'[i] = toClient[i + 1]
      /\ 1 \in Confirming(toClient) <=> Confirms(m)
      /\ Cardinality(Confirming(toClient')) =
            Cardinality(Confirming(toClient)) - (IF Confirms(m) THEN 1 ELSE 0)
      /\ Cardinality(Confirming(toClient)) \in Nat
  BY <1>1, <1>2, ConfirmingTail
<1>4. /\ m \in Messages /\ m.ver \in Nat
      /\ IsOpen(stream) /\ IsOpen(stream') /\ Len(toServer) \in Nat
  BY <1>1, <1>2, WiresTyped, BoundsAssumption, LenProperties
     DEF Messages, StreamInv, WiresOpen, IsOpen, TypeOK
<1> HIDE DEF m
<1>5. CASE denied
  <2>1. m.type \in {"denied", "removed"}
    BY <1>3, <1>5 DEF FreshInv, Verdict
  <2>2. /\ backend = "none" /\ ~agg.current /\ ~synced
    BY <1>5 DEF FreshInv, Verdict
  <2>3. ~agg'.current /\ ~synced'
    <3>1. CASE ReceiveRemoved
      BY <1>2, <2>2, <3>1 DEF ReceiveRemoved, NoTarget, Aggregators, client
    <3>2. CASE ReceiveDenied
      BY <1>2, <2>2, <3>2 DEF ReceiveDenied, NoTarget, Aggregators
    <3> QED BY <2>1, <3>1, <3>2 DEF OnWatchStreamChange, ReceiveAdded,
            ReceiveCurrent, ReceiveDocument, ReceiveSnapshot, Receive, m
  <2>4. \A i \in DOMAIN toClient' : toClient'[i].type \in {"denied", "removed"}
    BY <1>3, <1>5 DEF FreshInv, Verdict
  <2> QED BY <1>1, <1>5, <2>2, <2>3, <2>4 DEF FreshInv, Verdict
<1>6. CASE ~denied
  <2>1. /\ Counted /\ FreshWires /\ SyncedIsFresh
        /\ \A i \in DOMAIN toClient : toClient[i].type # "denied"
    BY <1>6 DEF FreshInv, Verdict
  <2>2. Verdict' /\ basis' <= version'
    BY <1>1, <1>3, <1>6, <2>1 DEF FreshInv, Verdict
  <2>3. Listening' => Listening
    <3>1. CASE ReceiveSnapshot
      <4>1. (IF Active THEN agg.current ELSE synced) \in BOOLEAN
        BY <1>2 DEF Aggregators
      <4>2. tracker' \in Trackers /\ cache' \in 0..MaxVersion
        BY <3>1, ReceiveTyped DEF TypeOK
      <4>3. Listeners(get') = Listeners(get)
        BY <3>1, <4>1, <4>2, TellFacts DEF ReceiveSnapshot, TypeOK, Stages
      <4> QED BY <4>3 DEF Listening
    <3>2. CASE UNCHANGED client
      BY <3>2 DEF client, Listening, Listeners
    <3> QED BY <1>3, <2>1, <3>1, <3>2 DEF OnWatchStreamChange, ReceiveAdded,
            ReceiveRemoved, ReceiveCurrent, ReceiveDocument, ReceiveDenied,
            Receive, m
  <2>4. Listening /\ Confirming(toClient) = {} /\ toServer = <<>> => Active
    <3>1. Len(<<>>) = 0 /\ Cardinality({}) = 0
      BY FS_EmptySet
    <3> QED BY <1>2, <2>1, <3>1 DEF Counted, Active, Aggregators
  <2>5. Answering /\ Confirming(toClient) = {} =>
           /\ m.type = "doc" => m.ver >= basis
           /\ m.type = "snapshot" => agg.doc >= basis \/ cache >= basis
    <3> SUFFICES ASSUME Answering, Confirming(toClient) = {}
                 PROVE  /\ m.type = "doc" => m.ver >= basis
                        /\ m.type = "snapshot" => agg.doc >= basis \/ cache >= basis
      OBVIOUS
    <3>1. Later(1)
      BY DEF Later
    <3>2. \A j \in DOMAIN toClient : ~(j < 1)
      BY <1>2, LenProperties
    <3> QED BY <1>3, <3>1, <3>2 DEF Answering, Brought
  <2>6. ASSUME Counted', synced' => synced, UNCHANGED cache,
               Confirming(toClient) = {} /\ Answering /\ Listening /\ toServer = <<>> =>
                  \/ agg'.doc = agg.doc /\ m.type # "doc"
                  \/ agg'.doc >= basis
        PROVE  FreshInv'
    <3>1. SyncedIsFresh'
      BY <1>1, <2>1, <2>3, <2>6 DEF SyncedIsFresh
    <3>2. ASSUME Listening, toServer = <<>>
          PROVE  Answering'
      <4>1. Answering
        BY <1>4, <2>1, <3>2 DEF FreshWires
      <4> QED BY <1>1, <2>6, <3>2, <4>1, AnsweringTail DEF m
    <3>3. FreshWires'
      BY <1>1, <1>4, <2>1, <2>3, <3>2 DEF FreshWires
    <3> QED BY <1>1, <2>2, <2>6, <3>1, <3>3 DEF FreshInv
  <2>7. CASE ReceiveAdded \/ ReceiveRemoved
    <3>1. Confirms(m)
      BY <2>7 DEF ReceiveAdded, ReceiveRemoved, Receive, Confirms, m
    <3>2. agg'.outstanding = agg.outstanding - 1
      BY <1>2, <2>7 DEF ReceiveAdded, ReceiveRemoved, NoTarget, Aggregators
    <3>3. Counted'
      BY <1>1, <1>2, <1>3, <1>4, <2>1, <3>1, <3>2 DEF Counted, Aggregators
    <3>4. UNCHANGED client
      BY <2>7 DEF ReceiveAdded, ReceiveRemoved
    <3> QED BY <1>3, <2>6, <3>1, <3>3, <3>4 DEF client
  <2>8. CASE ReceiveCurrent \/ ReceiveDocument
    <3>1. m.type \in {"current", "doc"}
      BY <2>8 DEF ReceiveCurrent, ReceiveDocument, Receive, m
    <3>2. ~Confirms(m)
      BY <3>1 DEF Confirms
    <3>3. agg'.outstanding = agg.outstanding
      BY <1>2, <2>8 DEF ReceiveCurrent, ReceiveDocument, Aggregators
    <3>4. Counted'
      BY <1>1, <1>2, <1>3, <1>4, <2>1, <3>2, <3>3 DEF Counted, Aggregators
    <3>5. UNCHANGED client
      BY <2>8 DEF ReceiveCurrent, ReceiveDocument
    <3>6. CASE ReceiveCurrent
      <4>1. agg'.doc = agg.doc /\ m.type # "doc"
        BY <1>2, <3>6 DEF ReceiveCurrent, Receive, Aggregators, m
      <4> QED BY <2>6, <3>4, <3>5, <4>1 DEF client
    <3>7. CASE ReceiveDocument
      <4>1. m.type = "doc" /\ (Active => agg'.doc = m.ver)
        BY <1>2, <3>7 DEF ReceiveDocument, Receive, Aggregators, m
      <4> QED BY <2>4, <2>5, <2>6, <3>4, <3>5, <4>1 DEF client
    <3> QED BY <2>8, <3>6, <3>7
  <2>9. CASE ReceiveSnapshot
    <3>1. m.type = "snapshot" /\ ~Confirms(m)
      BY <2>9 DEF ReceiveSnapshot, Receive, Confirms, m
    <3>2. /\ agg'.outstanding = agg.outstanding
          /\ agg.doc \in Nat /\ cache \in Nat /\ cache' \in Nat
          /\ cache' >= cache /\ cache' >= agg.doc
      BY <1>2, <2>9, BoundsAssumption DEF ReceiveSnapshot, Aggregators
    <3>3. Counted'
      BY <1>1, <1>2, <1>3, <1>4, <2>1, <3>1, <3>2 DEF Counted, Aggregators
    <3>4. agg.doc >= basis \/ cache >= basis => cache' >= basis
      BY <1>2, <3>2
    <3>5. SyncedIsFresh'
      <4> SUFFICES ASSUME Listening', synced'
                   PROVE  cache' >= basis
        BY <1>1 DEF SyncedIsFresh
      <4>1. IF Active THEN agg.current ELSE synced
        BY <2>9 DEF ReceiveSnapshot, Tell
      <4>2. CASE Active
        <5>1. toServer = <<>> /\ Confirming(toClient) = {}
          BY <2>1, <4>2, NoneCounted DEF Active
        <5>2. Answering
          BY <1>4, <2>1, <2>3, <5>1 DEF FreshWires
        <5> QED BY <2>5, <3>1, <3>4, <5>1, <5>2
      <4>3. CASE ~Active
        BY <2>1, <2>3, <3>4, <4>1, <4>3 DEF SyncedIsFresh
      <4> QED BY <4>2, <4>3
    <3>6. ASSUME Listening, toServer = <<>>
          PROVE  Answering'
      <4>1. Answering
        BY <1>4, <2>1, <3>6 DEF FreshWires
      <4> QED BY <1>1, <3>1, <3>4, <4>1, AnsweringTail DEF m
    <3>7. FreshWires'
      BY <1>1, <1>4, <2>1, <2>3, <3>6 DEF FreshWires
    <3> QED BY <1>1, <2>2, <3>3, <3>5, <3>7 DEF FreshInv
  <2> QED BY <1>3, <2>1, <2>7, <2>8, <2>9
       DEF OnWatchStreamChange, ReceiveDenied, Receive, m
<1> QED BY <1>5, <1>6

\* More responses, none of them a confirmation: what comes after the documents
\* that were sent stays fresh.
LEMMA AnsweringConcat ==
    ASSUME TypeOK, NEW r \in Seq(Messages), toClient' = toClient \o r,
           \A k \in DOMAIN r : ~Confirms(r[k]),
           UNCHANGED <<basis, agg, cache>>
    PROVE  /\ Confirming(toClient') = Confirming(toClient)
           /\ Answering
              /\ (\A k \in DOMAIN r :
                     /\ r[k].type = "doc" => r[k].ver >= basis
                     /\ r[k].type = "snapshot" => backend \in {"owing", "settled"})
              /\ (backend' \in {"owing", "settled"} =>
                     \/ backend \in {"owing", "settled"}
                     \/ \E k \in DOMAIN r : r[k].type = "doc")
              => Answering'
<1> DEFINE n == Len(toClient)
           N == Len(toClient')
<1>1. /\ n \in Nat /\ Len(r) \in Nat /\ N = n + Len(r)
      /\ DOMAIN toClient = 1..n /\ DOMAIN r = 1..Len(r) /\ DOMAIN toClient' = 1..N
      /\ \A i \in 1..n : toClient'[i] = toClient[i]
      /\ \A k \in 1..Len(r) : toClient'[n + k] = r[k]
  <2>1. toClient \in Seq(Messages)
    BY DEF TypeOK
  <2>2. /\ toClient \o r \in Seq(Messages)
        /\ Len(toClient \o r) = Len(toClient) + Len(r)
        /\ \A i \in 1 .. Len(toClient) + Len(r) : (toClient \o r)[i] =
              IF i <= Len(toClient) THEN toClient[i] ELSE r[i - Len(toClient)]
    BY <2>1, ConcatProperties
  <2>3. n \in Nat /\ Len(r) \in Nat /\ DOMAIN toClient = 1..n /\ DOMAIN r = 1..Len(r)
    BY <2>1, LenProperties
  <2>4. N = n + Len(r) /\ DOMAIN toClient' = 1..N
    BY <2>2, <2>3, LenProperties
  <2>5. \A i \in 1..n : toClient'[i] = toClient[i]
    BY <2>2, <2>3
  <2>6. \A k \in 1..Len(r) : toClient'[n + k] = r[k]
    <3> SUFFICES ASSUME NEW k \in 1..Len(r) PROVE toClient'[n + k] = r[k]
      OBVIOUS
    <3>1. n + k \in 1 .. n + Len(r) /\ ~(n + k <= n) /\ (n + k) - n = k
      BY <2>3
    <3> QED BY <2>2, <3>1
  <2> QED BY <2>3, <2>4, <2>5, <2>6
<1> HIDE DEF n, N
<1>2. \A i \in 1..N : i \in 1..n \/ \E k \in 1..Len(r) : i = n + k
  <2> SUFFICES ASSUME NEW i \in 1..N, ~(i \in 1..n)
               PROVE  \E k \in 1..Len(r) : i = n + k
    OBVIOUS
  <2>1. i - n \in 1..Len(r) /\ i = n + (i - n)
    BY <1>1
  <2> QED BY <2>1
<1>3. Confirming(toClient') = Confirming(toClient)
  <2>1. ASSUME NEW i \in Confirming(toClient') PROVE i \in Confirming(toClient)
    <3>1. i \in 1..N /\ Confirms(toClient'[i])
      BY <1>1, <2>1 DEF Confirming
    <3>2. ~ \E k \in 1..Len(r) : i = n + k
      BY <1>1, <3>1
    <3> QED BY <1>1, <1>2, <3>1, <3>2 DEF Confirming
  <2>2. Confirming(toClient) \subseteq Confirming(toClient')
    BY <1>1 DEF Confirming
  <2> QED BY <2>1, <2>2
<1>4. \A j \in Confirming(toClient) : j \in 1..n
  BY <1>1 DEF Confirming
<1>5. \A i : Later(i)' <=> Later(i)
  BY <1>3 DEF Later
<1>6. ASSUME NEW i \in Nat, NEW k \in Nat, i <= k, Brought(i)
      PROVE  Brought(k)'
  <2>1. CASE Confirming(toClient) = {} /\ (agg.doc >= basis \/ cache >= basis)
    BY <1>3, <2>1 DEF Brought
  <2>2. ASSUME NEW j \in DOMAIN toClient, j < i, Later(j), toClient[j].type = "doc"
        PROVE  Brought(k)'
    <3>1. j \in DOMAIN toClient' /\ j < k /\ toClient'[j].type = "doc"
      BY <1>1, <1>6, <2>2
    <3>2. Later(j)'
      BY <1>5, <2>2
    <3> QED BY <3>1, <3>2 DEF Brought
  <2> QED BY <1>6, <2>1, <2>2 DEF Brought
<1>7. SUFFICES ASSUME Answering,
                      \A k \in DOMAIN r :
                         /\ r[k].type = "doc" => r[k].ver >= basis
                         /\ r[k].type = "snapshot" => backend \in {"owing", "settled"},
                      backend' \in {"owing", "settled"} =>
                         \/ backend \in {"owing", "settled"}
                         \/ \E k \in DOMAIN r : r[k].type = "doc"
               PROVE  Answering'
  BY <1>3
<1>8. backend \in {"owing", "settled"} => \A k \in Nat : n < k => Brought(k)'
  <2> SUFFICES ASSUME backend \in {"owing", "settled"}, NEW k \in Nat, n < k
               PROVE  Brought(k)'
    OBVIOUS
  <2>1. Brought(n + 1)
    BY <1>7 DEF Answering, n
  <2>2. n + 1 \in Nat /\ n + 1 <= k
    BY <1>1
  <2> QED BY <1>6, <2>1, <2>2
<1>9. ASSUME NEW i \in DOMAIN toClient', Later(i)'
      PROVE  /\ toClient'[i].type = "doc" => toClient'[i].ver >= basis
             /\ toClient'[i].type = "snapshot" => Brought(i)'
  <2>1. CASE i \in 1..n
    <3>1. /\ toClient[i].type = "doc" => toClient[i].ver >= basis
          /\ toClient[i].type = "snapshot" => Brought(i)
      BY <1>1, <1>5, <1>7, <1>9, <2>1 DEF Answering
    <3> QED BY <1>1, <1>6, <2>1, <3>1
  <2>2. ASSUME NEW k \in 1..Len(r), i = n + k
        PROVE  /\ toClient'[i].type = "doc" => toClient'[i].ver >= basis
               /\ toClient'[i].type = "snapshot" => Brought(i)'
    <3>1. toClient'[i] = r[k] /\ i \in Nat /\ n < i /\ k \in DOMAIN r
      BY <1>1, <2>2
    <3>2. /\ r[k].type = "doc" => r[k].ver >= basis
          /\ r[k].type = "snapshot" => backend \in {"owing", "settled"}
      BY <1>7, <3>1
    <3>3. backend \in {"owing", "settled"} => Brought(i)'
      BY <1>8, <3>1
    <3> QED BY <3>1, <3>2, <3>3
  <2>3. i \in 1..n \/ \E k \in 1..Len(r) : i = n + k
    BY <1>1, <1>2, <1>9
  <2> QED BY <2>1, <2>2, <2>3
<1>10. (backend \in {"owing", "settled"} => Brought(Len(toClient) + 1))'
  <2>0. N + 1 \in Nat /\ N + 1 = Len(toClient') + 1
    BY <1>1 DEF N
  <2> SUFFICES ASSUME backend' \in {"owing", "settled"},
                      NEW i \in Nat, i = N + 1
               PROVE  Brought(i)'
    BY <2>0 DEF Brought
  <2>1. CASE backend \in {"owing", "settled"}
    BY <1>1, <1>8, <2>1
  <2>2. CASE \E k \in DOMAIN r : r[k].type = "doc"
    <3>1. PICK k \in DOMAIN r : r[k].type = "doc"
      BY <2>2
    <3>2. PICK j \in DOMAIN toClient' : j = n + k
      BY <1>1, <3>1
    <3>3. j < i /\ toClient'[j].type = "doc"
      BY <1>1, <3>1, <3>2
    <3>4. Later(j)
      BY <1>1, <1>4, <3>1, <3>2 DEF Later
    <3>5. Later(j)'
      BY <1>5, <3>4
    <3> QED BY <3>3, <3>5 DEF Brought
  <2> QED BY <1>7, <2>1, <2>2
<1> QED BY <1>9, <1>10 DEF Answering

\* The requests that remain end as they did.
LEMMA RequestsTail ==
    ASSUME NEW q \in Seq({"watch", "unwatch"}), q # <<>>
    PROVE  /\ Len(q) \in Nat /\ Len(Tail(q)) = Len(q) - 1
           /\ Tail(q) # <<>> => Tail(q)[Len(Tail(q))] = q[Len(q)]
           /\ Tail(q) = <<>> => Head(q) = q[Len(q)]
<1>1. Len(q) \in Nat \ {0}
  BY LenProperties, EmptySeq
<1>2. /\ Tail(q) \in Seq({"watch", "unwatch"}) /\ Len(Tail(q)) = Len(q) - 1
      /\ Head(q) = q[1] /\ \A i \in 1..Len(Tail(q)) : Tail(q)[i] = q[i + 1]
  BY HeadTailProperties
<1> DEFINE t == Tail(q)
<1> HIDE DEF t
<1>3. t \in Seq({"watch", "unwatch"}) /\ Len(t) = Len(q) - 1
      /\ \A i \in 1..Len(t) : t[i] = q[i + 1]
  BY <1>2 DEF t
<1>4. ASSUME t # <<>> PROVE t[Len(t)] = q[Len(q)]
  <2>1. Len(t) # 0
    BY <1>3, <1>4, EmptySeq
  <2>2. Len(t) \in 1..Len(t) /\ Len(t) + 1 = Len(q)
    BY <1>1, <1>3, <2>1
  <2> QED BY <1>3, <2>2
<1>5. ASSUME t = <<>> PROVE Head(q) = q[Len(q)]
  <2>1. Len(<<>>) = 0
    OBVIOUS
  <2>2. Len(q) = 1
    BY <1>1, <1>3, <1>5, <2>1
  <2> QED BY <1>2, <2>2
<1> QED BY <1>1, <1>2, <1>4, <1>5 DEF t

\* The server: a confirmation takes the place of its request, and what answers
\* the present listen begins with the document.
LEMMA ServerKeepsFresh ==
    ASSUME TypeOK, FreshInv, ServerAnswers \/ Change
    PROVE  FreshInv'
<1>1. /\ toServer \in Seq({"watch", "unwatch"}) /\ toClient \in Seq(Messages)
      /\ version \in 1..MaxVersion /\ MaxVersion \in Nat
      /\ basis \in Nat /\ agg.outstanding \in Int
  BY BoundsAssumption DEF TypeOK
<1>2. UNCHANGED <<client, network, basis, denied>>
  BY DEF ServerAnswers, ServeWatch, ServeUnwatch, Serve, ServeCurrent,
         ServeSnapshot, Change, server
<1>3. /\ UNCHANGED <<stream, agg, synced, cache>>
      /\ (Listening' <=> Listening)
  BY <1>2 DEF client, network, Listening, Listeners
<1>4. basis <= version' /\ version' >= version
        /\ version' \in 1..MaxVersion
  BY <1>1 DEF FreshInv, ServerAnswers, ServeWatch, ServeUnwatch, Serve,
              ServeCurrent, ServeSnapshot, Change, server
<1>5. \A type \in {"added", "removed", "current", "snapshot", "denied"} :
         Message(type) \in Messages
  BY <1>1 DEF Message, Messages
<1>6. CASE denied
  <2>1. /\ backend = "none" /\ ~agg.current /\ ~synced
        /\ \A i \in DOMAIN toClient : toClient[i].type \in {"denied", "removed"}
    BY <1>6 DEF FreshInv, Verdict
  <2>2. ASSUME NEW type \in {"denied", "removed"}, backend' = "none",
               toClient' = Append(toClient, Message(type))
        PROVE  Verdict'
    <3>1. DOMAIN toClient' = 1..(Len(toClient) + 1) /\ Len(toClient) \in Nat
          /\ DOMAIN toClient = 1..Len(toClient)
          /\ \A i \in 1..Len(toClient) : toClient'[i] = toClient[i]
          /\ toClient'[Len(toClient) + 1] = Message(type)
      BY <1>1, <1>5, <2>2, AppendProperties, LenProperties
    <3>2. Message(type).type = type
      BY DEF Message
    <3>3. \A i \in 1..(Len(toClient) + 1) :
             i \in 1..Len(toClient) \/ i = Len(toClient) + 1
      BY <3>1
    <3>4. \A i \in DOMAIN toClient' : toClient'[i].type \in {"denied", "removed"}
      BY <2>1, <2>2, <3>1, <3>2, <3>3
    <3> QED BY <1>2, <1>3, <1>6, <2>1, <2>2, <3>4 DEF Verdict
  <2>3. CASE ServeWatch \/ ServeUnwatch
    BY <1>6, <2>2, <2>3, <1>2, <1>4 DEF ServeWatch, ServeUnwatch, Serve, FreshInv
  <2>4. CASE Change
    <3>1. UNCHANGED <<backend, toClient>>
      BY <2>1, <2>4 DEF Change
    <3> QED BY <1>2, <1>3, <1>4, <1>6, <2>1, <3>1 DEF Verdict, FreshInv
  <2> QED BY <2>1, <2>3, <2>4 DEF ServerAnswers, ServeCurrent, ServeSnapshot
<1>7. CASE ~denied
  <2>1. /\ Counted /\ FreshWires /\ SyncedIsFresh
        /\ \A i \in DOMAIN toClient : toClient[i].type # "denied"
    BY <1>7 DEF FreshInv, Verdict
  <2>2. SyncedIsFresh'
    BY <1>2, <1>3, <2>1 DEF SyncedIsFresh
  <2>3. ASSUME NEW request \in {"watch", "unwatch"},
               NEW reply \in {"added", "removed"}, NEW owes,
               Serve(request, reply, owes),
               request = "watch" => owes = "added"
        PROVE  FreshInv'
    <3>1. /\ toServer # <<>> /\ Head(toServer) = request /\ toServer' = Tail(toServer)
          /\ toClient' = Append(toClient, Message(reply)) /\ backend' = owes
      BY <2>3 DEF Serve
    <3>2. /\ Message(reply) \in Messages /\ Confirms(Message(reply))
          /\ Message(reply).type # "denied"
      BY <1>5 DEF Message, Confirms
    <3>3. /\ Len(toClient') = Len(toClient) + 1 /\ toClient' \in Seq(Messages)
          /\ \A i \in DOMAIN toClient : toClient'[i] = toClient[i]
          /\ toClient'[Len(toClient) + 1] = Message(reply)
          /\ Confirming(toClient') = Confirming(toClient) \cup {Len(toClient) + 1}
          /\ Cardinality(Confirming(toClient')) = Cardinality(Confirming(toClient)) + 1
          /\ Cardinality(Confirming(toClient)) \in Nat
      BY <1>1, <3>1, <3>2, ConfirmingAppend
    <3>4. /\ DOMAIN toClient' = 1..(Len(toClient) + 1) /\ Len(toClient) \in Nat
          /\ DOMAIN toClient = 1..Len(toClient)
      BY <1>1, <3>3, LenProperties
    <3>5. \A i \in DOMAIN toClient' : toClient'[i].type # "denied"
      <4>1. \A i \in 1..(Len(toClient) + 1) :
               i \in 1..Len(toClient) \/ i = Len(toClient) + 1
        BY <3>4
      <4> QED BY <2>1, <3>2, <3>3, <3>4, <4>1
    <3>6. /\ Len(toServer) \in Nat /\ Len(toServer') = Len(toServer) - 1
          /\ toServer' # <<>> => toServer'[Len(toServer')] = toServer[Len(toServer)]
          /\ toServer' = <<>> => request = toServer[Len(toServer)]
      BY <1>1, <3>1, RequestsTail
    <3>7. Counted'
      BY <1>1, <1>3, <2>1, <3>3, <3>6 DEF Counted
    <3>8. ASSUME Listening', IsOpen(stream')
          PROVE  IF toServer' = <<>> THEN Answering'
                 ELSE toServer'[Len(toServer')] = "watch"
      <4>1. toServer[Len(toServer)] = "watch"
        BY <1>3, <2>1, <3>1, <3>8 DEF FreshWires
      <4>2. ASSUME toServer' = <<>> PROVE Answering'
        <5>1. backend' \notin {"owing", "settled"}
          BY <2>3, <3>1, <3>6, <4>1, <4>2
        <5>2. ASSUME NEW i \in DOMAIN toClient', Later(i)' PROVE FALSE
          <6>1. i \in 1..(Len(toClient) + 1)
            BY <3>4
          <6>2. Len(toClient) + 1 \in Confirming(toClient')
            BY <3>3
          <6>3. Len(toClient) + 1 < i
            BY <5>2, <6>2 DEF Later
          <6> QED BY <3>4, <6>1, <6>3
        <5> QED BY <5>1, <5>2 DEF Answering
      <4> QED BY <3>6, <4>1, <4>2
    <3> QED BY <1>2, <1>4, <1>7, <2>2, <3>5, <3>7, <3>8
         DEF FreshInv, Verdict, FreshWires
  <2>4. ASSUME NEW r \in Seq(Messages), toClient' = toClient \o r,
               UNCHANGED toServer,
               \A k \in DOMAIN r :
                  /\ r[k].type \in {"doc", "current", "snapshot"}
                  /\ r[k].type = "doc" => r[k].ver >= basis
                  /\ r[k].type = "snapshot" => backend \in {"owing", "settled"},
               backend' \in {"owing", "settled"} =>
                  \/ backend \in {"owing", "settled"}
                  \/ \E k \in DOMAIN r : r[k].type = "doc"
        PROVE  FreshInv'
    <3>1. \A k \in DOMAIN r : ~Confirms(r[k])
      BY <2>4 DEF Confirms
    <3>2. /\ Confirming(toClient') = Confirming(toClient)
          /\ Answering => Answering'
      BY <1>2, <1>3, <2>4, <3>1, AnsweringConcat
    <3>3. Counted'
      BY <1>3, <2>1, <2>4, <3>2 DEF Counted
    <3>4. FreshWires'
      BY <1>3, <2>1, <2>4, <3>2 DEF FreshWires
    <3>5. \A i \in DOMAIN toClient' : toClient'[i].type # "denied"
      <4>1. /\ DOMAIN toClient' = 1..(Len(toClient) + Len(r))
            /\ DOMAIN toClient = 1..Len(toClient) /\ DOMAIN r = 1..Len(r)
            /\ Len(toClient) \in Nat /\ Len(r) \in Nat
            /\ \A i \in 1..(Len(toClient) + Len(r)) : toClient'[i] =
                  IF i <= Len(toClient) THEN toClient[i] ELSE r[i - Len(toClient)]
        BY <1>1, <2>4, ConcatProperties, LenProperties
      <4>2. \A i \in 1..(Len(toClient) + Len(r)) :
               \/ i \in 1..Len(toClient) /\ i <= Len(toClient)
               \/ i - Len(toClient) \in 1..Len(r) /\ ~(i <= Len(toClient))
        BY <4>1
      <4>3. \A k \in DOMAIN r : r[k].type # "denied"
        BY <2>4
      <4> QED BY <2>1, <4>1, <4>2, <4>3
    <3> QED BY <1>2, <1>4, <1>7, <2>2, <3>3, <3>4, <3>5 DEF FreshInv, Verdict
  <2>5. CASE ServeWatch
    <3>1. Serve("watch", "added", "added")
      BY <1>7, <2>5 DEF ServeWatch
    <3> QED BY <2>3, <3>1
  <2>6. CASE ServeUnwatch
    <3>1. Serve("unwatch", "removed", "none")
      BY <2>6 DEF ServeUnwatch
    <3> QED BY <2>3, <3>1
  <2>7. CASE ServeCurrent
    <3> DEFINE r == <<Document, Message("current")>>
    <3>1. Document \in Messages /\ Document.type = "doc" /\ Document.ver = version
      BY <1>1 DEF Document, Messages
    <3>2. Message("current") \in Messages /\ Message("current").type = "current"
      BY <1>5 DEF Message
    <3>3. r \in Seq(Messages) /\ DOMAIN r = 1..2 /\ r[1] = Document
          /\ r[2] = Message("current")
      BY <3>1, <3>2
    <3>4. \A k \in DOMAIN r : r[k].type \in {"doc", "current"}
              /\ (r[k].type = "doc" => r[k].ver = version)
      BY <3>1, <3>2, <3>3
    <3>5. toClient' = toClient \o r /\ UNCHANGED toServer
      BY <2>7 DEF ServeCurrent
    <3>6. 1 \in DOMAIN r /\ r[1].type = "doc"
      BY <3>1, <3>3
    <3>7. basis <= version
      BY DEF FreshInv
    <3> HIDE DEF r
    <3> QED BY <1>1, <2>4, <3>3, <3>4, <3>5, <3>6, <3>7
  <2>8. CASE ServeSnapshot
    <3> DEFINE r == <<Message("snapshot")>>
    <3>1. Message("snapshot") \in Messages /\ Message("snapshot").type = "snapshot"
      BY <1>5 DEF Message
    <3>2. r \in Seq(Messages) /\ DOMAIN r = {1} /\ r[1] = Message("snapshot")
      BY <3>1
    <3>3. toClient' = toClient \o r
      BY <1>1, <2>8, <3>1, AppendIsConcat DEF ServeSnapshot
    <3>4. backend = "owing" /\ UNCHANGED toServer
      BY <2>8 DEF ServeSnapshot
    <3> HIDE DEF r
    <3> QED BY <2>4, <3>1, <3>2, <3>3, <3>4
  <2>9. CASE Change
    <3>1. UNCHANGED toServer
      BY <2>9 DEF Change
    <3>2. CASE backend \in {"owing", "settled"}
      <4> DEFINE d == [Document EXCEPT !.ver = version']
                 r == <<d>>
      <4>1. d \in Messages /\ d.type = "doc" /\ d.ver = version'
        BY <1>4 DEF Document, Messages
      <4>2. r \in Seq(Messages) /\ DOMAIN r = {1} /\ r[1] = d
        BY <4>1
      <4>3. toClient' = Append(toClient, d)
        BY <2>9, <3>2 DEF Change
      <4> HIDE DEF d
      <4>4. toClient' = toClient \o r
        BY <1>1, <4>1, <4>3, AppendIsConcat
      <4> HIDE DEF r
      <4> QED BY <1>1, <1>4, <2>4, <3>1, <3>2, <4>1, <4>2, <4>4
    <3>3. CASE backend \notin {"owing", "settled"}
      <4>1. UNCHANGED <<backend, toClient>>
        BY <2>9, <3>3 DEF Change
      <4>2. FreshWires'
        BY <1>2, <1>3, <2>1, <3>1, <4>1
           DEF FreshWires, Answering, Brought, Later
      <4>3. Counted'
        BY <1>3, <2>1, <3>1, <4>1 DEF Counted
      <4> QED BY <1>2, <1>4, <1>7, <2>1, <2>2, <4>1, <4>2, <4>3
           DEF FreshInv, Verdict
    <3> QED BY <3>2, <3>3
  <2> QED BY <2>5, <2>6, <2>7, <2>8, <2>9 DEF ServerAnswers
<1> QED BY <1>6, <1>7

\* At first nobody listens.
LEMMA FreshInitially == Init => FreshInv
<1> SUFFICES ASSUME Init PROVE FreshInv
  OBVIOUS
<1>1. /\ ~Listening /\ toServer = <<>> /\ DOMAIN toClient = {} /\ backend = "none"
      /\ agg = NoTarget /\ ~synced /\ basis = 0 /\ version = 1
  BY DEF Init, Listening, Listeners
<1>2. Len(toServer) = 0 /\ Confirming(toClient) = {}
  BY <1>1 DEF Confirming
<1>3. Counted
  BY <1>1, <1>2, FS_EmptySet DEF Counted, NoTarget
<1>4. Verdict /\ basis <= version
  BY <1>1 DEF Verdict, NoTarget
<1> QED BY <1>1, <1>3, <1>4 DEF FreshInv, FreshWires, SyncedIsFresh

\* Every step keeps what is fresh.
LEMMA FreshStep ==
    ASSUME TypeOK, StreamInv, FreshInv, [Next]_vars
    PROVE  FreshInv'
<1>1. CASE UNCHANGED vars
  <2>1. UNCHANGED <<cache, agg, wires, server, basis, stream, get, synced>>
    BY <1>1 DEF vars, client, network
  <2>2. (Listening' => Listening) /\ (IsOpen(stream') => IsOpen(stream))
    BY <2>1 DEF Listening, Listeners
  <2> QED BY <2>1, <2>2, FreshFrame
<1>2. CASE Next
  BY <1>2, CallersKeepFresh, TimersKeepFresh, ReceiveKeepsFresh, ServerKeepsFresh
     DEF Next
<1> QED BY <1>1, <1>2

\* A view that counts as synced is as fresh as the server was when the listen
\* began, whatever responses to earlier listens were on their way then
\* (TargetState::outstanding_responses_, WatchChangeAggregator).
THEOREM SyncedFresh == Spec => []SyncedIsFresh
<1>1. Init => FreshInv
  BY FreshInitially
<1>2. TypeOK /\ StreamInv /\ FreshInv /\ [Next]_vars => FreshInv'
  BY FreshStep
<1>3. FreshInv => SyncedIsFresh
  BY DEF FreshInv, Verdict, SyncedIsFresh
<1>4. Spec => []StreamInv
  BY StreamInitially, StreamStep, TypeCorrect, PTL DEF Spec
<1> QED BY <1>1, <1>2, <1>3, <1>4, TypeCorrect, PTL DEF Spec
=============================================================================
