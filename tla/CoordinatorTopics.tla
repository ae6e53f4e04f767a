---------------------------- MODULE CoordinatorTopics ----------------------------
(***************************************************************************)
(* The topic stream from the Coordinator Worker to one page: the bounded   *)
(* queue of the page, the baselines sent when it subscribes, and the       *)
(* projection the page keeps (coordinatorTopicStream and publishTopicEvent *)
(* in src/src/assembly/coordinatorWorker.ts, applyTopicEvent in            *)
(* src/src/keymasterSessionCoordinatorClient.ts).                          *)
(*                                                                         *)
(* Stream items and call responses share one ordered port, but an item is  *)
(* only put on the port when the stream has credit; a response overtakes   *)
(* the items that still wait.                                              *)
(***************************************************************************)
EXTENDS Naturals, Integers, Sequences, SequencesExt, FiniteSetsExt

CONSTANTS
    QueueLimit,     \* COORDINATOR_TOPIC_QUEUE_LIMIT
    MaxSessionEpoch,    \* bound on the session epochs; the page keeps at most four deferred ones
    MaxRevision,    \* bound on the publications of one Worker
    MaxLosses,      \* bound on lost connections and restarts of the Worker
    MaxResponses    \* bound on the responses on the port

ASSUME TopicsAssumption ==
    /\ QueueLimit \in Nat \ {0} /\ MaxSessionEpoch \in 0..4 /\ MaxRevision \in Nat
    /\ MaxLosses \in Nat /\ MaxResponses \in Nat

VARIABLES
    epoch,          \* coordinatorState.sessionEpoch
    published,      \* the last event of each topic, as a baseline would show it
    stream,         \* the state of the page's stream
    baselines,      \* baselines the generator has yet to yield
    queue,          \* CoordinatorTopicStreamQueue.values
    port,           \* messages on their way to the page
    page,           \* the page's projection
    losses          \* connections lost so far

topicVars == <<epoch, published, stream, baselines, queue, port, page, losses>>
coordinator == <<epoch, published>>

Topics == {"session", "units", "storage"}
Epochs == 0..MaxSessionEpoch
Revisions == 0..MaxRevision
Event == [topic : Topics, revision : Revisions, epoch : Epochs]
Response == [topic : {"response"}, revision : {0}, epoch : Epochs]
End == [topic |-> "end", revision |-> 0, epoch |-> 0]

Event0(topic) == [topic |-> topic, revision |-> 0, epoch |-> 0]
OffPage == [state |-> "off", epoch |-> 0,
            revision |-> [t \in Topics |-> -1], \* the ...RevisionCache fields
            units |-> -1,                        \* epoch of the units shown, -1 for none
            session |-> -1,                      \* epoch of the last session.state applied
            deferred |-> {}]                     \* pendingWorkerUnitEvents

TopicsInit ==
    /\ epoch = 0
    /\ published = [t \in Topics |-> Event0(t)]
    /\ stream = "none"
    /\ baselines = <<>>
    /\ queue = <<>>
    /\ port = <<>>
    /\ page = OffPage
    /\ losses = 0

-----------------------------------------------------------------------------
\* canCoalesceStorageActivity: adjacent storage activity of one session epoch.
CoalescesAnywhere(e) ==  \* Mutant: any event of the topic is replaced.
    queue # <<>> /\ e.topic = "storage" /\ Last(queue).epoch = e.epoch

Coalesces(e) ==
    queue # <<>> /\ e.topic = "storage" /\ Last(queue).topic = "storage" /\ Last(queue).epoch = e.epoch

\* enqueueCoordinatorTopicEvent: a full queue ends the page's own stream.
EnqueueUnbounded(e) ==  \* Mutant: the limit is not looked at.
    IF stream \notin {"opening", "live"} THEN UNCHANGED <<stream, queue>>
    ELSE IF Coalesces(e) THEN queue' = Front(queue) \o <<e>> /\ UNCHANGED stream
    ELSE queue' = Append(queue, e) /\ UNCHANGED stream

EnqueueDropping(e) ==  \* Mutant: a full queue drops the event.
    IF stream \notin {"opening", "live"} THEN UNCHANGED <<stream, queue>>
    ELSE IF Coalesces(e) THEN queue' = Front(queue) \o <<e>> /\ UNCHANGED stream
    ELSE IF Len(queue) >= QueueLimit THEN UNCHANGED <<stream, queue>>
    ELSE queue' = Append(queue, e) /\ UNCHANGED stream

Enqueue(e) ==
    IF stream \notin {"opening", "live"} THEN UNCHANGED <<stream, queue>>
    ELSE IF Coalesces(e) THEN queue' = Front(queue) \o <<e>> /\ UNCHANGED stream
    ELSE IF Len(queue) >= QueueLimit THEN stream' = "overflowed" /\ queue' = <<>>
    ELSE queue' = Append(queue, e) /\ UNCHANGED stream

\* publishTopicEvent, under the epoch of the moment.
Publish(topic) ==
    LET event == [topic |-> topic, revision |-> published[topic].revision + 1, epoch |-> epoch]
    IN  /\ MapThenSumSet(LAMBDA t : published[t].revision, Topics) < MaxRevision
        /\ published' = [published EXCEPT ![topic] = event]
        /\ Enqueue(event)
        /\ UNCHANGED <<epoch, baselines, port, page, losses>>

\* A lock, an unlock or a password change: its session.state comes in a later job.
RotateEpoch ==
    /\ epoch < MaxSessionEpoch
    /\ epoch' = epoch + 1
    /\ UNCHANGED <<published, stream, baselines, queue, port, page, losses>>

-----------------------------------------------------------------------------
\* sendHello: the snapshot of the session.open response, on a new port. The
\* revision caches were reset when the last connection ended.
SendHello ==
    /\ page.state = "off"
    /\ port' = <<>>
    /\ page' = [page EXCEPT !.state = "connected", !.epoch = epoch,
                            !.units = epoch, !.revision["units"] = published["units"].revision]
    /\ stream' = "none"
    /\ UNCHANGED <<coordinator, baselines, queue, losses>>

\* coordinatorTopicStream registers the queue before the baselines are awaited.
Subscribe ==
    /\ page.state = "connected" /\ stream = "none"
    /\ stream' = "opening"
    /\ queue' = <<>>
    /\ baselines' = <<>>
    /\ UNCHANGED <<coordinator, port, page, losses>>

\* buildTopicBaselines: one snapshot of every topic, yielded in turn. A baseline
\* carries the current epoch, and the revision of the last publication.
Baseline(topic) == [published[topic] EXCEPT !.epoch = IF topic = "storage" THEN @ ELSE epoch]

BuildBaselines ==
    /\ stream = "opening"
    /\ baselines' = <<Baseline("session"), Baseline("storage"), Baseline("units")>>
    /\ stream' = "live"
    /\ UNCHANGED <<coordinator, queue, port, page, losses>>

\* With credit, the generator yields its next item, or ends with the queue's error.
Yield ==
    /\ \/ /\ baselines # <<>> /\ stream \in {"live", "overflowed"}
          /\ port' = Append(port, Head(baselines))
          /\ baselines' = Tail(baselines)
          /\ UNCHANGED <<queue, stream>>
       \/ /\ baselines = <<>> /\ stream = "live" /\ queue # <<>>
          /\ port' = Append(port, Head(queue))
          /\ queue' = Tail(queue)
          /\ UNCHANGED <<baselines, stream>>
       \/ /\ baselines = <<>> /\ stream = "overflowed"
          /\ port' = Append(port, End)
          /\ stream' = "ended"
          /\ UNCHANGED <<baselines, queue>>
    /\ UNCHANGED <<coordinator, page, losses>>

\* The answer to any call of the page carries the current epoch.
Respond ==
    /\ page.state = "connected"
    /\ Len(SelectSeq(port, LAMBDA e : e.topic = "response")) < MaxResponses
    /\ port' = Append(port, [topic |-> "response", revision |-> 0, epoch |-> epoch])
    /\ UNCHANGED <<coordinator, stream, baselines, queue, page, losses>>

-----------------------------------------------------------------------------
\* deferWorkerUnitEvent: the newest units event of each epoch is kept.
Deferred(pg, e) ==
    IF \E d \in pg.deferred : d.epoch = e.epoch /\ d.revision >= e.revision
    THEN pg
    ELSE [pg EXCEPT !.deferred = {d \in @ : d.epoch # e.epoch} \cup {e}]

ShowUnits(pg, e) == [pg EXCEPT !.revision["units"] = e.revision, !.units = e.epoch]

\* A session.state of another epoch takes the units shown away and applies what
\* was deferred for it.
EnterEpoch(pg, e) ==
    LET entered == [pg EXCEPT !.epoch = e.epoch, !.units = -1, !.revision["units"] = -1,
                              !.deferred = {}]
        waiting == {d \in pg.deferred : d.epoch = e.epoch}
    IN  IF pg.epoch = e.epoch THEN pg
        ELSE IF waiting = {} THEN entered
        ELSE ShowUnits(entered, CHOOSE d \in waiting : TRUE)

\* applyTopicEvent
Applied(pg, e) ==
    IF e.topic = "units" /\ e.epoch # pg.epoch THEN Deferred(pg, e)
    ELSE IF e.revision <= pg.revision[e.topic] THEN pg
    ELSE IF e.topic = "units" THEN ShowUnits(pg, e)
    ELSE IF e.topic = "session"
         THEN [EnterEpoch(pg, e) EXCEPT !.revision["session"] = e.revision, !.session = e.epoch]
         ELSE [pg EXCEPT !.revision["storage"] = e.revision]

DisconnectedKeepingRevisions == [page EXCEPT !.state = "off"]  \* Mutant: the caches survive.

\* resetDisconnectedState: the epoch and the units stay on display, the revisions go.
Disconnected == [page EXCEPT !.state = "off", !.deferred = {}, !.session = -1,
                             !.revision = [t \in Topics |-> IF t = "units" THEN @[t] ELSE -1]]

Deliver ==
    /\ page.state = "connected" /\ port # <<>>
    /\ LET e == Head(port)
       IN  CASE e.topic = "end" -> page' = Disconnected /\ stream' = "none"
             [] e.topic = "response" -> page' = [page EXCEPT !.epoch = e.epoch] /\ UNCHANGED stream
             [] OTHER -> page' = Applied(page, e) /\ UNCHANGED stream
    /\ port' = Tail(port)
    /\ UNCHANGED <<coordinator, baselines, queue, losses>>

Disconnect ==
    /\ losses < MaxLosses
    /\ losses' = losses + 1
    /\ page' = Disconnected
    /\ stream' = "none"
    /\ port' = <<>> /\ baselines' = <<>> /\ queue' = <<>>

\* The runtime is lost, or a call of the page failed in transport.
LoseConnection ==
    /\ page.state = "connected"
    /\ Disconnect
    /\ UNCHANGED coordinator

\* The Worker ends and the next connection starts a new one: every revision
\* starts again, under an epoch never used before.
RestartWorker ==
    /\ epoch < MaxSessionEpoch
    /\ epoch' = epoch + 1
    /\ published' = [t \in Topics |-> [Event0(t) EXCEPT !.epoch = epoch + 1]]
    /\ Disconnect

-----------------------------------------------------------------------------
TopicsNext ==
    \/ \E t \in Topics : Publish(t)
    \/ RotateEpoch
    \/ SendHello \/ Subscribe \/ BuildBaselines \/ Yield \/ Respond \/ Deliver
    \/ LoseConnection \/ RestartWorker

TopicsSpec == TopicsInit /\ [][TopicsNext]_topicVars

\* The page reconnects on a timer, calls settle, the transport grants credit and
\* delivers.
FairTopicsSpec ==
    /\ TopicsSpec
    /\ WF_topicVars(SendHello) /\ WF_topicVars(Subscribe) /\ WF_topicVars(BuildBaselines)
    /\ WF_topicVars(Yield) /\ WF_topicVars(Deliver)

-----------------------------------------------------------------------------
TopicsTypeOK ==
    /\ epoch \in Epochs
    /\ published \in [Topics -> Event]
    /\ stream \in {"none", "opening", "live", "overflowed", "ended"}
    /\ baselines \in Seq(Event)
    /\ queue \in Seq(Event) /\ Len(queue) <= QueueLimit
    /\ port \in Seq(Event \cup Response \cup {End})
    /\ page \in [state : {"off", "connected"}, epoch : Epochs, units : -1..MaxSessionEpoch,
                  session : -1..MaxSessionEpoch, revision : [Topics -> -1..MaxRevision],
                  deferred : SUBSET Event]
    /\ losses \in 0..MaxLosses

\* Does an event of this topic and revision wait to reach the page?
InTransit(topic, revision) ==
    \E e \in ToSet(port \o baselines \o queue) : e.topic = topic /\ e.revision = revision

\* While its stream is live, the page shows the last publication of a topic or
\* will receive it: neither the baseline, nor coalescing, nor a full queue, nor a
\* Worker that counts from the start again loses it.
NoLostUpdate ==
    (stream = "live" /\ page.state = "connected") =>
        \A t \in {"session", "storage"} :
            \/ page.revision[t] = published[t].revision
            \/ InTransit(t, published[t].revision)

\* Once publications stop, the page shows the last one of each topic for good,
\* through overflows, lost connections and restarts of the Worker.
CatchesUp ==
    <>[](/\ page.state = "connected"
         /\ \A t \in {"session", "storage"} : page.revision[t] = published[t].revision)

\* "Keep the units of a future epoch until session.state confirms it": once
\* session.state brought the page's epoch, no units event of that epoch waits.
\* The code does not keep this: README, section 3.
DeferredApplied == page.session = page.epoch => \A d \in page.deferred : d.epoch # page.epoch
=============================================================================
