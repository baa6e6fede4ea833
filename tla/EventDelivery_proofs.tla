------------------------ MODULE EventDelivery_proofs ------------------------
(***************************************************************************)
(* Theorems about EventDelivery, for any number of events, replicas,       *)
(* services and targets and any number of faults and outages: the path     *)
(* never has an effect twice, a processed inbox row tells the truth, what  *)
(* is queued stays until it is in the inbox, and, until a broker is lost   *)
(* and if every queue is declared before, nothing that is published is     *)
(* lost.  The last section is about what ends for good: a handler, and the *)
(* connection of a publisher.                                              *)
(***************************************************************************)
EXTENDS EventDelivery, TLAPS

\* The delivery at work is one the broker still holds; a dead consumer has
\* none at work.
HeldByBroker ==
  \A v \in Services :
    /\ process[v] = "connected" /\ work[v].event # 0 => queue[v] # <<>>
    /\ process[v] = "down" => work[v].event = 0

\* The event at work is in the inbox and not processed yet.  While the service still
\* asks for recipients nothing has happened; the effects the event has had are exactly
\* those of its recipients that are no longer to do.
HandlerOK(v, e) ==
  /\ e \in inbox[v] /\ e \notin processed[v]
  /\ work[v].ask # {} =>
       /\ e \notin degraded[v]
       /\ work[v].ask = Recipients[v][e] \cap ByRole
       /\ work[v].todo = Recipients[v][e] \ ByRole
  /\ work[v].todo \subseteq Reachable(v, e)
  /\ \A t \in Targets[v] :
       effects[v][e][t] = IF t \in Reachable(v, e) \ (work[v].ask \cup work[v].todo)
                          THEN 1 ELSE 0

WorkOK ==
  \A v \in Services :
    /\ work[v].event = 0 => work[v].ask = {} /\ work[v].todo = {}
    /\ work[v].event # 0 => HandlerOK(v, work[v].event)

\* An event that is not in the inbox has had no effect and no look-up.
InboxFirst ==
  \A v \in Services : \A e \in Events \ inbox[v] :
    /\ e \notin degraded[v]
    /\ \A t \in Targets[v] : effects[v][e][t] = 0

IInv ==
  /\ TypeOK
  /\ HeldByBroker
  /\ WorkOK
  /\ InboxFirst
  /\ AtMostOnce
  /\ ProcessedMeansDone

-----------------------------------------------------------------------------
\* Putting the head of a queue back elsewhere keeps it a queue of events.
LEMMA InsertAtType ==
  ASSUME NEW S, NEW q \in Seq(S), q # <<>>, NEW i \in 1 .. Len(q)
  PROVE  InsertAt(Tail(q), i, Head(q)) \in Seq(S)
<1>1. Tail(q) \in Seq(S) /\ Head(q) \in S /\ Len(Tail(q)) = Len(q) - 1
  OBVIOUS
<1> DEFINE t == Tail(q)
           h == Head(q)
<1>2. t \in Seq(S) /\ h \in S /\ i \in 1 .. Len(t) + 1
  BY <1>1
<1> HIDE DEF t, h
<1>3. SubSeq(t, 1, i - 1) \in Seq(S) /\ SubSeq(t, i, Len(t)) \in Seq(S)
  BY <1>2
<1>4. <<h>> \in Seq(S)
  BY <1>2
<1>5. InsertAt(t, i, h) \in Seq(S)
  BY <1>3, <1>4 DEF InsertAt
<1> QED BY <1>5 DEF t, h

LEMMA InitIInv == Init => IInv
<1> SUFFICES ASSUME Init PROVE IInv
  OBVIOUS
<1>1. TypeOK
  BY DeliveryAssumption DEF Init, TypeOK, Events, NoWork
<1>2. HeldByBroker /\ WorkOK /\ InboxFirst /\ AtMostOnce /\ ProcessedMeansDone
  BY DEF Init, HeldByBroker, WorkOK, InboxFirst, AtMostOnce, ProcessedMeansDone, NoWork
<1> QED BY <1>1, <1>2 DEF IInv

\* A step that leaves the consumers' tables and work alone only has to keep
\* the types and the delivery at work queued.
LEMMA ElsewhereIInv ==
  ASSUME IInv, UNCHANGED consumerVars, TypeOK', HeldByBroker'
  PROVE  IInv'
<1>1. WorkOK' /\ InboxFirst' /\ AtMostOnce' /\ ProcessedMeansDone'
  BY DEF IInv, consumerVars, WorkOK, HandlerOK, Reachable, InboxFirst, AtMostOnce,
         ProcessedMeansDone
<1> QED BY <1>1 DEF IInv

LEMMA FaultType == TypeOK /\ Fault => faults' \in 0 .. MaxFaults /\ outages' = outages
  BY DeliveryAssumption DEF TypeOK, Fault

-----------------------------------------------------------------------------
(* The producer and the broker.                                             *)

LEMMA PublisherIInv ==
  ASSUME IInv, NEW p \in Publishers,
         \/ Publisher(p)
         \/ CrashPublisher(p)
         \/ \E e \in Events : MarkAsPublishedFails(p, e)
  PROVE  IInv'
<1>0. TypeOK /\ HeldByBroker /\ p \notin Services
  BY DeliveryAssumption DEF IInv
<1>1. CASE StartPublisher(p)
  <2>1. TypeOK'
    BY <1>0, <1>1 DEF StartPublisher, TypeOK, publisherVars, brokerVars, consumerVars, faultVars
  <2>2. HeldByBroker'
    BY <1>0, <1>1 DEF StartPublisher, TypeOK, HeldByBroker, brokerVars, consumerVars
  <2> QED BY <1>1, <2>1, <2>2, ElsewhereIInv DEF StartPublisher
<1>2. CASE FetchPendingEvents(p)
  <2>1. TypeOK'
    BY <1>0, <1>2 DEF FetchPendingEvents, Pending, TypeOK, brokerVars, consumerVars, faultVars
  <2>2. HeldByBroker'
    BY <1>0, <1>2 DEF FetchPendingEvents, HeldByBroker, brokerVars, consumerVars
  <2> QED BY <1>2, <2>1, <2>2, ElsewhereIInv DEF FetchPendingEvents
<1>3. CASE Route(p)
  <2>0. Head(wire[p]) \in Events /\ Tail(wire[p]) \in Seq(Events)
    BY <1>0, <1>3 DEF Route, TypeOK
  <2>1. TypeOK'
    BY <1>0, <1>3, <2>0 DEF Route, TypeOK, publisherVars, consumerVars, faultVars
  <2>2. HeldByBroker'
    <3> SUFFICES ASSUME NEW v \in Services,
                        process'[v] = "connected" /\ work'[v].event # 0
                 PROVE  queue'[v] # <<>>
      BY <1>0, <1>3 DEF Route, HeldByBroker, consumerVars
    <3>1. queue[v] # <<>> /\ queue[v] \in Seq(Events)
      BY <1>0, <1>3 DEF Route, HeldByBroker, TypeOK, consumerVars
    <3>2. queue'[v] = queue[v] \/ queue'[v] = Append(queue[v], Head(wire[p]))
      BY <1>3 DEF Route
    <3> QED BY <3>1, <3>2, <2>0
  <2> QED BY <1>3, <2>1, <2>2, ElsewhereIInv DEF Route
<1>4. ASSUME NEW e \in Events,
             Publish(p, e) \/ PublishFails(p, e) \/ MarkAsPublished(p, e)
      PROVE  IInv'
  <2>1. TypeOK'
    <3>1. CASE Publish(p, e)
      BY <1>0, <3>1 DEF Publish, TypeOK, brokerVars, consumerVars, faultVars
    <3>2. CASE PublishFails(p, e)
      BY <1>0, <3>2 DEF PublishFails, SkipEvent, TypeOK, brokerVars, consumerVars, faultVars
    <3>3. CASE MarkAsPublished(p, e)
      BY <1>0, <3>3 DEF MarkAsPublished, TypeOK, brokerVars, consumerVars, faultVars
    <3> QED BY <1>4, <3>1, <3>2, <3>3
  <2>2. UNCHANGED <<process, brokerVars, consumerVars>>
    BY <1>4 DEF Publish, PublishFails, SkipEvent, MarkAsPublished
  <2>3. HeldByBroker'
    BY <1>0, <2>2 DEF HeldByBroker, brokerVars, consumerVars
  <2> QED BY <2>1, <2>2, <2>3, ElsewhereIInv
<1>5. CASE CrashPublisher(p)
  <2>1. TypeOK'
    BY <1>0, <1>5, FaultType DEF CrashPublisher, TypeOK, brokerVars, consumerVars
  <2>2. HeldByBroker'
    BY <1>0, <1>5 DEF CrashPublisher, TypeOK, HeldByBroker, brokerVars, consumerVars
  <2> QED BY <1>5, <2>1, <2>2, ElsewhereIInv DEF CrashPublisher
<1>6. ASSUME NEW e \in Events, MarkAsPublishedFails(p, e)
      PROVE  IInv'
  <2>1. TypeOK'
    BY <1>0, <1>6, FaultType
    DEF MarkAsPublishedFails, SkipEvent, TypeOK, brokerVars, consumerVars
  <2>2. HeldByBroker'
    BY <1>0, <1>6 DEF MarkAsPublishedFails, SkipEvent, HeldByBroker, brokerVars, consumerVars
  <2> QED BY <1>6, <2>1, <2>2, ElsewhereIInv DEF MarkAsPublishedFails, SkipEvent
<1> QED BY <1>1, <1>2, <1>3, <1>4, <1>5, <1>6 DEF Publisher

LEMMA BrokerIInv ==
  ASSUME IInv,
         BrokerGoesDown \/ BrokerComesUp \/ \E e \in Events : CommitEvent(e)
  PROVE  IInv'
<1>0. TypeOK /\ HeldByBroker
  BY DEF IInv
<1>1. CASE BrokerGoesDown
  <2>a. outages' \in 0 .. MaxOutages
    BY <1>0, <1>1, DeliveryAssumption DEF BrokerGoesDown, TypeOK
  <2>b. process' \in [Publishers \cup Services -> {"down", "connected", "cut"}]
    BY <1>0, <1>1 DEF BrokerGoesDown, TypeOK
  <2>c. wire' \in [Publishers -> Seq(Events)] /\ brokerUp' \in BOOLEAN
    <3>1. <<>> \in Seq(Events)
      OBVIOUS
    <3>2. wire' = [x \in Publishers |-> <<>>]
      BY <1>1 DEF BrokerGoesDown
    <3>3. brokerUp' = FALSE
      BY <1>1 DEF BrokerGoesDown
    <3>4. wire' \in [Publishers -> Seq(Events)]
      BY <3>1, <3>2
    <3> QED BY <3>3, <3>4
  <2>1. TypeOK'
    BY <1>0, <1>1, <2>a, <2>b, <2>c DEF BrokerGoesDown, TypeOK, publisherVars, consumerVars
  <2>2. HeldByBroker'
    BY <1>0, <1>1 DEF BrokerGoesDown, TypeOK, HeldByBroker, consumerVars
  <2> QED BY <1>1, <2>1, <2>2, ElsewhereIInv DEF BrokerGoesDown
<1>2. CASE BrokerComesUp
  <2>1. TypeOK' /\ HeldByBroker'
    BY <1>0, <1>2 DEF BrokerComesUp, TypeOK, HeldByBroker, publisherVars, consumerVars, faultVars
  <2> QED BY <1>2, <2>1, ElsewhereIInv DEF BrokerComesUp
<1>3. ASSUME NEW e \in Events, CommitEvent(e)
      PROVE  IInv'
  <2>1. TypeOK'
    BY <1>0, <1>3 DEF CommitEvent, TypeOK, publisherVars, brokerVars, consumerVars, faultVars
  <2>2. HeldByBroker'
    BY <1>0, <1>3 DEF CommitEvent, HeldByBroker, brokerVars, consumerVars
  <2> QED BY <1>3, <2>1, <2>2, ElsewhereIInv DEF CommitEvent
<1> QED BY <1>1, <1>2, <1>3

-----------------------------------------------------------------------------
(* The consumers.                                                           *)

\* What a step of v does to the queues: it only touches the queue of v, and
\* nothing at all over a closed connection.
LEMMA ForgetType ==
  ASSUME NEW S, queue \in [Services -> Seq(S)], NEW v \in Services, Forget(v),
         process[v] = "connected" => queue[v] # <<>>
  PROVE  /\ queue' \in [Services -> Seq(S)]
         /\ \A w \in Services \ {v} : queue'[w] = queue[w]
<1>1. CASE process[v] = "connected"
  <2>1. Tail(queue[v]) \in Seq(S)
    BY <1>1
  <2> QED BY <1>1, <2>1 DEF Forget
<1>2. CASE process[v] # "connected"
  BY <1>2 DEF Forget
<1> QED BY <1>1, <1>2

LEMMA RequeueType ==
  ASSUME NEW S, queue \in [Services -> Seq(S)], NEW v \in Services, Requeue(v)
  PROVE  /\ queue' \in [Services -> Seq(S)]
         /\ \A w \in Services \ {v} : queue'[w] = queue[w]
<1>1. CASE process[v] = "connected"
  <2>1. PICK i \in 1 .. Len(queue[v]) :
          queue' = [queue EXCEPT ![v] = InsertAt(Tail(@), i, Head(@))]
    BY <1>1 DEF Requeue
  <2>2. queue[v] \in Seq(S) /\ queue[v] # <<>>
    OBVIOUS
  <2>3. InsertAt(Tail(queue[v]), i, Head(queue[v])) \in Seq(S)
    BY <2>2, InsertAtType
  <2> QED BY <2>1, <2>3
<1>2. CASE process[v] # "connected"
  BY <1>2 DEF Requeue
<1> QED BY <1>1, <1>2

\* A step of v that leaves it with no delivery at work, whatever becomes of
\* the queue of v, keeps the other consumers' deliveries queued.
LEMMA HeldAfterwards ==
  ASSUME HeldByBroker, NEW v \in Services,
         work'[v].event = 0,
         \A w \in Services \ {v} :
           /\ process'[w] = process[w]
           /\ work'[w] = work[w]
           /\ queue'[w] = queue[w]
  PROVE  HeldByBroker'
BY DEF HeldByBroker

\* A delivery is let go, its effects as they are and its inbox row marked only
\* if nothing was left to do.
LEMMA ReleaseIInv ==
  ASSUME IInv, NEW v \in Services, TypeOK', HeldByBroker',
         work' = [work EXCEPT ![v] = NoWork],
         UNCHANGED <<inbox, degraded, effects>>,
         \/ UNCHANGED processed
         \/ /\ work[v].event # 0
            /\ work[v].ask = {} /\ work[v].todo = {}
            /\ processed' = [processed EXCEPT ![v] = @ \cup {work[v].event}]
  PROVE  IInv'
<1>0. TypeOK
  BY DEF IInv
<1>1. WorkOK'
  <2>1. /\ work'[v].event = 0 /\ work'[v].ask = {} /\ work'[v].todo = {}
        /\ \A w \in Services \ {v} : work'[w] = work[w] /\ processed'[w] = processed[w]
    BY <1>0 DEF NoWork, TypeOK
  <2> QED BY <2>1 DEF IInv, WorkOK, HandlerOK, Reachable
<1>2. InboxFirst' /\ AtMostOnce'
  BY DEF IInv, InboxFirst, AtMostOnce
<1>3. ProcessedMeansDone'
  <2>1. CASE UNCHANGED processed
    BY <2>1 DEF IInv, ProcessedMeansDone, Reachable
  <2>2. CASE /\ work[v].event # 0
             /\ work[v].ask = {} /\ work[v].todo = {}
             /\ processed' = [processed EXCEPT ![v] = @ \cup {work[v].event}]
    <3>1. work[v].event \in inbox[v]
          /\ \A t \in Targets[v] : effects[v][work[v].event][t]
                                   = IF t \in Reachable(v, work[v].event) THEN 1 ELSE 0
      BY <2>2 DEF IInv, WorkOK, HandlerOK
    <3> QED BY <1>0, <2>2, <3>1 DEF IInv, ProcessedMeansDone, TypeOK, Reachable
  <2> QED BY <2>1, <2>2
<1> QED BY <1>1, <1>2, <1>3 DEF IInv

LEMMA ReceiveIInv ==
  ASSUME IInv, NEW v \in Services,
         \/ StartConsumer(v)
         \/ SaveInboxEvent(v)
         \/ IgnoreDuplicate(v)
         \/ SaveInboxEventFails(v)
  PROVE  IInv'
<1>0. TypeOK /\ HeldByBroker /\ v \notin Publishers
  BY DeliveryAssumption DEF IInv
<1>1. CASE StartConsumer(v)
  <2>1. TypeOK'
    BY <1>0, <1>1 DEF StartConsumer, TypeOK, publisherVars, consumerVars, faultVars
  <2>2. HeldByBroker'
    BY <1>0, <1>1 DEF StartConsumer, TypeOK, HeldByBroker, consumerVars
  <2> QED BY <1>1, <2>1, <2>2, ElsewhereIInv DEF StartConsumer
<1>2. CASE SaveInboxEvent(v)
  <2> DEFINE e == Head(queue[v])
  <2>1. e \in Events /\ e # 0 /\ e \notin inbox[v] /\ queue[v] # <<>>
    <3>1. queue[v] \in Seq(Events) /\ queue[v] # <<>> /\ e \notin inbox[v]
      BY <1>0, <1>2 DEF SaveInboxEvent, Receives, TypeOK
    <3>2. e \in Events
      BY <3>1
    <3>3. e # 0
      BY <3>2 DEF Events
    <3> QED BY <3>1, <3>2, <3>3
  <2>2. /\ inbox' = [inbox EXCEPT ![v] = @ \cup {e}]
        /\ work' = [work EXCEPT ![v] = Begin(v, e)]
        /\ UNCHANGED <<row, process, batch, sent, wire, brokerUp, declared, queue,
                      processed, degraded, effects, faults, outages>>
        /\ e' = e
    BY <1>2 DEF SaveInboxEvent, publisherVars, brokerVars, faultVars
  <2> HIDE DEF e
  <2>3. /\ DOMAIN work' = Services
        /\ \A w \in Services :
             work'[w] \in [event : Events \cup {0}, ask : SUBSET Targets[w],
                            todo : SUBSET Targets[w]]
        /\ \A w \in Services \ {v} : work'[w] = work[w] /\ inbox'[w] = inbox[w]
        /\ work'[v] = Begin(v, e)
        /\ inbox'[v] = inbox[v] \cup {e}
    <3>1. Recipients[v][e] \subseteq Targets[v]
      BY <2>1, DeliveryAssumption DEF Events
    <3>2. Begin(v, e) \in [event : Events \cup {0}, ask : SUBSET Targets[v],
                           todo : SUBSET Targets[v]]
      BY <2>1, <3>1 DEF Begin
    <3> QED BY <1>0, <2>1, <2>2, <3>2 DEF TypeOK
  <2>4. TypeOK'
    <3>1. inbox' \in [Services -> SUBSET Events]
      BY <1>0, <2>1, <2>2 DEF TypeOK
    <3> QED BY <1>0, <2>2, <2>3, <3>1 DEF TypeOK
  <2>5. process[v] = "connected"
    BY <1>2 DEF SaveInboxEvent, Receives
  <2>6. HeldByBroker'
    BY <1>0, <2>1, <2>2, <2>3, <2>5 DEF HeldByBroker
  <2>7. WorkOK'
    <3>1. e \notin degraded[v] /\ \A t \in Targets[v] : effects[v][e][t] = 0
      BY <2>1 DEF IInv, InboxFirst
    <3>2. e \notin processed[v]
      BY <2>1 DEF IInv, ProcessedMeansDone
    <3>3. HandlerOK(v, e)'
      BY <2>2, <2>3, <3>1, <3>2 DEF HandlerOK, Reachable, Begin
    <3>4. ASSUME NEW w \in Services \ {v}, work[w].event # 0
          PROVE  HandlerOK(w, work[w].event)'
      BY <2>2, <2>3, <3>4 DEF IInv, WorkOK, HandlerOK, Reachable
    <3>5. work'[v].event = e /\ e # 0
      BY <2>1, <2>3 DEF Begin
    <3> QED BY <2>2, <2>3, <3>3, <3>4, <3>5 DEF IInv, WorkOK
  <2>8. InboxFirst'
    BY <2>2, <2>3 DEF IInv, InboxFirst
  <2>9. AtMostOnce' /\ ProcessedMeansDone'
    BY <2>2, <2>3 DEF IInv, AtMostOnce, ProcessedMeansDone, Reachable
  <2> QED BY <2>4, <2>6, <2>7, <2>8, <2>9 DEF IInv
<1>3. CASE IgnoreDuplicate(v)
  <2>1. queue[v] # <<>> /\ Forget(v) /\ UNCHANGED <<process, work>>
    BY <1>3 DEF IgnoreDuplicate, Receives, consumerVars
  <2>2. TypeOK'
    BY <1>0, <1>3, <2>1, ForgetType
    DEF IgnoreDuplicate, TypeOK, publisherVars, consumerVars, faultVars
  <2>3. work'[v].event = 0
    BY <1>3, <2>1 DEF IgnoreDuplicate, Receives, NoWork
  <2>4. HeldByBroker'
    BY <1>0, <2>1, <2>3, ForgetType, HeldAfterwards DEF TypeOK
  <2> QED BY <1>3, <2>2, <2>4, ElsewhereIInv DEF IgnoreDuplicate
<1>4. CASE SaveInboxEventFails(v)
  <2>1. queue[v] # <<>> /\ Requeue(v) /\ UNCHANGED <<process, work>>
    BY <1>4 DEF SaveInboxEventFails, Receives, consumerVars
  <2>2. TypeOK'
    BY <1>0, <1>4, <2>1, RequeueType, FaultType
    DEF SaveInboxEventFails, TypeOK, publisherVars, consumerVars
  <2>3. work'[v].event = 0
    BY <1>4, <2>1 DEF SaveInboxEventFails, Receives, NoWork
  <2>4. HeldByBroker'
    BY <1>0, <2>1, <2>3, RequeueType, HeldAfterwards DEF TypeOK
  <2> QED BY <1>4, <2>2, <2>4, ElsewhereIInv DEF SaveInboxEventFails
<1> QED BY <1>1, <1>2, <1>3, <1>4

LEMMA HandleIInv ==
  ASSUME IInv, NEW v \in Services,
         \/ ApplyFails(v)
         \/ MarkInboxEventProcessed(v)
         \/ MarkInboxEventProcessedFails(v)
         \/ CrashConsumer(v)
  PROVE  IInv'
<1>0. TypeOK /\ HeldByBroker /\ v \notin Publishers
  BY DeliveryAssumption DEF IInv
<1> DEFINE released == work' = [work EXCEPT ![v] = NoWork]
<1>1. released => /\ work'[v].event = 0
                  /\ DOMAIN work' = Services
                  /\ \A w \in Services :
                       work'[w] \in [event : Events \cup {0}, ask : SUBSET Targets[w],
                            todo : SUBSET Targets[w]]
                  /\ \A w \in Services \ {v} : work'[w] = work[w]
  BY <1>0 DEF TypeOK, NoWork
<1>2. CASE ApplyFails(v)
  <2>1. process[v] = "connected" => queue[v] # <<>>
    BY <1>0, <1>2 DEF ApplyFails, HeldByBroker
  <2>2. Forget(v) /\ released /\ UNCHANGED process
    BY <1>2 DEF ApplyFails
  <2>3. TypeOK'
    BY <1>0, <1>1, <1>2, <2>1, <2>2, ForgetType, FaultType
    DEF ApplyFails, TypeOK, publisherVars
  <2>4. HeldByBroker'
    <3>1. \A w \in Services \ {v} : queue'[w] = queue[w]
      BY <1>0, <2>1, <2>2, ForgetType DEF TypeOK
    <3> QED BY <1>0, <1>1, <2>2, <3>1, HeldAfterwards
  <2> QED BY <1>2, <2>3, <2>4, ReleaseIInv DEF ApplyFails
<1>3. CASE MarkInboxEventProcessed(v)
  <2>1. process[v] = "connected" => queue[v] # <<>>
    BY <1>0, <1>3 DEF MarkInboxEventProcessed, HeldByBroker
  <2>2. Forget(v) /\ released /\ UNCHANGED process
    BY <1>3 DEF MarkInboxEventProcessed
  <2>3. processed' \in [Services -> SUBSET Events]
    BY <1>0, <1>3 DEF MarkInboxEventProcessed, TypeOK
  <2>4. TypeOK'
    BY <1>0, <1>1, <1>3, <2>1, <2>2, <2>3, ForgetType
    DEF MarkInboxEventProcessed, TypeOK, publisherVars, faultVars
  <2>5. HeldByBroker'
    <3>1. \A w \in Services \ {v} : queue'[w] = queue[w]
      BY <1>0, <2>1, <2>2, ForgetType DEF TypeOK
    <3> QED BY <1>0, <1>1, <2>2, <3>1, HeldAfterwards
  <2> QED BY <1>3, <2>4, <2>5, ReleaseIInv DEF MarkInboxEventProcessed
<1>4. CASE MarkInboxEventProcessedFails(v)
  <2>1. Requeue(v) /\ released /\ UNCHANGED process
    BY <1>4 DEF MarkInboxEventProcessedFails
  <2>2. TypeOK'
    BY <1>0, <1>1, <1>4, <2>1, RequeueType, FaultType
    DEF MarkInboxEventProcessedFails, TypeOK, publisherVars
  <2>3. HeldByBroker'
    BY <1>0, <1>1, <2>1, RequeueType, HeldAfterwards DEF TypeOK
  <2> QED BY <1>4, <2>2, <2>3, ReleaseIInv DEF MarkInboxEventProcessedFails
<1>5. CASE CrashConsumer(v)
  <2>1. TypeOK'
    BY <1>0, <1>1, <1>5, FaultType DEF CrashConsumer, TypeOK, publisherVars, brokerVars
  <2>2. HeldByBroker'
    BY <1>0, <1>1, <1>5, HeldAfterwards DEF CrashConsumer, TypeOK, brokerVars
  <2> QED BY <1>5, <2>1, <2>2, ReleaseIInv DEF CrashConsumer
<1> QED BY <1>2, <1>3, <1>4, <1>5

LEMMA ApplyIInv ==
  ASSUME IInv, NEW v \in Services, NEW t \in Targets[v], Apply(v, t)
  PROVE  IInv'
<1> DEFINE e == work[v].event
<1>0. TypeOK /\ HeldByBroker /\ WorkOK
  BY DEF IInv
<1>1. /\ e \in Events /\ e # 0 /\ e \in inbox[v] /\ e \notin processed[v]
      /\ t \in work[v].todo /\ work[v].ask = {} /\ HandlerOK(v, e)
  BY <1>0 DEF Apply, WorkOK, HandlerOK, TypeOK
<1>2. effects[v] \in [Events -> [Targets[v] -> Nat]] /\ effects[v][e][t] = 0
  BY <1>0, <1>1 DEF HandlerOK, TypeOK
<1>3. /\ effects' = [effects EXCEPT ![v][e][t] = @ + 1]
      /\ work' = [work EXCEPT ![v].todo = @ \ {t}]
      /\ UNCHANGED <<row, process, batch, sent, wire, brokerUp, declared, queue,
                    inbox, processed, degraded, faults, outages>>
  BY DEF Apply, publisherVars, brokerVars, faultVars
<1>4. /\ DOMAIN work' = Services
      /\ \A w \in Services \ {v} : work'[w] = work[w] /\ effects'[w] = effects[w]
      /\ work'[v].event = e /\ work'[v].todo = work[v].todo \ {t} /\ work'[v].ask = {}
      /\ \A w \in Services :
           work'[w] \in [event : Events \cup {0}, ask : SUBSET Targets[w],
                            todo : SUBSET Targets[w]]
      /\ e' = e
  BY <1>0, <1>1, <1>3 DEF TypeOK
<1> HIDE DEF e
<1>5. /\ DOMAIN effects' = Services
      /\ effects'[v] = [effects[v] EXCEPT ![e][t] = 1]
  BY <1>0, <1>1, <1>2, <1>3 DEF TypeOK
<1>6. /\ effects'[v] \in [Events -> [Targets[v] -> Nat]]
      /\ effects'[v][e][t] = 1
      /\ \A u \in Targets[v] \ {t} : effects'[v][e][u] = effects[v][e][u]
      /\ \A f \in Events \ {e} : effects'[v][f] = effects[v][f]
  BY <1>1, <1>2, <1>5
<1>7. TypeOK'
  BY <1>0, <1>3, <1>4, <1>5, <1>6 DEF TypeOK
<1>8. HeldByBroker'
  BY <1>0, <1>3, <1>4 DEF HeldByBroker, e
<1>9. WorkOK'
  <2>1. t \in Reachable(v, e)
    BY <1>1 DEF HandlerOK
  <2>2. HandlerOK(v, e)'
    BY <1>1, <1>3, <1>4, <1>6, <2>1 DEF HandlerOK, Reachable
  <2>3. ASSUME NEW w \in Services \ {v}, work[w].event # 0
        PROVE  HandlerOK(w, work[w].event)'
    BY <1>0, <1>3, <1>4, <2>3 DEF WorkOK, HandlerOK, Reachable
  <2> QED BY <1>0, <1>1, <1>4, <2>2, <2>3 DEF WorkOK
<1>10. InboxFirst'
  BY <1>1, <1>3, <1>4, <1>6 DEF IInv, InboxFirst
<1>11. AtMostOnce'
  <2> SUFFICES ASSUME NEW w \in Services, NEW f \in Events, NEW u \in Targets[w]
               PROVE  effects'[w][f][u] <= 1
    BY DEF AtMostOnce
  <2>1. effects[w][f][u] <= 1
    BY DEF IInv, AtMostOnce
  <2>2. effects'[w][f][u] = effects[w][f][u] \/ effects'[w][f][u] = 1
    BY <1>4, <1>6
  <2> QED BY <2>1, <2>2
<1>12. ProcessedMeansDone'
  <2> SUFFICES ASSUME NEW w \in Services, NEW f \in processed[w]
               PROVE  effects'[w][f] = effects[w][f]
    BY <1>3 DEF IInv, ProcessedMeansDone, Reachable
  <2>1. f \in Events /\ (w = v => f # e)
    BY <1>0, <1>1 DEF TypeOK
  <2> QED BY <1>4, <1>6, <2>1
<1> QED BY <1>7, <1>8, <1>9, <1>10, <1>11, <1>12 DEF IInv

\* The look-up of v ends with its answer in the effects to go, or without.
LEMMA ResolvedWork ==
  ASSUME TypeOK, NEW v \in Services,
         ResolveRecipients(v) \/ ListUserIDsByRoleFails(v)
  PROVE  /\ DOMAIN work' = Services
         /\ \A w \in Services \ {v} : work'[w] = work[w]
         /\ work'[v] \in [event : Events \cup {0}, ask : SUBSET Targets[v],
                          todo : SUBSET Targets[v]]
         /\ work'[v].event = work[v].event /\ work'[v].ask = {}
         /\ \/ work'[v].todo = work[v].todo \cup work[v].ask /\ degraded' = degraded
            \/ /\ work'[v].todo = work[v].todo
               /\ degraded' = [degraded EXCEPT ![v] = @ \cup {work[v].event}]
<1>1. /\ DOMAIN work = Services
      /\ work[v] \in [event : Events \cup {0}, ask : SUBSET Targets[v],
                      todo : SUBSET Targets[v]]
  BY DEF TypeOK
<1>2. CASE ResolveRecipients(v)
  <2> DEFINE u == [work[v] EXCEPT !.todo = @ \cup work[v].ask, !.ask = {}]
  <2>1. work' = [work EXCEPT ![v] = u] /\ degraded' = degraded
    BY <1>1, <1>2 DEF ResolveRecipients
  <2>2. /\ u \in [event : Events \cup {0}, ask : SUBSET Targets[v], todo : SUBSET Targets[v]]
        /\ u.event = work[v].event /\ u.ask = {} /\ u.todo = work[v].todo \cup work[v].ask
    BY <1>1
  <2> HIDE DEF u
  <2> QED BY <1>1, <2>1, <2>2
<1>3. CASE ListUserIDsByRoleFails(v)
  <2> DEFINE u == [work[v] EXCEPT !.ask = {}]
  <2>1. /\ work' = [work EXCEPT ![v] = u]
        /\ degraded' = [degraded EXCEPT ![v] = @ \cup {work[v].event}]
    BY <1>1, <1>3 DEF ListUserIDsByRoleFails
  <2>2. /\ u \in [event : Events \cup {0}, ask : SUBSET Targets[v], todo : SUBSET Targets[v]]
        /\ u.event = work[v].event /\ u.ask = {} /\ u.todo = work[v].todo
    BY <1>1
  <2> HIDE DEF u
  <2> QED BY <1>1, <2>1, <2>2
<1> QED BY <1>2, <1>3

\* auth-service answers or does not: nothing has happened for the event yet, and whoever
\* is left out from now on is out of reach.
LEMMA ResolveIInv ==
  ASSUME IInv, NEW v \in Services,
         ResolveRecipients(v) \/ ListUserIDsByRoleFails(v)
  PROVE  IInv'
<1> DEFINE e == work[v].event
<1>0. TypeOK /\ HeldByBroker /\ WorkOK
  BY DEF IInv
<1>1. work[v].ask # {}
  BY DEF ResolveRecipients, ListUserIDsByRoleFails
<1>2. /\ e \in Events /\ e # 0 /\ e \in inbox[v] /\ e \notin processed[v]
      /\ HandlerOK(v, e)
  BY <1>0, <1>1 DEF WorkOK, HandlerOK, TypeOK
<1>3. UNCHANGED <<row, process, batch, sent, wire, brokerUp, declared, queue, inbox,
                  processed, effects>>
  BY DEF ResolveRecipients, ListUserIDsByRoleFails, publisherVars, brokerVars
<1>4. /\ DOMAIN work' = Services
      /\ \A w \in Services \ {v} : work'[w] = work[w] /\ degraded'[w] = degraded[w]
      /\ work'[v].event = e /\ work'[v].ask = {} /\ e' = e
      /\ \A w \in Services :
           work'[w] \in [event : Events \cup {0}, ask : SUBSET Targets[w],
                         todo : SUBSET Targets[w]]
      /\ degraded' \in [Services -> SUBSET Events]
  <2>1. degraded \in [Services -> SUBSET Events]
    BY <1>0 DEF TypeOK
  <2>2. /\ degraded' \in [Services -> SUBSET Events]
        /\ \A w \in Services \ {v} : degraded'[w] = degraded[w]
    BY <1>0, <1>2, <2>1, ResolvedWork
  <2>3. \A w \in Services \ {v} :
          work'[w] \in [event : Events \cup {0}, ask : SUBSET Targets[w],
                        todo : SUBSET Targets[w]]
    BY <1>0, ResolvedWork DEF TypeOK
  <2> QED BY <1>0, <2>2, <2>3, ResolvedWork
<1>5. TypeOK'
  <2>1. faults' \in 0 .. MaxFaults /\ outages' = outages
    BY <1>0, FaultType DEF ResolveRecipients, ListUserIDsByRoleFails, faultVars, TypeOK
  <2> QED BY <1>0, <1>3, <1>4, <2>1 DEF TypeOK
<1>6. HeldByBroker'
  BY <1>0, <1>3, <1>4 DEF HeldByBroker
<1>7. HandlerOK(v, e)'
  <2> HIDE DEF e
  <2>1. CASE work'[v].todo = work[v].todo \cup work[v].ask /\ degraded' = degraded
    BY <1>1, <1>2, <1>3, <1>4, <2>1 DEF HandlerOK, Reachable
  <2>2. CASE /\ work'[v].todo = work[v].todo
             /\ degraded' = [degraded EXCEPT ![v] = @ \cup {e}]
    <3>1. degraded'[v] = degraded[v] \cup {e}
      BY <1>0, <2>2 DEF TypeOK
    <3> QED BY <1>1, <1>2, <1>3, <1>4, <2>2, <3>1 DEF HandlerOK, Reachable
  <2> QED BY <1>0, <2>1, <2>2, ResolvedWork DEF e
<1>8. WorkOK'
  <2> HIDE DEF e
  <2>1. ASSUME NEW w \in Services \ {v}, work[w].event # 0
        PROVE  HandlerOK(w, work[w].event)'
    BY <1>0, <1>3, <1>4, <2>1 DEF WorkOK, HandlerOK, Reachable
  <2> QED BY <1>0, <1>2, <1>4, <1>7, <2>1 DEF WorkOK
<1>9. \A w \in Services : \A f \in Events :
        f \in degraded'[w] => f \in degraded[w] \/ (w = v /\ f = e)
  <2>1. degraded' = degraded \/ degraded' = [degraded EXCEPT ![v] = @ \cup {e}]
    BY <1>0, ResolvedWork
  <2> QED BY <1>0, <2>1 DEF TypeOK
<1>10. InboxFirst'
  BY <1>2, <1>3, <1>9 DEF IInv, InboxFirst
<1>11. AtMostOnce'
  BY <1>3 DEF IInv, AtMostOnce
<1>12. ProcessedMeansDone'
  <2> SUFFICES ASSUME NEW w \in Services, NEW f \in processed[w]
               PROVE  f \in degraded'[w] <=> f \in degraded[w]
    BY <1>3 DEF IInv, ProcessedMeansDone, Reachable
  <2>1. w = v => f # e
    BY <1>2
  <2>2. degraded'[v] = degraded[v] \/ degraded'[v] = degraded[v] \cup {e}
    <3>1. degraded \in [Services -> SUBSET Events]
      BY <1>0 DEF TypeOK
    <3>2. degraded' = degraded \/ degraded' = [degraded EXCEPT ![v] = @ \cup {e}]
      BY <1>0, ResolvedWork
    <3> QED BY <3>1, <3>2
  <2> QED BY <1>4, <2>1, <2>2
<1> QED BY <1>5, <1>6, <1>8, <1>10, <1>11, <1>12 DEF IInv

LEMMA NextIInv == IInv /\ [Next]_vars => IInv'
<1> SUFFICES ASSUME IInv, [Next]_vars PROVE IInv'
  OBVIOUS
<1>1. ASSUME NEW e \in Events, CommitEvent(e) PROVE IInv'
  BY <1>1, BrokerIInv
<1>2. ASSUME NEW p \in Publishers, Publisher(p) PROVE IInv'
  BY <1>2, PublisherIInv
<1>3. ASSUME NEW v \in Services, Consumer(v) PROVE IInv'
  BY <1>3, ReceiveIInv, ResolveIInv, ApplyIInv, HandleIInv DEF Consumer
<1>4. CASE BrokerComesUp
  BY <1>4, BrokerIInv
<1>5. CASE Misfortune
  <2>1. CASE BrokerGoesDown
    BY <2>1, BrokerIInv
  <2>2. ASSUME NEW p \in Publishers,
               CrashPublisher(p) \/ \E e \in Events : MarkAsPublishedFails(p, e)
        PROVE  IInv'
    BY <2>2, PublisherIInv
  <2>3. ASSUME NEW v \in Services,
               \/ CrashConsumer(v)
               \/ SaveInboxEventFails(v)
               \/ ListUserIDsByRoleFails(v)
               \/ ApplyFails(v)
               \/ MarkInboxEventProcessedFails(v)
        PROVE  IInv'
    BY <2>3, ReceiveIInv, ResolveIInv, HandleIInv
  <2> QED BY <1>5, <2>1, <2>2, <2>3 DEF Misfortune
<1>6. CASE UNCHANGED vars
  <2>1. TypeOK' /\ HeldByBroker' /\ UNCHANGED consumerVars
    BY <1>6 DEF vars, IInv, TypeOK, HeldByBroker, consumerVars
  <2> QED BY <2>1, ElsewhereIInv
<1> QED BY <1>1, <1>2, <1>3, <1>4, <1>5, <1>6 DEF Next

LEMMA IInvHolds == Spec => []IInv
BY InitIInv, NextIInv, PTL DEF Spec

-----------------------------------------------------------------------------
\* Every variable of the path keeps its type in every reachable state.
THEOREM DeliveryTypeCorrect == Spec => []TypeOK
<1>1. IInv => TypeOK
  BY DEF IInv
<1> QED BY IInvHolds, <1>1, PTL

\* handleDelivery's inbox check is enough: however often an event is
\* published, redelivered or requeued, no effect of it happens twice.
THEOREM NeverTwice == Spec => []AtMostOnce
<1>1. IInv => AtMostOnce
  BY DEF IInv
<1> QED BY IInvHolds, <1>1, PTL

\* MarkInboxEventProcessed is only reached with every effect in place that the handler
\* still owes: whoever has no notification of a processed event belongs to the role
\* whose look-up failed.
THEOREM ProcessedTellsTheTruth == Spec => []ProcessedMeansDone
<1>1. IInv => ProcessedMeansDone
  BY DEF IInv
<1> QED BY IInvHolds, <1>1, PTL

-----------------------------------------------------------------------------
(* The path implements the channel.                                         *)

Known == {e \in Events : row[e] # "none"}

\* Only committed events are ever fetched, sent, queued or handled.
CommittedOnly ==
  /\ batch \in [Publishers -> SUBSET Known]
  /\ wire  \in [Publishers -> Seq(Known)]
  /\ queue \in [Services -> Seq(Known)]
  /\ \A v \in Services : work[v].event \in Known \cup {0}

\* A row that was committed stays so.
LEMMA KnownGrows ==
  ASSUME TypeOK, [Next]_vars
  PROVE  Known \subseteq Known'
<1>1. \/ UNCHANGED row
      \/ \E e \in Events : row' = [row EXCEPT ![e] = "PENDING"]
      \/ \E e \in Events : row' = [row EXCEPT ![e] = "PUBLISHED"]
  BY DEF Next, vars, CommitEvent, Publisher, StartPublisher, FetchPendingEvents, Route,
         Publish, PublishFails, SkipEvent, MarkAsPublished, Consumer, StartConsumer,
         SaveInboxEvent, IgnoreDuplicate, Apply, MarkInboxEventProcessed, BrokerComesUp,
         Misfortune, BrokerGoesDown, CrashPublisher, MarkAsPublishedFails, CrashConsumer,
         SaveInboxEventFails,
         ResolveRecipients, ListUserIDsByRoleFails, ApplyFails, MarkInboxEventProcessedFails
<1> QED BY <1>1 DEF Known, TypeOK

\* What only held committed events still does, however many more there are.
LEMMA CommittedStays ==
  ASSUME CommittedOnly, Known \subseteq Known'
  PROVE  /\ batch \in [Publishers -> SUBSET Known']
         /\ wire  \in [Publishers -> Seq(Known')]
         /\ queue \in [Services -> Seq(Known')]
         /\ \A v \in Services : work[v].event \in Known' \cup {0}
<1>1. \A q \in Seq(Known) : q \in Seq(Known')
  OBVIOUS
<1> QED BY <1>1 DEF CommittedOnly

LEMMA CommittedNext == IInv /\ CommittedOnly /\ [Next]_vars => CommittedOnly'
<1> SUFFICES ASSUME IInv, CommittedOnly, [Next]_vars PROVE CommittedOnly'
  OBVIOUS
<1>0. TypeOK /\ HeldByBroker
  BY DEF IInv
<1>1. /\ batch \in [Publishers -> SUBSET Known']
      /\ wire  \in [Publishers -> Seq(Known')]
      /\ queue \in [Services -> Seq(Known')]
      /\ \A v \in Services : work[v].event \in Known' \cup {0}
  BY <1>0, KnownGrows, CommittedStays
<1> DEFINE K == Known'
<1>2. CommittedOnly' = (/\ batch' \in [Publishers -> SUBSET K]
                       /\ wire'  \in [Publishers -> Seq(K)]
                       /\ queue' \in [Services -> Seq(K)]
                       /\ \A v \in Services : work'[v].event \in K \cup {0})
  BY DEF CommittedOnly
<1>3. DOMAIN work = Services
  BY <1>0 DEF TypeOK
<1>4. Known \subseteq K
  BY <1>0, KnownGrows
<1> HIDE DEF K
<1>5. CASE UNCHANGED <<batch, wire, queue, work>>
  BY <1>1, <1>2, <1>5 DEF K
<1>6. ASSUME NEW p \in Publishers, Publisher(p) PROVE CommittedOnly'
  <2>1. CASE StartPublisher(p)
    BY <1>5, <2>1 DEF StartPublisher, publisherVars, brokerVars, consumerVars
  <2>2. CASE FetchPendingEvents(p)
    <3>1. Pending \subseteq Known
      BY DEF Pending, Known
    <3>2. UNCHANGED <<wire, queue, work>> /\ batch' \in [Publishers -> SUBSET K]
      BY <1>1, <1>4, <2>2, <3>1 DEF FetchPendingEvents, brokerVars, consumerVars, K
    <3> QED BY <1>1, <1>2, <3>2 DEF K
  <2>3. CASE Route(p)
    <3>1. wire[p] \in Seq(K) /\ wire[p] # <<>>
      BY <1>1, <2>3 DEF Route, K
    <3>2. Head(wire[p]) \in K /\ Tail(wire[p]) \in Seq(K)
      BY <3>1
    <3>3. wire' \in [Publishers -> Seq(K)] /\ UNCHANGED <<batch, work>>
      BY <1>1, <2>3, <3>2 DEF Route, publisherVars, consumerVars, K
    <3>4. \A v \in Services : Append(queue[v], Head(wire[p])) \in Seq(K)
      BY <1>1, <3>2 DEF K
    <3>5. queue' \in [Services -> Seq(K)]
      BY <1>1, <2>3, <3>4 DEF Route, K
    <3> QED BY <1>1, <1>2, <3>3, <3>5 DEF K
  <2>4. ASSUME NEW e \in Events, Publish(p, e) PROVE CommittedOnly'
    <3>1. e \in K /\ wire[p] \in Seq(K)
      BY <1>1, <2>4 DEF Publish, Current, K
    <3>2. Append(wire[p], e) \in Seq(K)
      BY <3>1
    <3>3. wire' \in [Publishers -> Seq(K)] /\ UNCHANGED <<batch, queue, work>>
      BY <1>1, <2>4, <3>2 DEF Publish, brokerVars, consumerVars, K
    <3> QED BY <1>1, <1>2, <3>3 DEF K
  <2>5. ASSUME NEW e \in Events, PublishFails(p, e) \/ MarkAsPublished(p, e)
        PROVE  CommittedOnly'
    <3>1. batch' = [batch EXCEPT ![p] = @ \ {e}] /\ UNCHANGED <<wire, queue, work>>
      BY <2>5 DEF PublishFails, SkipEvent, MarkAsPublished, brokerVars, consumerVars
    <3>2. batch' \in [Publishers -> SUBSET K]
      BY <1>1, <3>1 DEF K
    <3> QED BY <1>1, <1>2, <3>1, <3>2 DEF K
  <2> QED BY <1>6, <2>1, <2>2, <2>3, <2>4, <2>5 DEF Publisher
<1>7. ASSUME NEW v \in Services, Consumer(v) PROVE CommittedOnly'
  <2>1. CASE StartConsumer(v)
    BY <1>5, <2>1 DEF StartConsumer, publisherVars, consumerVars
  <2>2. CASE SaveInboxEvent(v)
    <3>1. queue[v] \in Seq(K) /\ queue[v] # <<>>
      BY <1>1, <2>2 DEF SaveInboxEvent, Receives, K
    <3>2. Head(queue[v]) \in K
      BY <3>1
    <3>3. \A w \in Services : work'[w].event \in K \cup {0}
      BY <1>1, <1>3, <2>2, <3>2 DEF SaveInboxEvent, Begin, K
    <3>4. UNCHANGED <<batch, wire, queue>>
      BY <2>2 DEF SaveInboxEvent, publisherVars, brokerVars
    <3> QED BY <1>1, <1>2, <3>3, <3>4 DEF K
  <2>3. CASE IgnoreDuplicate(v)
    <3>1. queue' \in [Services -> Seq(K)]
      BY <1>1, <2>3, ForgetType DEF IgnoreDuplicate, Receives, K
    <3>2. UNCHANGED <<batch, wire, work>>
      BY <2>3 DEF IgnoreDuplicate, publisherVars, consumerVars
    <3> QED BY <1>1, <1>2, <3>1, <3>2 DEF K
  <2>4. ASSUME ResolveRecipients(v) \/ \E t \in Targets[v] : Apply(v, t)
        PROVE  CommittedOnly'
    <3>1. \A w \in Services : work'[w].event = work[w].event
      <4>1. CASE ResolveRecipients(v)
        BY <1>0, <4>1, ResolvedWork
      <4>2. CASE \E t \in Targets[v] : Apply(v, t)
        BY <1>0, <1>3, <4>2 DEF Apply, TypeOK
      <4> QED BY <2>4, <4>1, <4>2
    <3>2. UNCHANGED <<batch, wire, queue>>
      BY <2>4 DEF ResolveRecipients, Apply, publisherVars, brokerVars
    <3> QED BY <1>1, <1>2, <3>1, <3>2 DEF K
  <2>5. CASE MarkInboxEventProcessed(v)
    <3>1. queue' \in [Services -> Seq(K)]
      BY <1>0, <1>1, <2>5, ForgetType DEF MarkInboxEventProcessed, HeldByBroker, K
    <3>2. UNCHANGED <<batch, wire>> /\ work' = [work EXCEPT ![v] = NoWork]
      BY <2>5 DEF MarkInboxEventProcessed, publisherVars
    <3>3. \A w \in Services : work'[w].event \in K \cup {0}
      BY <1>1, <1>3, <3>2 DEF NoWork, K
    <3> QED BY <1>1, <1>2, <3>1, <3>2, <3>3 DEF K
  <2> QED BY <1>7, <2>1, <2>2, <2>3, <2>4, <2>5 DEF Consumer
<1>8. CASE Misfortune
  <2>1. CASE BrokerGoesDown
    <3>1. wire' = [p \in Publishers |-> <<>>] /\ UNCHANGED <<batch, queue, work>>
      BY <2>1 DEF BrokerGoesDown, publisherVars, consumerVars
    <3>2. <<>> \in Seq(K)
      OBVIOUS
    <3>3. wire' \in [Publishers -> Seq(K)]
      BY <3>1, <3>2
    <3> QED BY <1>1, <1>2, <3>1, <3>3 DEF K
  <2>2. ASSUME NEW p \in Publishers,
               CrashPublisher(p) \/ \E e \in Events : MarkAsPublishedFails(p, e)
        PROVE  CommittedOnly'
    <3>1. UNCHANGED <<wire, queue, work>> /\ batch' \in [Publishers -> SUBSET K]
      BY <1>1, <2>2 DEF CrashPublisher, MarkAsPublishedFails, SkipEvent, brokerVars,
                        consumerVars, K
    <3> QED BY <1>1, <1>2, <3>1 DEF K
  <2>3. ASSUME NEW v \in Services, SaveInboxEventFails(v) PROVE CommittedOnly'
    <3>1. queue' \in [Services -> Seq(K)]
      BY <1>1, <2>3, RequeueType DEF SaveInboxEventFails, K
    <3>2. UNCHANGED <<batch, wire, work>>
      BY <2>3 DEF SaveInboxEventFails, publisherVars, consumerVars
    <3> QED BY <1>1, <1>2, <3>1, <3>2 DEF K
  <2>4. ASSUME NEW v \in Services,
               CrashConsumer(v) \/ ApplyFails(v) \/ MarkInboxEventProcessedFails(v)
        PROVE  CommittedOnly'
    <3>1. queue' \in [Services -> Seq(K)]
      <4>1. CASE CrashConsumer(v)
        BY <1>1, <4>1 DEF CrashConsumer, brokerVars, K
      <4>2. CASE ApplyFails(v)
        BY <1>0, <1>1, <4>2, ForgetType DEF ApplyFails, HeldByBroker, K
      <4>3. CASE MarkInboxEventProcessedFails(v)
        BY <1>1, <4>3, RequeueType DEF MarkInboxEventProcessedFails, K
      <4> QED BY <2>4, <4>1, <4>2, <4>3
    <3>2. UNCHANGED <<batch, wire>> /\ work' = [work EXCEPT ![v] = NoWork]
      BY <2>4 DEF CrashConsumer, ApplyFails, MarkInboxEventProcessedFails, publisherVars
    <3>3. \A w \in Services : work'[w].event \in K \cup {0}
      BY <1>1, <1>3, <3>2 DEF NoWork, K
    <3> QED BY <1>1, <1>2, <3>1, <3>2, <3>3 DEF K
  <2>5. ASSUME NEW v \in Services, ListUserIDsByRoleFails(v) PROVE CommittedOnly'
    <3>1. \A w \in Services : work'[w].event = work[w].event
      BY <1>0, <1>3, <2>5 DEF ListUserIDsByRoleFails, TypeOK
    <3>2. UNCHANGED <<batch, wire, queue>>
      BY <2>5 DEF ListUserIDsByRoleFails, publisherVars, brokerVars
    <3> QED BY <1>1, <1>2, <3>1, <3>2 DEF K
  <2> QED BY <1>8, <2>1, <2>2, <2>3, <2>4, <2>5 DEF Misfortune
<1>9. CASE BrokerComesUp \/ UNCHANGED vars \/ \E e \in Events : CommitEvent(e)
  BY <1>5, <1>9 DEF BrokerComesUp, CommitEvent, vars, publisherVars, brokerVars, consumerVars
<1> QED BY <1>6, <1>7, <1>8, <1>9 DEF Next

LEMMA CommittedHolds == Spec => []CommittedOnly
<1>1. Init => CommittedOnly
  <2>1. \A S : <<>> \in Seq(S)
    OBVIOUS
  <2> QED BY <2>1 DEF Init, CommittedOnly, NoWork
<1> QED BY <1>1, CommittedNext, IInvHolds, PTL DEF Spec

\* Every step commits an event, has one effect for the first time, or leaves
\* the channel alone.
LEMMA ChannelStep ==
  IInv /\ CommittedOnly /\ [Next]_vars => [Channel!Next]_<<Known, effects>>
<1> SUFFICES ASSUME IInv, CommittedOnly, [Next]_vars
             PROVE  [Channel!Next]_<<Known, effects>>
  OBVIOUS
<1>0. TypeOK /\ Known \subseteq Known'
  BY KnownGrows DEF IInv
<1>1. ASSUME NEW e \in Events, CommitEvent(e) PROVE Channel!Next
  <2>1. row[e] = "none" /\ row' = [row EXCEPT ![e] = "PENDING"] /\ effects' = effects
    BY <1>1 DEF CommitEvent, consumerVars
  <2>2. e \notin Known /\ Known' = Known \cup {e}
    BY <1>0, <2>1 DEF Known, TypeOK
  <2> QED BY <2>1, <2>2 DEF Channel!Next, Channel!Commit, Known
<1>2. ASSUME NEW v \in Services, NEW t \in Targets[v], Apply(v, t) PROVE Channel!Next
  <2> DEFINE e == work[v].event
  <2>1. t \in work[v].todo /\ effects' = [effects EXCEPT ![v][e][t] = @ + 1]
        /\ row' = row
    BY <1>2 DEF Apply
  <2>2. e \in Known /\ e \in Events
    BY <1>0, <2>1 DEF IInv, CommittedOnly, WorkOK, Known
  <2>3. effects[v][e][t] = 0
    BY <1>0, <2>1, <2>2 DEF IInv, WorkOK, HandlerOK, Events
  <2>4. effects' = [effects EXCEPT ![v][e][t] = 1]
    BY <1>0, <2>1, <2>2, <2>3 DEF TypeOK
  <2>5. Known' = Known
    BY <2>1 DEF Known
  <2> HIDE DEF e
  <2>6. Channel!Effect(v, e, t)
    BY <2>2, <2>3, <2>4, <2>5 DEF Channel!Effect, Known
  <2> QED BY <2>2, <2>6 DEF Channel!Next
<1>3. ASSUME \/ UNCHANGED vars
             \/ BrokerComesUp
             \/ Misfortune
             \/ \E p \in Publishers : Publisher(p)
             \/ \E v \in Services :
                  \/ StartConsumer(v)
                  \/ SaveInboxEvent(v)
                  \/ IgnoreDuplicate(v)
                  \/ ResolveRecipients(v)
                  \/ MarkInboxEventProcessed(v)
      PROVE  UNCHANGED <<Known, effects>>
  <2>1. effects' = effects
    BY <1>3
    DEF vars, consumerVars, BrokerComesUp, Misfortune, BrokerGoesDown, CrashPublisher,
        MarkAsPublishedFails, CrashConsumer, SaveInboxEventFails,
        ResolveRecipients, ListUserIDsByRoleFails, ApplyFails,
        MarkInboxEventProcessedFails, Publisher, StartPublisher, FetchPendingEvents,
        Route, Publish, PublishFails, SkipEvent, MarkAsPublished, StartConsumer,
        SaveInboxEvent, IgnoreDuplicate, MarkInboxEventProcessed
  <2>2. row' = row \/ \E e \in Known : row' = [row EXCEPT ![e] = "PUBLISHED"]
    <3>1. ASSUME NEW p \in Publishers, NEW e \in Events, MarkAsPublished(p, e)
          PROVE  e \in Known /\ row' = [row EXCEPT ![e] = "PUBLISHED"]
      BY <3>1 DEF MarkAsPublished, Current, CommittedOnly
    <3> QED
      BY <1>3, <3>1
      DEF vars, BrokerComesUp, Misfortune, BrokerGoesDown, CrashPublisher,
          MarkAsPublishedFails, CrashConsumer, SaveInboxEventFails,
          ResolveRecipients, ListUserIDsByRoleFails, ApplyFails,
          MarkInboxEventProcessedFails, Publisher, StartPublisher, FetchPendingEvents,
          Route, Publish, PublishFails, SkipEvent, StartConsumer,
          SaveInboxEvent, IgnoreDuplicate, MarkInboxEventProcessed
  <2>3. Known' = Known
    BY <1>0, <2>2 DEF Known, TypeOK
  <2> QED BY <2>1, <2>3
<1> QED BY <1>1, <1>2, <1>3 DEF Next, Consumer

\* The outbox, the broker and the inbox together implement EventChannel: an
\* effect happens at most once, and only for an event that was committed.
THEOREM PathImplementsChannel == Spec => ImplementsChannel
<1>1. Init => Channel!Init
  BY DEF Init, Channel!Init
<1>2. IInv /\ CommittedOnly /\ [Next]_vars
        => [Channel!Next]_<<{e \in Events : row[e] # "none"}, effects>>
  BY ChannelStep DEF Known
<1> QED BY <1>1, <1>2, IInvHolds, CommittedHolds, PTL DEF Spec, ImplementsChannel, Channel!Spec

-----------------------------------------------------------------------------
(***************************************************************************)
(* What is published is not lost.                                          *)
(***************************************************************************)

\* The event is in the queue of the service or in its inbox.
HeldFor(e, v) == InSequence(e, queue[v]) \/ e \in inbox[v]

\* The event is on its way to the service, or has reached it.
Reached(e, v) == (\E p \in Publishers : InSequence(e, wire[p])) \/ HeldFor(e, v)

\* A connected consumer handles the head of its queue, so this is what an Ack or a
\* Nack makes the broker forget.
HeadAtWork ==
  \A v \in Services :
    process[v] = "connected" /\ work[v].event # 0 => Head(queue[v]) = work[v].event

\* Between Publish and MarkAsPublished the event is under way already.
SentOK ==
  \A p \in Publishers : sent[p] =>
    /\ batch[p] # {}
    /\ \A e \in Events : Current(p, e) => \A v \in Services : Reached(e, v)

KeptInv == declared = Services /\ HeadAtWork /\ SentOK /\ PublishedNotLost

-----------------------------------------------------------------------------
(* Sequences.                                                               *)

LEMMA InAppend ==
  ASSUME NEW S, NEW q \in Seq(S), NEW x \in S
  PROVE  /\ InSequence(x, Append(q, x))
         /\ \A e : InSequence(e, q) => InSequence(e, Append(q, x))
<1>1. /\ Len(q) \in Nat /\ DOMAIN q = 1..Len(q) /\ DOMAIN Append(q, x) = 1..(Len(q) + 1)
      /\ \A i \in 1..Len(q) : Append(q, x)[i] = q[i]
      /\ Append(q, x)[Len(q) + 1] = x
  OBVIOUS
<1>2. Len(q) + 1 \in 1..(Len(q) + 1) /\ 1..Len(q) \subseteq 1..(Len(q) + 1)
  BY <1>1
<1> QED BY <1>1, <1>2 DEF InSequence

LEMMA InTail ==
  ASSUME NEW S, NEW q \in Seq(S), q # <<>>, NEW e, InSequence(e, q), e # Head(q)
  PROVE  InSequence(e, Tail(q))
<1>1. PICK i \in 1..Len(q) : q[i] = e
  BY DEF InSequence
<1>2. i # 1 /\ i \in Nat /\ Len(q) \in Nat
  BY <1>1
<1>3. Tail(q) \in Seq(S) /\ Len(Tail(q)) = Len(q) - 1
  OBVIOUS
<1>4. i - 1 \in 1..Len(Tail(q))
  BY <1>2, <1>3
<1>5. Tail(q)[i - 1] = q[i]
  BY <1>2, <1>3, <1>4
<1>6. i - 1 \in DOMAIN Tail(q)
  BY <1>3, <1>4
<1> QED BY <1>1, <1>5, <1>6 DEF InSequence

LEMMA InConcat ==
  ASSUME NEW S, NEW a \in Seq(S), NEW b \in Seq(S), NEW e
  PROVE  InSequence(e, a) \/ InSequence(e, b) => InSequence(e, a \o b)
<1>1. /\ a \o b \in Seq(S) /\ Len(a \o b) = Len(a) + Len(b) /\ Len(a) \in Nat /\ Len(b) \in Nat
      /\ DOMAIN a = 1..Len(a) /\ DOMAIN b = 1..Len(b) /\ DOMAIN (a \o b) = 1..(Len(a) + Len(b))
  OBVIOUS
<1>2. ASSUME NEW i \in 1..Len(a), a[i] = e PROVE InSequence(e, a \o b)
  <2>1. i \in 1..(Len(a) + Len(b)) /\ (a \o b)[i] = a[i]
    BY <1>1
  <2> QED BY <1>1, <1>2, <2>1 DEF InSequence
<1>3. ASSUME NEW i \in 1..Len(b), b[i] = e PROVE InSequence(e, a \o b)
  <2>1. i + Len(a) \in 1..(Len(a) + Len(b)) /\ (a \o b)[i + Len(a)] = b[i]
    BY <1>1
  <2> QED BY <1>1, <1>3, <2>1 DEF InSequence
<1> QED BY <1>1, <1>2, <1>3 DEF InSequence

LEMMA InParts ==
  ASSUME NEW S, NEW t \in Seq(S), NEW i \in 1..(Len(t) + 1), NEW e, InSequence(e, t)
  PROVE  InSequence(e, SubSeq(t, 1, i - 1)) \/ InSequence(e, SubSeq(t, i, Len(t)))
<1>1. PICK k \in 1..Len(t) : t[k] = e
  BY DEF InSequence
<1>2. k \in Nat /\ i \in Nat /\ Len(t) \in Nat
  OBVIOUS
<1>3. CASE k < i
  <2>1. /\ Len(SubSeq(t, 1, i - 1)) = i - 1 /\ SubSeq(t, 1, i - 1) \in Seq(S)
        /\ k \in 1..(i - 1) /\ SubSeq(t, 1, i - 1)[k] = t[k]
    BY <1>2, <1>3
  <2>2. k \in DOMAIN SubSeq(t, 1, i - 1)
    BY <2>1
  <2> QED BY <1>1, <2>1, <2>2 DEF InSequence
<1>4. CASE i <= k
  <2>1. /\ Len(SubSeq(t, i, Len(t))) = Len(t) - i + 1 /\ SubSeq(t, i, Len(t)) \in Seq(S)
        /\ k - i + 1 \in 1..(Len(t) - i + 1)
    BY <1>2, <1>4
  <2>2. SubSeq(t, i, Len(t))[k - i + 1] = t[k]
    BY <1>2, <1>4, <2>1
  <2>3. k - i + 1 \in DOMAIN SubSeq(t, i, Len(t))
    BY <2>1
  <2> QED BY <1>1, <2>2, <2>3 DEF InSequence
<1> QED BY <1>2, <1>3, <1>4

LEMMA InRequeued ==
  ASSUME NEW S, NEW q \in Seq(S), q # <<>>, NEW i \in 1..Len(q), NEW e, InSequence(e, q)
  PROVE  InSequence(e, InsertAt(Tail(q), i, Head(q)))
<1>1. Tail(q) \in Seq(S) /\ Head(q) \in S /\ Len(Tail(q)) = Len(q) - 1
  OBVIOUS
<1> DEFINE t == Tail(q)
           h == Head(q)
<1>2. t \in Seq(S) /\ h \in S /\ i \in 1..(Len(t) + 1)
  BY <1>1
<1>3. e = h \/ InSequence(e, t)
  BY InTail
<1> HIDE DEF t, h
<1> DEFINE a == SubSeq(t, 1, i - 1)
           b == SubSeq(t, i, Len(t))
<1>4. a \in Seq(S) /\ b \in Seq(S) /\ <<h>> \in Seq(S)
  BY <1>2
<1>5. InsertAt(t, i, h) = (a \o <<h>>) \o b
  BY DEF InsertAt
<1>6. InSequence(e, t) => InSequence(e, a) \/ InSequence(e, b)
  BY <1>2, InParts
<1>7. InSequence(h, <<h>>)
  BY DEF InSequence
<1> HIDE DEF a, b
<1>8. a \o <<h>> \in Seq(S)
  BY <1>4
<1>9. InSequence(e, a) \/ e = h => InSequence(e, a \o <<h>>)
  BY <1>4, <1>7, InConcat
<1>10. InSequence(e, (a \o <<h>>) \o b)
  BY <1>3, <1>4, <1>6, <1>8, <1>9, InConcat
<1> QED BY <1>5, <1>10 DEF t, h

-----------------------------------------------------------------------------
(* What has been sent stays.                                                *)

\* How the steps take an event out of a queue for good.
LEMMA ForgottenIsKnown ==
  ASSUME IInv, HeadAtWork, NEW v \in Services,
         \/ IgnoreDuplicate(v) \/ ApplyFails(v) \/ MarkInboxEventProcessed(v)
  PROVE  /\ Forget(v) /\ UNCHANGED <<wire, inbox>>
         /\ process[v] = "connected" => queue[v] # <<>> /\ Head(queue[v]) \in inbox[v]
<1>1. Forget(v) /\ UNCHANGED <<wire, inbox>>
  BY DEF IgnoreDuplicate, ApplyFails, MarkInboxEventProcessed, consumerVars
<1>2. CASE IgnoreDuplicate(v)
  BY <1>1, <1>2 DEF IgnoreDuplicate, Receives
<1>3. CASE work[v].event # 0
  BY <1>1, <1>3 DEF IInv, HeldByBroker, WorkOK, HandlerOK, HeadAtWork
<1> QED BY <1>2, <1>3 DEF ApplyFails, MarkInboxEventProcessed

\* No step takes an event out of a queue before it is in the inbox: not a crash, not a
\* failed handler, not an outage.
LEMMA HeldKept ==
  ASSUME IInv, HeadAtWork, [Next]_vars, NEW e \in Events, NEW v \in Services, HeldFor(e, v)
  PROVE  HeldFor(e, v)'
<1>1. /\ queue \in [Services -> Seq(Events)] /\ inbox \in [Services -> SUBSET Events]
      /\ wire \in [Publishers -> Seq(Events)]
  BY DEF IInv, TypeOK
<1>2. ASSUME queue' = queue, inbox[v] \subseteq inbox'[v]
      PROVE  HeldFor(e, v)'
  BY <1>2 DEF HeldFor
<1>3. ASSUME NEW q \in Publishers, Route(q) PROVE HeldFor(e, v)'
  <2>1. wire[q] # <<>> /\ wire[q] \in Seq(Events) /\ queue[v] \in Seq(Events)
    BY <1>1, <1>3 DEF Route
  <2>2. Head(wire[q]) \in Events
    BY <2>1
  <2>3. inbox' = inbox /\ queue'[v] \in {queue[v], Append(queue[v], Head(wire[q]))}
    BY <1>3 DEF Route, consumerVars
  <2>4. InSequence(e, queue[v]) => InSequence(e, queue'[v])
    BY <2>1, <2>2, <2>3, InAppend
  <2> QED BY <2>3, <2>4 DEF HeldFor
<1>5. ASSUME NEW w \in Services,
             IgnoreDuplicate(w) \/ ApplyFails(w) \/ MarkInboxEventProcessed(w)
      PROVE  HeldFor(e, v)'
  <2>1. /\ Forget(w) /\ UNCHANGED <<wire, inbox>>
        /\ process[w] = "connected" => queue[w] # <<>> /\ Head(queue[w]) \in inbox[w]
    BY <1>5, ForgottenIsKnown
  <2>2. CASE w = v /\ process[v] = "connected"
    <3>1. queue'[v] = Tail(queue[v]) /\ queue[v] \in Seq(Events) /\ queue[v] # <<>>
      BY <1>1, <2>1, <2>2 DEF Forget
    <3>2. InSequence(e, queue[v]) => InSequence(e, queue'[v]) \/ e \in inbox[v]
      BY <2>1, <2>2, <3>1, InTail
    <3> QED BY <2>1, <3>2 DEF HeldFor
  <2>3. CASE ~(w = v /\ process[v] = "connected")
    <3>1. queue'[v] = queue[v]
      BY <1>1, <2>1, <2>3 DEF Forget
    <3> QED BY <2>1, <3>1 DEF HeldFor
  <2> QED BY <2>2, <2>3
<1>6. ASSUME NEW w \in Services, SaveInboxEventFails(w) \/ MarkInboxEventProcessedFails(w)
      PROVE  HeldFor(e, v)'
  <2>1. Requeue(w) /\ UNCHANGED <<wire, inbox>>
    BY <1>6 DEF SaveInboxEventFails, MarkInboxEventProcessedFails, consumerVars
  <2>2. InSequence(e, queue[v]) => InSequence(e, queue'[v])
    <3>1. CASE w = v /\ process[v] = "connected"
      <4>1. PICK i \in 1..Len(queue[v]) :
              queue' = [queue EXCEPT ![v] = InsertAt(Tail(@), i, Head(@))]
        BY <2>1, <3>1 DEF Requeue
      <4>2. queue[v] \in Seq(Events) /\ queue[v] # <<>>
        BY <1>1
      <4>3. queue'[v] = InsertAt(Tail(queue[v]), i, Head(queue[v]))
        BY <1>1, <4>1
      <4> QED BY <4>2, <4>3, InRequeued
    <3>2. CASE ~(w = v /\ process[v] = "connected")
      <4>1. queue'[v] = queue[v]
        BY <1>1, <2>1, <3>2 DEF Requeue
      <4> QED BY <4>1
    <3> QED BY <3>1, <3>2
  <2> QED BY <2>1, <2>2 DEF HeldFor
<1>7. ASSUME NEW w \in Services, SaveInboxEvent(w) PROVE HeldFor(e, v)'
  BY <1>1, <1>2, <1>7 DEF SaveInboxEvent, brokerVars
<1>8. ASSUME NEW w \in Services,
             \/ StartConsumer(w) \/ CrashConsumer(w) \/ ResolveRecipients(w)
             \/ ListUserIDsByRoleFails(w) \/ \E t \in Targets[w] : Apply(w, t)
      PROVE  HeldFor(e, v)'
  BY <1>2, <1>8 DEF StartConsumer, CrashConsumer, ResolveRecipients, ListUserIDsByRoleFails,
     Apply, brokerVars, consumerVars
<1>9. ASSUME NEW p \in Publishers,
             \/ StartPublisher(p) \/ FetchPendingEvents(p) \/ CrashPublisher(p)
             \/ \E f \in Events : \/ Publish(p, f) \/ PublishFails(p, f)
                                  \/ MarkAsPublished(p, f) \/ MarkAsPublishedFails(p, f)
      PROVE  HeldFor(e, v)'
  BY <1>2, <1>9 DEF StartPublisher, FetchPendingEvents, CrashPublisher, Publish, PublishFails,
     MarkAsPublished, MarkAsPublishedFails, SkipEvent, brokerVars, consumerVars
<1>10. CASE \/ BrokerComesUp \/ BrokerGoesDown \/ UNCHANGED vars
            \/ \E f \in Events : CommitEvent(f)
  BY <1>2, <1>10 DEF BrokerComesUp, BrokerGoesDown, CommitEvent, vars, brokerVars, consumerVars
<1> QED BY <1>3, <1>5, <1>6, <1>7, <1>8, <1>9, <1>10
        DEF Next, Publisher, Consumer, Misfortune

\* With every queue declared only an outage loses what is under way.
LEMMA ReachedKept ==
  ASSUME IInv, KeptInv, [Next]_vars, ~BrokerGoesDown,
         NEW e \in Events, NEW v \in Services, Reached(e, v)
  PROVE  Reached(e, v)'
<1>1. wire \in [Publishers -> Seq(Events)] /\ queue \in [Services -> Seq(Events)]
  BY DEF IInv, TypeOK
<1>2. CASE HeldFor(e, v)
  BY <1>2, HeldKept DEF KeptInv, Reached
<1>3. ASSUME NEW p \in Publishers, InSequence(e, wire[p]) PROVE Reached(e, v)'
  <2>1. ASSUME wire' = wire PROVE Reached(e, v)'
    BY <1>3, <2>1 DEF Reached
  <2>2. ASSUME NEW q \in Publishers, Route(q) PROVE Reached(e, v)'
    <3>1. /\ wire[q] # <<>> /\ wire' = [wire EXCEPT ![q] = Tail(@)]
          /\ queue'[v] = Append(queue[v], Head(wire[q]))
      BY <2>2 DEF Route, KeptInv
    <3>2. wire[q] \in Seq(Events) /\ queue[v] \in Seq(Events)
      BY <1>1
    <3>3. Head(wire[q]) \in Events
      BY <3>1, <3>2
    <3>4. CASE e = Head(wire[q])
      <4>1. InSequence(e, queue'[v])
        BY <3>1, <3>2, <3>3, <3>4, InAppend
      <4> QED BY <4>1 DEF Reached, HeldFor
    <3>5. CASE e # Head(wire[q]) /\ p = q
      <4>1. InSequence(e, Tail(wire[q]))
        BY <1>3, <3>1, <3>2, <3>5, InTail
      <4>2. wire'[p] = Tail(wire[q])
        BY <1>1, <3>1, <3>5
      <4> QED BY <4>1, <4>2 DEF Reached
    <3>6. CASE p # q
      <4>1. wire'[p] = wire[p]
        BY <1>1, <3>1, <3>6
      <4> QED BY <1>3, <4>1 DEF Reached
    <3> QED BY <3>4, <3>5, <3>6
  <2>3. ASSUME NEW q \in Publishers, NEW f \in Events, Publish(q, f) PROVE Reached(e, v)'
    <3>1. wire' = [wire EXCEPT ![q] = Append(@, f)]
      BY <2>3 DEF Publish
    <3>2. CASE p = q
      <4>1. wire'[p] = Append(wire[p], f) /\ wire[p] \in Seq(Events)
        BY <1>1, <3>1, <3>2
      <4>2. InSequence(e, wire'[p])
        BY <1>3, <4>1, InAppend
      <4> QED BY <4>2 DEF Reached
    <3>3. CASE p # q
      <4>1. wire'[p] = wire[p]
        BY <1>1, <3>1, <3>3
      <4> QED BY <1>3, <4>1 DEF Reached
    <3> QED BY <3>2, <3>3
  <2>4. ASSUME NEW q \in Publishers,
               \/ StartPublisher(q) \/ FetchPendingEvents(q) \/ CrashPublisher(q)
               \/ \E f \in Events :
                    PublishFails(q, f) \/ MarkAsPublished(q, f) \/ MarkAsPublishedFails(q, f)
        PROVE  Reached(e, v)'
    BY <2>1, <2>4 DEF StartPublisher, FetchPendingEvents, CrashPublisher, PublishFails,
       MarkAsPublished, MarkAsPublishedFails, SkipEvent
  <2>5. ASSUME NEW w \in Services,
               \/ Consumer(w) \/ CrashConsumer(w) \/ SaveInboxEventFails(w)
               \/ ListUserIDsByRoleFails(w) \/ ApplyFails(w) \/ MarkInboxEventProcessedFails(w)
        PROVE  Reached(e, v)'
    BY <2>1, <2>5 DEF Consumer, StartConsumer, SaveInboxEvent, IgnoreDuplicate, Apply,
       MarkInboxEventProcessed, CrashConsumer, SaveInboxEventFails,
       ResolveRecipients, ListUserIDsByRoleFails, ApplyFails,
       MarkInboxEventProcessedFails
  <2>6. CASE BrokerComesUp \/ UNCHANGED vars \/ \E f \in Events : CommitEvent(f)
    BY <2>1, <2>6 DEF BrokerComesUp, CommitEvent, vars
  <2> QED BY <2>2, <2>3, <2>4, <2>5, <2>6 DEF Next, Publisher, Misfortune
<1> QED BY <1>2, <1>3 DEF Reached

-----------------------------------------------------------------------------
(* The invariant.                                                           *)

LEMMA DeclaredKept ==
  ASSUME declared = Services, [Next]_vars
  PROVE  declared' = Services
  BY DEF Next, vars, CommitEvent, Publisher, StartPublisher, FetchPendingEvents, Route,
         Publish, PublishFails, SkipEvent, MarkAsPublished, Consumer, StartConsumer,
         SaveInboxEvent, IgnoreDuplicate, Apply, MarkInboxEventProcessed, BrokerComesUp,
         Misfortune, BrokerGoesDown, CrashPublisher, MarkAsPublishedFails, CrashConsumer,
         SaveInboxEventFails,
         ResolveRecipients, ListUserIDsByRoleFails, ApplyFails, MarkInboxEventProcessedFails,
         brokerVars

LEMMA HeadKept ==
  ASSUME IInv, HeadAtWork, [Next]_vars
  PROVE  HeadAtWork'
<1> SUFFICES ASSUME NEW v \in Services, process'[v] = "connected", work'[v].event # 0
             PROVE  Head(queue'[v]) = work'[v].event
  BY DEF HeadAtWork
<1>0. TypeOK /\ HeldByBroker /\ v \notin Publishers
  BY DeliveryAssumption DEF IInv
<1>1. /\ queue \in [Services -> Seq(Events)] /\ DOMAIN work = Services
      /\ process \in [Publishers \cup Services -> {"down", "connected", "cut"}]
  BY <1>0 DEF TypeOK
<1>2. ASSUME process[v] = "connected", work'[v].event = work[v].event, queue'[v] = queue[v]
      PROVE  Head(queue'[v]) = work'[v].event
  BY <1>2 DEF HeadAtWork
<1>3. ASSUME NEW p \in Publishers, Route(p) PROVE Head(queue'[v]) = work'[v].event
  <2>1. process' = process /\ work' = work
    BY <1>3 DEF Route, consumerVars
  <2>2. queue[v] # <<>> /\ queue[v] \in Seq(Events) /\ Head(queue[v]) = work[v].event
    BY <1>0, <1>1, <2>1 DEF HeadAtWork, HeldByBroker
  <2>3. Head(wire[p]) \in Events
    <3>1. wire[p] \in Seq(Events) /\ wire[p] # <<>>
      BY <1>0, <1>3 DEF Route, TypeOK
    <3> QED BY <3>1
  <2>4. queue'[v] = queue[v] \/ queue'[v] = Append(queue[v], Head(wire[p]))
    BY <1>3 DEF Route
  <2>5. Head(Append(queue[v], Head(wire[p]))) = Head(queue[v])
    BY <2>2, <2>3
  <2> QED BY <2>1, <2>2, <2>4, <2>5
<1>4. ASSUME NEW w \in Services, SaveInboxEvent(w) PROVE Head(queue'[v]) = work'[v].event
  <2>1. /\ UNCHANGED <<process, queue>>
        /\ work' = [work EXCEPT ![w] = Begin(w, Head(queue[w]))]
    BY <1>4 DEF SaveInboxEvent, brokerVars
  <2>2. CASE w = v
    BY <1>1, <2>1, <2>2 DEF Begin
  <2>3. CASE w # v
    BY <1>1, <1>2, <2>1, <2>3
  <2> QED BY <2>2, <2>3
<1>5. ASSUME NEW w \in Services, IgnoreDuplicate(w) \/ SaveInboxEventFails(w)
      PROVE  Head(queue'[v]) = work'[v].event
  <2>1. UNCHANGED <<process, work>> /\ work[w] = NoWork
    BY <1>5 DEF IgnoreDuplicate, SaveInboxEventFails, Receives, consumerVars
  <2>2. w # v
    BY <2>1 DEF NoWork
  <2>3. queue'[v] = queue[v]
    BY <1>1, <1>5, <2>2 DEF IgnoreDuplicate, SaveInboxEventFails, Forget, Requeue
  <2> QED BY <1>2, <2>1, <2>3
<1>6. ASSUME NEW w \in Services,
             ApplyFails(w) \/ MarkInboxEventProcessed(w) \/ MarkInboxEventProcessedFails(w)
      PROVE  Head(queue'[v]) = work'[v].event
  <2>1. process' = process /\ work' = [work EXCEPT ![w] = NoWork]
    BY <1>6 DEF ApplyFails, MarkInboxEventProcessed, MarkInboxEventProcessedFails
  <2>2. w # v
    BY <1>1, <2>1 DEF NoWork
  <2>3. queue'[v] = queue[v]
    BY <1>1, <1>6, <2>2
    DEF ApplyFails, MarkInboxEventProcessed, MarkInboxEventProcessedFails, Forget, Requeue
  <2>4. work'[v] = work[v]
    BY <1>1, <2>1, <2>2
  <2> QED BY <1>2, <2>1, <2>3, <2>4
<1>7. ASSUME NEW w \in Services,
             \/ ResolveRecipients(w) \/ ListUserIDsByRoleFails(w)
             \/ \E t \in Targets[w] : Apply(w, t)
      PROVE  Head(queue'[v]) = work'[v].event
  <2>1. UNCHANGED <<process, queue>>
    BY <1>7 DEF ResolveRecipients, ListUserIDsByRoleFails, Apply, brokerVars
  <2>2. work'[v].event = work[v].event
    <3>1. CASE ResolveRecipients(w) \/ ListUserIDsByRoleFails(w)
      BY <1>0, <3>1, ResolvedWork
    <3>2. CASE \E t \in Targets[w] : Apply(w, t)
      BY <1>0, <3>2 DEF Apply, TypeOK
    <3> QED BY <1>7, <3>1, <3>2
  <2> QED BY <1>2, <2>1, <2>2
<1>8. ASSUME NEW w \in Services, StartConsumer(w) PROVE Head(queue'[v]) = work'[v].event
  <2>1. /\ UNCHANGED <<queue, work>> /\ process[w] = "down"
        /\ process' = [process EXCEPT ![w] = "connected"]
    BY <1>8 DEF StartConsumer, consumerVars
  <2>2. w # v
    BY <1>0, <2>1 DEF HeldByBroker
  <2> QED BY <1>1, <1>2, <2>1, <2>2
<1>9. ASSUME NEW w \in Services, CrashConsumer(w) PROVE Head(queue'[v]) = work'[v].event
  <2>1. /\ queue' = queue /\ work' = [work EXCEPT ![w] = NoWork]
        /\ process' = [process EXCEPT ![w] = "down"]
    BY <1>9 DEF CrashConsumer, brokerVars
  <2>2. w # v
    BY <1>1, <2>1 DEF NoWork
  <2> QED BY <1>1, <1>2, <2>1, <2>2
<1>10. ASSUME NEW p \in Publishers,
              \/ StartPublisher(p) \/ FetchPendingEvents(p) \/ CrashPublisher(p)
              \/ \E f \in Events :
                   \/ Publish(p, f) \/ PublishFails(p, f) \/ MarkAsPublished(p, f)
                   \/ MarkAsPublishedFails(p, f)
       PROVE  Head(queue'[v]) = work'[v].event
  <2>1. UNCHANGED <<queue, work>> /\ process'[v] = process[v]
    BY <1>0, <1>1, <1>10
    DEF StartPublisher, FetchPendingEvents, CrashPublisher, Publish, PublishFails,
        MarkAsPublished, MarkAsPublishedFails, SkipEvent, brokerVars, consumerVars
  <2> QED BY <1>2, <2>1
<1>11. CASE BrokerComesUp \/ UNCHANGED vars \/ \E f \in Events : CommitEvent(f)
  BY <1>2, <1>11 DEF BrokerComesUp, CommitEvent, vars, brokerVars, consumerVars
<1>12. CASE BrokerGoesDown
  <2>1. UNCHANGED <<queue, work>> /\ process[v] = "connected"
    BY <1>1, <1>12 DEF BrokerGoesDown, consumerVars
  <2> QED BY <1>2, <2>1
<1> QED BY <1>3, <1>4, <1>5, <1>6, <1>7, <1>8, <1>9, <1>10, <1>11, <1>12
        DEF Next, Publisher, Consumer, Misfortune

\* Only its own steps change what a publisher is at, and only MarkAsPublished a row to
\* PUBLISHED.
LEMMA PublisherSteps ==
  ASSUME IInv, [Next]_vars
  PROVE  /\ \/ row' = row
            \/ \E f \in Events : row' = [row EXCEPT ![f] = "PENDING"]
            \/ \E q \in Publishers, f \in Events : MarkAsPublished(q, f)
         /\ \/ UNCHANGED <<batch, sent>>
            \/ \E q \in Publishers : FetchPendingEvents(q)
            \/ \E q \in Publishers, f \in Events : Publish(q, f)
            \/ \E q \in Publishers :
                 /\ sent' = [sent EXCEPT ![q] = FALSE]
                 /\ \A p \in Publishers : p # q => batch'[p] = batch[p]
<1>1. batch \in [Publishers -> SUBSET Events]
  BY DEF IInv, TypeOK
<1>2. ASSUME NEW q \in Publishers, NEW f \in Events,
             PublishFails(q, f) \/ MarkAsPublished(q, f) \/ MarkAsPublishedFails(q, f)
      PROVE  /\ sent' = [sent EXCEPT ![q] = FALSE]
             /\ \A p \in Publishers : p # q => batch'[p] = batch[p]
             /\ row' = row \/ MarkAsPublished(q, f)
  BY <1>1, <1>2 DEF PublishFails, MarkAsPublished, MarkAsPublishedFails, SkipEvent
<1>3. ASSUME NEW q \in Publishers, CrashPublisher(q)
      PROVE  /\ sent' = [sent EXCEPT ![q] = FALSE]
             /\ \A p \in Publishers : p # q => batch'[p] = batch[p]
             /\ row' = row
  BY <1>1, <1>3 DEF CrashPublisher
<1>4. ASSUME NEW q \in Publishers, FetchPendingEvents(q) \/ \E f \in Events : Publish(q, f)
      PROVE  row' = row
  BY <1>4 DEF FetchPendingEvents, Publish
<1>5. ASSUME NEW q \in Publishers, StartPublisher(q) \/ Route(q)
      PROVE  UNCHANGED <<row, batch, sent>>
  BY <1>5 DEF StartPublisher, Route, publisherVars
<1>6. ASSUME NEW v \in Services,
             \/ Consumer(v) \/ CrashConsumer(v) \/ SaveInboxEventFails(v)
             \/ ListUserIDsByRoleFails(v) \/ ApplyFails(v) \/ MarkInboxEventProcessedFails(v)
      PROVE  UNCHANGED <<row, batch, sent>>
  BY <1>6 DEF Consumer, StartConsumer, SaveInboxEvent, IgnoreDuplicate, Apply,
     MarkInboxEventProcessed, CrashConsumer, SaveInboxEventFails,
     ResolveRecipients, ListUserIDsByRoleFails, ApplyFails,
     MarkInboxEventProcessedFails, publisherVars
<1>7. CASE BrokerComesUp \/ BrokerGoesDown \/ UNCHANGED vars
  BY <1>7 DEF BrokerComesUp, BrokerGoesDown, vars, publisherVars
<1>8. ASSUME NEW f \in Events, CommitEvent(f)
      PROVE  row' = [row EXCEPT ![f] = "PENDING"] /\ UNCHANGED <<batch, sent>>
  BY <1>8 DEF CommitEvent, publisherVars
<1>9. CASE \E q \in Publishers :
             \/ Publisher(q) \/ CrashPublisher(q)
             \/ \E f \in Events : MarkAsPublishedFails(q, f)
  <2>1. PICK q \in Publishers :
          \/ FetchPendingEvents(q) \/ CrashPublisher(q) \/ StartPublisher(q) \/ Route(q)
          \/ \E f \in Events :
               \/ Publish(q, f) \/ PublishFails(q, f) \/ MarkAsPublished(q, f)
               \/ MarkAsPublishedFails(q, f)
    BY <1>9 DEF Publisher
  <2> QED BY <2>1, <1>2, <1>3, <1>4, <1>5
<1>10. CASE \E v \in Services :
              \/ Consumer(v) \/ CrashConsumer(v) \/ SaveInboxEventFails(v)
              \/ ListUserIDsByRoleFails(v) \/ ApplyFails(v) \/ MarkInboxEventProcessedFails(v)
  BY <1>6, <1>10
<1> QED BY <1>7, <1>8, <1>9, <1>10 DEF Next, Misfortune

LEMMA SentKept ==
  ASSUME IInv, KeptInv, [Next]_vars, ~BrokerGoesDown
  PROVE  SentOK'
<1> SUFFICES ASSUME NEW p \in Publishers, sent'[p]
             PROVE  /\ batch'[p] # {}
                    /\ \A e \in Events : Current(p, e)' => \A v \in Services : Reached(e, v)'
  BY DEF SentOK
<1>1. batch \in [Publishers -> SUBSET Events] /\ sent \in [Publishers -> BOOLEAN]
      /\ wire \in [Publishers -> Seq(Events)]
  BY DEF IInv, TypeOK
<1>2. ASSUME sent[p], batch'[p] = batch[p]
      PROVE  /\ batch'[p] # {}
             /\ \A e \in Events : Current(p, e)' => \A v \in Services : Reached(e, v)'
  BY <1>2, ReachedKept DEF KeptInv, SentOK, Current
<1>3. CASE UNCHANGED <<batch, sent>>
  BY <1>2, <1>3
<1>4. ASSUME NEW q \in Publishers, FetchPendingEvents(q)
      PROVE  sent[p] /\ batch'[p] = batch[p]
  <2>1. sent' = sent /\ batch[q] = {} /\ \A r \in Publishers : r # q => batch'[r] = batch[r]
    BY <1>1, <1>4 DEF FetchPendingEvents
  <2>2. ~sent[q]
    BY <2>1 DEF KeptInv, SentOK
  <2> QED BY <2>1, <2>2
<1>5. ASSUME NEW q \in Publishers, NEW f \in Events, Publish(q, f)
      PROVE  /\ batch'[p] # {}
             /\ \A e \in Events : Current(p, e)' => \A v \in Services : Reached(e, v)'
  <2>1. /\ batch' = batch /\ sent' = [sent EXCEPT ![q] = TRUE]
        /\ wire' = [wire EXCEPT ![q] = Append(@, f)] /\ Current(q, f)
    BY <1>5 DEF Publish
  <2>2. CASE p # q
    BY <1>1, <1>2, <2>1, <2>2
  <2>3. CASE p = q
    <3>1. batch'[p] # {}
      BY <2>1, <2>3 DEF Current
    <3>2. ASSUME NEW e \in Events, Current(p, e)' PROVE e = f
      <4>1. e <= f /\ f <= e
        BY <2>1, <2>3, <3>2 DEF Current
      <4> QED BY <4>1 DEF Events
    <3>3. InSequence(f, wire'[q])
      <4>1. wire[q] \in Seq(Events) /\ wire'[q] = Append(wire[q], f)
        BY <1>1, <2>1
      <4> QED BY <4>1, InAppend
    <3>4. \A v \in Services : Reached(f, v)'
      BY <3>3 DEF Reached
    <3> QED BY <3>1, <3>2, <3>4
  <2> QED BY <2>2, <2>3
<1>6. ASSUME NEW q \in Publishers, sent' = [sent EXCEPT ![q] = FALSE],
             \A r \in Publishers : r # q => batch'[r] = batch[r]
      PROVE  sent[p] /\ batch'[p] = batch[p]
  BY <1>1, <1>6
<1> QED BY PublisherSteps, <1>2, <1>3, <1>4, <1>5, <1>6

LEMMA PublishedKept ==
  ASSUME IInv, KeptInv, [Next]_vars, ~BrokerGoesDown
  PROVE  PublishedNotLost'
<1> SUFFICES ASSUME NEW e \in Events, row'[e] = "PUBLISHED", NEW v \in Services
             PROVE  Reached(e, v)'
  BY DEF PublishedNotLost, Reached, HeldFor
<1>1. row \in [Events -> {"none", "PENDING", "PUBLISHED"}]
  BY DEF IInv, TypeOK
<1>2. CASE row[e] = "PUBLISHED"
  <2>1. Reached(e, v)
    BY <1>2 DEF KeptInv, PublishedNotLost, Reached, HeldFor
  <2> QED BY <2>1, ReachedKept
<1>3. CASE row[e] # "PUBLISHED"
  <2>1. PICK q \in Publishers, f \in Events : MarkAsPublished(q, f)
    BY <1>1, <1>3, PublisherSteps
  <2>2. e = f /\ sent[q] /\ Current(q, f)
    BY <1>1, <1>3, <2>1 DEF MarkAsPublished
  <2>3. Reached(e, v)
    BY <2>2 DEF KeptInv, SentOK
  <2> QED BY <2>3, ReachedKept
<1> QED BY <1>2, <1>3

LEMMA OutagesGrow ==
  ASSUME IInv, [Next]_vars
  PROVE  outages' = outages \/ (BrokerGoesDown /\ outages' = outages + 1)
<1>1. ASSUME NEW p \in Publishers,
             \/ Publisher(p) \/ CrashPublisher(p)
             \/ \E e \in Events : MarkAsPublishedFails(p, e)
      PROVE  outages' = outages
  BY <1>1 DEF Publisher, StartPublisher, FetchPendingEvents, Route, Publish, PublishFails,
     MarkAsPublished, CrashPublisher, MarkAsPublishedFails, Fault, faultVars
<1>2. ASSUME NEW v \in Services,
             \/ Consumer(v) \/ CrashConsumer(v) \/ SaveInboxEventFails(v)
             \/ ListUserIDsByRoleFails(v) \/ ApplyFails(v) \/ MarkInboxEventProcessedFails(v)
      PROVE  outages' = outages
  BY <1>2 DEF Consumer, StartConsumer, SaveInboxEvent, IgnoreDuplicate, Apply,
     MarkInboxEventProcessed, CrashConsumer, SaveInboxEventFails,
     ResolveRecipients, ListUserIDsByRoleFails, ApplyFails,
     MarkInboxEventProcessedFails, Fault, faultVars
<1>3. CASE BrokerComesUp \/ UNCHANGED vars \/ \E e \in Events : CommitEvent(e)
  BY <1>3 DEF BrokerComesUp, CommitEvent, vars, faultVars
<1>4. CASE BrokerGoesDown
  BY <1>4 DEF BrokerGoesDown
<1> QED BY <1>1, <1>2, <1>3, <1>4 DEF Next, Misfortune

LEMMA HeadAtWorkHolds == Spec => []HeadAtWork
<1>1. Init => HeadAtWork
  BY DEF Init, HeadAtWork, NoWork
<1>3. IInv /\ HeadAtWork /\ [Next]_vars => HeadAtWork'
  BY HeadKept
<1> QED BY <1>1, <1>3, IInvHolds, PTL DEF Spec

-----------------------------------------------------------------------------
\* What has reached the queue of a service stays there until it is in its inbox, through
\* crashes, failed handlers, requeues, lost acknowledgements and outages, whatever queues
\* exist: an event can be lost only before it is queued.
THEOREM QueuedIsKept ==
  ASSUME NEW e \in Events, NEW v \in Services
  PROVE  Spec => [](HeldFor(e, v) => []HeldFor(e, v))
<1>1. IInv /\ HeadAtWork /\ HeldFor(e, v) /\ [Next]_vars => HeldFor(e, v)'
  BY HeldKept
<1> HIDE DEF HeldFor
<1> QED BY <1>1, IInvHolds, HeadAtWorkHolds, PTL DEF Spec

\* Until a broker is lost for the first time, what is marked as PUBLISHED is under way to
\* every service or has reached it, if the queues exist before the first event.  The
\* outage is where the promise ends: the frames under way go with the broker, and without
\* confirms their rows may be PUBLISHED already.
THEOREM NothingIsLostBeforeAnOutage ==
  ASSUME Provisioned = Services
  PROVE  Spec => [](outages = 0 => PublishedNotLost)
<1> DEFINE Kept == outages = 0 => KeptInv
<1>1. Init => Kept
  BY DEF Init, KeptInv, HeadAtWork, NoWork, SentOK, PublishedNotLost
<1>2. IInv /\ Kept /\ [Next]_vars => Kept'
  <2> SUFFICES ASSUME IInv, Kept, [Next]_vars, outages' = 0 PROVE KeptInv'
    OBVIOUS
  <2>1. outages \in Nat
    BY DeliveryAssumption DEF IInv, TypeOK
  <2>2. outages = 0 /\ ~BrokerGoesDown
    <3>1. outages' = outages
      BY <2>1, OutagesGrow
    <3>2. ~BrokerGoesDown
      BY <2>1, <3>1 DEF BrokerGoesDown
    <3> QED BY <3>1, <3>2
  <2>3. KeptInv
    BY <2>2
  <2>4. declared' = Services
    BY <2>3, DeclaredKept DEF KeptInv
  <2> QED BY <2>2, <2>3, <2>4, HeadKept, SentKept, PublishedKept DEF KeptInv
<1>3. Kept => (outages = 0 => PublishedNotLost)
  BY DEF KeptInv
<1> HIDE DEF Kept
<1> QED BY <1>1, <1>2, <1>3, IInvHolds, PTL DEF Spec

\* A broker that is never lost loses nothing.
THEOREM NothingIsLost ==
  ASSUME MaxOutages = 0, Provisioned = Services
  PROVE  Spec => []PublishedNotLost
<1>1. IInv => outages = 0
  BY DEF IInv, TypeOK
<1> QED BY <1>1, IInvHolds, NothingIsLostBeforeAnOutage, PTL

-----------------------------------------------------------------------------
(* What ends for good.                                                      *)

\* The service has the event in its inbox and is not at work on it: its handler has
\* ended, with or without all the effects.
HandlerOver(v, e) == e \in inbox[v] /\ work[v].event # e

\* The effects the event has had and whether it counts as processed.
Outcome(v, e) == <<effects[v][e], e \in processed[v]>>

LEMMA HandlerStaysOver ==
  ASSUME IInv, [Next]_vars, NEW v \in Services, NEW e \in Events, HandlerOver(v, e)
  PROVE  HandlerOver(v, e)' /\ UNCHANGED Outcome(v, e)
<1>1. /\ inbox \in [Services -> SUBSET Events] /\ processed \in [Services -> SUBSET Events]
      /\ DOMAIN work = Services /\ DOMAIN effects = Services
      /\ \A w \in Services : /\ work[w] \in [event : Events \cup {0}, ask : SUBSET Targets[w],
                                            todo : SUBSET Targets[w]]
                             /\ effects[w] \in [Events -> [Targets[w] -> Nat]]
  BY DEF IInv, TypeOK
<1>2. e \in inbox[v] /\ work[v].event # e /\ e # 0
  BY DEF HandlerOver, Events
<1>3. ASSUME inbox'[v] = inbox[v], processed'[v] = processed[v],
             effects'[v][e] = effects[v][e], work'[v].event \in {work[v].event, 0}
      PROVE  HandlerOver(v, e)' /\ UNCHANGED Outcome(v, e)
  BY <1>2, <1>3 DEF HandlerOver, Outcome
<1>4. CASE UNCHANGED consumerVars
  BY <1>3, <1>4 DEF consumerVars
<1>5. ASSUME NEW w \in Services, SaveInboxEvent(w)
      PROVE  HandlerOver(v, e)' /\ UNCHANGED Outcome(v, e)
  <2>1. /\ Head(queue[w]) \notin inbox[w] /\ UNCHANGED <<processed, effects>>
        /\ inbox' = [inbox EXCEPT ![w] = @ \cup {Head(queue[w])}]
        /\ work'  = [work EXCEPT ![w] = Begin(w, Head(queue[w]))]
    BY <1>5 DEF SaveInboxEvent
  <2>2. e \in inbox'[v]
    BY <1>1, <1>2, <2>1
  <2>3. CASE w = v
    <3>1. work'[v].event = Head(queue[v])
      BY <1>1, <2>1, <2>3 DEF Begin
    <3> QED BY <1>2, <2>1, <2>2, <2>3, <3>1 DEF HandlerOver, Outcome
  <2>4. CASE w # v
    <3>1. work'[v] = work[v]
      BY <1>1, <2>1, <2>4
    <3> QED BY <1>2, <2>1, <2>2, <3>1 DEF HandlerOver, Outcome
  <2> QED BY <2>3, <2>4
<1>6. ASSUME NEW w \in Services, NEW t \in Targets[w], Apply(w, t)
      PROVE  HandlerOver(v, e)' /\ UNCHANGED Outcome(v, e)
  <2>1. /\ effects' = [effects EXCEPT ![w][work[w].event][t] = @ + 1]
        /\ work'    = [work EXCEPT ![w].todo = @ \ {t}]
        /\ UNCHANGED <<inbox, processed>>
    BY <1>6 DEF Apply
  <2>2. work'[v].event = work[v].event
    BY <1>1, <2>1
  <2>3. effects'[v][e] = effects[v][e]
    <3>1. CASE w = v
      BY <1>1, <1>2, <2>1, <3>1
    <3>2. CASE w # v
      BY <1>1, <2>1, <3>2
    <3> QED BY <3>1, <3>2
  <2> QED BY <1>3, <2>1, <2>2, <2>3
<1>12. ASSUME NEW w \in Services, ResolveRecipients(w) \/ ListUserIDsByRoleFails(w)
       PROVE  HandlerOver(v, e)' /\ UNCHANGED Outcome(v, e)
  <2>1. UNCHANGED <<inbox, processed, effects>>
    BY <1>12 DEF ResolveRecipients, ListUserIDsByRoleFails
  <2>2. work'[v].event = work[v].event
    BY <1>12, ResolvedWork DEF IInv
  <2> QED BY <1>3, <2>1, <2>2
<1>7. ASSUME NEW w \in Services, MarkInboxEventProcessed(w)
      PROVE  HandlerOver(v, e)' /\ UNCHANGED Outcome(v, e)
  <2>1. /\ processed' = [processed EXCEPT ![w] = @ \cup {work[w].event}]
        /\ work' = [work EXCEPT ![w] = NoWork] /\ UNCHANGED <<inbox, effects>>
    BY <1>7 DEF MarkInboxEventProcessed
  <2>2. e \in processed'[v] <=> e \in processed[v]
    BY <1>1, <1>2, <2>1
  <2>3. work'[v].event \in {work[v].event, 0}
    BY <1>1, <2>1 DEF NoWork
  <2> QED BY <1>2, <2>1, <2>2, <2>3 DEF HandlerOver, Outcome
<1>8. ASSUME NEW w \in Services,
             ApplyFails(w) \/ MarkInboxEventProcessedFails(w) \/ CrashConsumer(w)
      PROVE  HandlerOver(v, e)' /\ UNCHANGED Outcome(v, e)
  <2>1. work' = [work EXCEPT ![w] = NoWork] /\ UNCHANGED <<inbox, processed, effects>>
    BY <1>8 DEF ApplyFails, MarkInboxEventProcessedFails, CrashConsumer
  <2>2. work'[v].event \in {work[v].event, 0}
    BY <1>1, <2>1 DEF NoWork
  <2> QED BY <1>3, <2>1, <2>2
<1>9. ASSUME NEW w \in Services,
             StartConsumer(w) \/ IgnoreDuplicate(w) \/ SaveInboxEventFails(w)
      PROVE  UNCHANGED consumerVars
  BY <1>9 DEF StartConsumer, IgnoreDuplicate, SaveInboxEventFails
<1>10. ASSUME NEW p \in Publishers,
              \/ Publisher(p) \/ CrashPublisher(p)
              \/ \E f \in Events : MarkAsPublishedFails(p, f)
       PROVE  UNCHANGED consumerVars
  BY <1>10 DEF Publisher, StartPublisher, FetchPendingEvents, Route, Publish, PublishFails,
     MarkAsPublished, CrashPublisher, MarkAsPublishedFails, SkipEvent
<1>11. ASSUME \/ BrokerComesUp \/ BrokerGoesDown \/ UNCHANGED vars
              \/ \E f \in Events : CommitEvent(f)
       PROVE  UNCHANGED consumerVars
  BY <1>11 DEF BrokerComesUp, BrokerGoesDown, CommitEvent, vars, consumerVars
<1> QED BY <1>4, <1>5, <1>6, <1>7, <1>8, <1>9, <1>10, <1>11, <1>12
        DEF Next, Consumer, Misfortune

\* A handler that has ended is never resumed: what it has done for the event is all that
\* will ever be done, whether the effects are complete or an error or a crash cut them
\* short.  A redelivery finds the inbox row and is dropped.
THEOREM HandlerEndsForGood ==
  ASSUME NEW v \in Services, NEW e \in Events, NEW o
  PROVE  Spec => [](HandlerOver(v, e) /\ Outcome(v, e) = o => [](Outcome(v, e) = o))
<1>1. IInv /\ HandlerOver(v, e) /\ Outcome(v, e) = o /\ [Next]_vars
        => HandlerOver(v, e)' /\ (Outcome(v, e) = o)'
  BY HandlerStaysOver
<1> HIDE DEF HandlerOver, Outcome
<1> QED BY <1>1, IInvHolds, PTL DEF Spec

\* The publisher has lost its connection and owes no MarkAsPublished.
CutOff(p) == process[p] = "cut" /\ ~sent[p]

LEMMA StaysCutOff ==
  ASSUME IInv, [Next]_vars, NEW p \in Publishers, CutOff(p), ~CrashPublisher(p)
  PROVE  CutOff(p)'
<1>0. /\ process \in [Publishers \cup Services -> {"down", "connected", "cut"}]
      /\ sent \in [Publishers -> BOOLEAN] /\ p \in Publishers \cup Services
      /\ process[p] = "cut" /\ sent[p] = FALSE
  BY DEF IInv, TypeOK, CutOff
<1>1. ASSUME process'[p] = process[p], sent'[p] = sent[p] \/ sent'[p] = FALSE
      PROVE  CutOff(p)'
  BY <1>0, <1>1 DEF CutOff
<1>2. ASSUME NEW q \in Publishers, NEW f \in Events, Publish(q, f) PROVE CutOff(p)'
  <2>1. q # p /\ process' = process /\ sent' = [sent EXCEPT ![q] = TRUE]
    BY <1>0, <1>2 DEF Publish
  <2> QED BY <1>0, <1>1, <2>1
<1>3. ASSUME NEW q \in Publishers, NEW f \in Events,
             PublishFails(q, f) \/ MarkAsPublished(q, f) \/ MarkAsPublishedFails(q, f)
      PROVE  CutOff(p)'
  <2>1. process' = process /\ sent' = [sent EXCEPT ![q] = FALSE]
    BY <1>3 DEF PublishFails, MarkAsPublished, MarkAsPublishedFails, SkipEvent
  <2> QED BY <1>0, <1>1, <2>1
<1>4. ASSUME NEW q \in Publishers, StartPublisher(q) PROVE CutOff(p)'
  <2>1. q # p /\ sent' = sent /\ process'[p] = process[p]
    BY <1>0, <1>4 DEF StartPublisher, publisherVars
  <2> QED BY <1>1, <2>1
<1>5. ASSUME NEW q \in Publishers, CrashPublisher(q) PROVE CutOff(p)'
  <2>1. q # p /\ sent'[p] = sent[p] /\ process'[p] = process[p]
    BY <1>0, <1>5 DEF CrashPublisher
  <2> QED BY <1>1, <2>1
<1>6. ASSUME NEW q \in Publishers, FetchPendingEvents(q) \/ Route(q) PROVE CutOff(p)'
  BY <1>1, <1>6 DEF FetchPendingEvents, Route, publisherVars
<1>7. ASSUME NEW v \in Services, StartConsumer(v) PROVE CutOff(p)'
  <2>1. sent' = sent /\ process[v] = "down" /\ process' = [process EXCEPT ![v] = "connected"]
    BY <1>7 DEF StartConsumer, publisherVars
  <2>2. v # p
    BY <1>0, <2>1
  <2> QED BY <1>0, <1>1, <2>1, <2>2
<1>8. ASSUME NEW v \in Services, CrashConsumer(v) PROVE CutOff(p)'
  <2>1. sent' = sent /\ process' = [process EXCEPT ![v] = "down"] /\ v # p
    BY <1>8, DeliveryAssumption DEF CrashConsumer, publisherVars
  <2> QED BY <1>0, <1>1, <2>1
<1>9. ASSUME NEW v \in Services,
             \/ SaveInboxEvent(v) \/ IgnoreDuplicate(v) \/ MarkInboxEventProcessed(v)
             \/ SaveInboxEventFails(v) \/ ResolveRecipients(v) \/ ListUserIDsByRoleFails(v)
             \/ ApplyFails(v) \/ MarkInboxEventProcessedFails(v)
             \/ \E t \in Targets[v] : Apply(v, t)
      PROVE  CutOff(p)'
  BY <1>1, <1>9 DEF SaveInboxEvent, IgnoreDuplicate, Apply, MarkInboxEventProcessed,
     SaveInboxEventFails,
     ResolveRecipients, ListUserIDsByRoleFails, ApplyFails, MarkInboxEventProcessedFails,
     publisherVars
<1>10. CASE BrokerGoesDown
  <2>1. sent' = sent /\ process'[p] = process[p]
    BY <1>0, <1>10 DEF BrokerGoesDown, publisherVars
  <2> QED BY <1>1, <2>1
<1>11. CASE BrokerComesUp \/ UNCHANGED vars \/ \E f \in Events : CommitEvent(f)
  BY <1>1, <1>11 DEF BrokerComesUp, CommitEvent, vars, publisherVars
<1> QED BY <1>2, <1>3, <1>4, <1>5, <1>6, <1>7, <1>8, <1>9, <1>10, <1>11
        DEF Next, Publisher, Consumer, Misfortune

\* After an outage the outbox stands still although the broker is back: while every
\* publisher is cut off no further row becomes PUBLISHED, and only the crash of a
\* publisher, which a new process follows, ends it.
THEOREM OutboxStandsStill ==
  Spec => [][(\A p \in Publishers : CutOff(p)) =>
               /\ \A e \in Events : row'[e] = "PUBLISHED" => row[e] = "PUBLISHED"
               /\ \A p \in Publishers : CrashPublisher(p) \/ CutOff(p)']_vars
<1>1. ASSUME IInv, [Next]_vars, \A p \in Publishers : CutOff(p)
      PROVE  /\ \A e \in Events : row'[e] = "PUBLISHED" => row[e] = "PUBLISHED"
             /\ \A p \in Publishers : CrashPublisher(p) \/ CutOff(p)'
  <2>1. row \in [Events -> {"none", "PENDING", "PUBLISHED"}]
    BY <1>1 DEF IInv, TypeOK
  <2>2. ASSUME NEW q \in Publishers, NEW f \in Events PROVE ~MarkAsPublished(q, f)
    BY <1>1 DEF MarkAsPublished, CutOff
  <2>3. row' = row \/ \E f \in Events : row' = [row EXCEPT ![f] = "PENDING"]
    BY <1>1, <2>2, PublisherSteps
  <2>4. \A e \in Events : row'[e] = "PUBLISHED" => row[e] = "PUBLISHED"
    BY <2>1, <2>3
  <2> QED BY <1>1, <2>4, StaysCutOff
<1> QED BY <1>1, IInvHolds, PTL DEF Spec
=============================================================================
