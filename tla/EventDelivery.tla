---------------------------- MODULE EventDelivery ----------------------------
(***************************************************************************)
(* The asynchronous path of campus-flow: outbox_events in the database of  *)
(* the producing service, the outbox publisher, the RabbitMQ topic         *)
(* exchange, and a consuming service with its durable queue, its           *)
(* inbox_events table and the effects it has for an event (notification-   *)
(* service: one notification per recipient; reporting-service: one         *)
(* snapshot upsert).                                                       *)
(*                                                                         *)
(* Events are numbered by created_at, the order in which the publisher     *)
(* reads them; transactions may commit them in any order.                  *)
(*                                                                         *)
(* A process is down, connected, or cut: alive, but with an AMQP           *)
(* connection that is closed for good.  Nothing in the services dials      *)
(* again: only a new process gets a new connection.  The channel is not in *)
(* confirm mode: Publish succeeds once the frame is on the socket (wire),  *)
(* and an exchange drops what it receives for a queue nobody has declared. *)
(*                                                                         *)
(* Some recipients are named in the event, others (the Kaprodi) the        *)
(* consumer has to look up by role with a call to auth-service.  A call    *)
(* that fails is no error of the handler: it goes on with those named.     *)
(***************************************************************************)
EXTENDS Integers, FiniteSets, Sequences, SequencesExt

CONSTANTS
  NumEvents,    \* how many rows the outbox ever holds
  Publishers,   \* replicas of the producing service
  Services,     \* consuming services, one process each
  Targets,      \* Targets[svc]: the effects svc may have for an event
  Recipients,   \* Recipients[svc][e]: those it should have for e
  ByRole,       \* the targets that are not in the event but looked up by role
  Provisioned,  \* services whose queue exists before the story begins
  BatchSize,    \* LIMIT of FetchPendingEvents                        (20)
  MaxFaults,    \* bound on crashes, database errors and failed handlers
  MaxOutages    \* bound on losses of the broker

ASSUME DeliveryAssumption ==
  /\ NumEvents \in Nat /\ BatchSize \in Nat \ {0}
  /\ MaxFaults \in Nat /\ MaxOutages \in Nat
  /\ Provisioned \subseteq Services
  /\ Services \cap Publishers = {}
  /\ \A v \in Services : \A e \in 1 .. NumEvents : Recipients[v][e] \subseteq Targets[v]

Events == 1 .. NumEvents

VARIABLES
  row,        \* outbox_events.status, "none" before the commit
  process,    \* of each publisher and each consumer
  batch,      \* the fetched events a publisher has not dealt with yet
  sent,       \* TRUE between Publish and MarkAsPublished of the first of them
  wire,       \* frames written by a publisher the broker has not read yet
  brokerUp,
  declared,   \* the services whose queue exists
  queue,      \* the durable queues, unacknowledged deliveries included
  inbox,      \* event ids in inbox_events
  processed,  \* ... with processed_at set
  degraded,   \* the events whose look-up by role has failed
  work,       \* the delivery a consumer is handling, whom it has still to look
              \* up (ask) and the effects to go
  effects,    \* how often each effect has happened
  faults, outages

publisherVars == <<batch, sent>>
brokerVars    == <<brokerUp, declared, queue>>
consumerVars  == <<inbox, processed, degraded, work, effects>>
faultVars     == <<faults, outages>>
vars == <<row, process, batch, sent, wire, brokerUp, declared, queue,
          inbox, processed, degraded, work, effects, faults, outages>>

NoWork == [event |-> 0, ask |-> {}, todo |-> {}]

Init ==
  /\ row       = [e \in Events |-> "none"]
  /\ process   = [x \in Publishers \cup Services |-> "down"]
  /\ batch     = [p \in Publishers |-> {}]
  /\ sent      = [p \in Publishers |-> FALSE]
  /\ wire      = [p \in Publishers |-> <<>>]
  /\ brokerUp  = TRUE
  /\ declared  = Provisioned
  /\ queue     = [v \in Services |-> <<>>]
  /\ inbox     = [v \in Services |-> {}]
  /\ processed = [v \in Services |-> {}]
  /\ degraded  = [v \in Services |-> {}]
  /\ work      = [v \in Services |-> NoWork]
  /\ effects   = [v \in Services |-> [e \in Events |-> [t \in Targets[v] |-> 0]]]
  /\ faults    = 0
  /\ outages   = 0

\* A business transaction commits its outbox row.
CommitEvent(e) ==
  /\ row[e] = "none"
  /\ row' = [row EXCEPT ![e] = "PENDING"]
  /\ UNCHANGED <<process, publisherVars, wire, brokerVars, consumerVars, faultVars>>

Fault == faults < MaxFaults /\ faults' = faults + 1 /\ outages' = outages

-----------------------------------------------------------------------------
(* The outbox publisher.                                                   *)

\* Without a broker the service starts all the same, with no publisher.
StartPublisher(p) ==
  /\ process[p] = "down"
  /\ process' = [process EXCEPT ![p] = IF brokerUp THEN "connected" ELSE "cut"]
  /\ UNCHANGED <<row, publisherVars, wire, brokerVars, consumerVars, faultVars>>

Pending == {e \in Events : row[e] = "PENDING"}

\* Faulty: one row too few.
FetchOneLess(p) ==
  /\ process[p] = "connected"
  /\ batch[p] = {}
  /\ Pending # {}
  /\ batch' = [batch EXCEPT ![p] =
                 {e \in Pending : Cardinality({f \in Pending : f <= e}) < BatchSize}]
  /\ UNCHANGED <<row, process, sent, wire, brokerVars, consumerVars, faultVars>>

\* The first BatchSize pending rows; the rows are not locked.
FetchPendingEvents(p) ==
  /\ process[p] = "connected"
  /\ batch[p] = {}
  /\ Pending # {}
  /\ batch' = [batch EXCEPT ![p] =
                 {e \in Pending : Cardinality({f \in Pending : f < e}) < BatchSize}]
  /\ UNCHANGED <<row, process, sent, wire, brokerVars, consumerVars, faultVars>>

\* The event of the batch whose turn it is.
Current(p, e) == e \in batch[p] /\ \A f \in batch[p] : e <= f

Publish(p, e) ==
  /\ Current(p, e)
  /\ ~sent[p]
  /\ process[p] = "connected"
  /\ wire' = [wire EXCEPT ![p] = Append(@, e)]
  /\ sent' = [sent EXCEPT ![p] = TRUE]
  /\ UNCHANGED <<row, process, batch, brokerVars, consumerVars, faultVars>>

\* "continue": the event stays PENDING for a later tick.
SkipEvent(p, e) ==
  /\ batch' = [batch EXCEPT ![p] = @ \ {e}]
  /\ sent'  = [sent EXCEPT ![p] = FALSE]
  /\ UNCHANGED <<row, process, wire, brokerVars, consumerVars>>

\* On a closed channel Publish always fails.
PublishFails(p, e) ==
  /\ Current(p, e)
  /\ ~sent[p]
  /\ process[p] = "cut"
  /\ SkipEvent(p, e)
  /\ UNCHANGED faultVars

MarkAsPublished(p, e) ==
  /\ Current(p, e)
  /\ sent[p]
  /\ row'   = [row EXCEPT ![e] = "PUBLISHED"]
  /\ batch' = [batch EXCEPT ![p] = @ \ {e}]
  /\ sent'  = [sent EXCEPT ![p] = FALSE]
  /\ UNCHANGED <<process, wire, brokerVars, consumerVars, faultVars>>

MarkAsPublishedFails(p, e) ==
  /\ Current(p, e)
  /\ sent[p]
  /\ SkipEvent(p, e)
  /\ Fault

CrashPublisher(p) ==
  /\ process[p] # "down"
  /\ process' = [process EXCEPT ![p] = "down"]
  /\ batch'   = [batch EXCEPT ![p] = {}]
  /\ sent'    = [sent EXCEPT ![p] = FALSE]
  /\ Fault
  /\ UNCHANGED <<row, wire, brokerVars, consumerVars>>

-----------------------------------------------------------------------------
(* The broker.                                                             *)

\* The exchange routes a frame to every queue bound to it.
Route(p) ==
  /\ brokerUp
  /\ wire[p] # <<>>
  /\ queue' = [v \in Services |->
                 IF v \in declared THEN Append(queue[v], Head(wire[p])) ELSE queue[v]]
  /\ wire' = [wire EXCEPT ![p] = Tail(@)]
  /\ UNCHANGED <<row, process, publisherVars, brokerUp, declared, consumerVars,
                 faultVars>>

\* Durable queues and persistent messages survive; connections and the frames
\* under way do not.
BrokerGoesDown ==
  /\ brokerUp
  /\ outages < MaxOutages
  /\ outages'  = outages + 1
  /\ brokerUp' = FALSE
  /\ process'  = [x \in Publishers \cup Services |->
                    IF process[x] = "connected" THEN "cut" ELSE process[x]]
  /\ wire'     = [p \in Publishers |-> <<>>]
  /\ UNCHANGED <<row, publisherVars, declared, queue, consumerVars, faults>>

BrokerComesUp ==
  /\ ~brokerUp
  /\ brokerUp' = TRUE
  /\ UNCHANGED <<row, process, publisherVars, wire, declared, queue, consumerVars,
                 faultVars>>

-----------------------------------------------------------------------------
(* A consumer.  Without a broker it does not start (log.Fatalf).           *)

StartConsumer(v) ==
  /\ process[v] = "down"
  /\ brokerUp
  /\ process'  = [process EXCEPT ![v] = "connected"]
  /\ declared' = declared \cup {v}
  /\ UNCHANGED <<row, publisherVars, wire, brokerUp, queue, consumerVars, faultVars>>

\* Ack, or Nack without requeue: the broker forgets the delivery.  Over a
\* closed connection neither arrives and the delivery is still queued.
Forget(v) ==
  queue' = IF process[v] = "connected" THEN [queue EXCEPT ![v] = Tail(@)] ELSE queue

\* Nack with requeue: the event comes again, after those already prefetched.
Requeue(v) ==
  IF process[v] = "connected"
  THEN \E i \in 1 .. Len(queue[v]) :
         queue' = [queue EXCEPT ![v] = InsertAt(Tail(@), i, Head(@))]
  ELSE queue' = queue

Receives(v) == process[v] = "connected" /\ work[v] = NoWork /\ queue[v] # <<>>

\* The handler of an event begins: those it names are known, the others are asked for.
Begin(v, e) == [event |-> e,
                ask   |-> Recipients[v][e] \cap ByRole,
                todo  |-> Recipients[v][e] \ ByRole]

\* Faulty: the insert does not tell a new event from a duplicate.
SaveInboxEventBlindly(v) ==
  /\ Receives(v)
  /\ inbox' = [inbox EXCEPT ![v] = @ \cup {Head(queue[v])}]
  /\ work'  = [work EXCEPT ![v] = Begin(v, Head(queue[v]))]
  /\ UNCHANGED <<row, process, publisherVars, wire, brokerVars, processed, degraded,
                 effects, faultVars>>

SaveInboxEvent(v) ==
  /\ Receives(v)
  /\ Head(queue[v]) \notin inbox[v]
  /\ inbox' = [inbox EXCEPT ![v] = @ \cup {Head(queue[v])}]
  /\ work'  = [work EXCEPT ![v] = Begin(v, Head(queue[v]))]
  /\ UNCHANGED <<row, process, publisherVars, wire, brokerVars, processed, degraded,
                 effects, faultVars>>

IgnoreDuplicate(v) ==
  /\ Receives(v)
  /\ Head(queue[v]) \in inbox[v]
  /\ Forget(v)
  /\ UNCHANGED <<row, process, publisherVars, wire, brokerUp, declared, consumerVars,
                 faultVars>>

\* Faulty: Nack without requeue.
SaveInboxEventFailsForGood(v) ==
  /\ Receives(v)
  /\ Forget(v)
  /\ Fault
  /\ UNCHANGED <<row, process, publisherVars, wire, brokerUp, declared, consumerVars>>

SaveInboxEventFails(v) ==
  /\ Receives(v)
  /\ Requeue(v)
  /\ Fault
  /\ UNCHANGED <<row, process, publisherVars, wire, brokerUp, declared, consumerVars>>

\* auth-service answers: the users of the role are recipients too.
ResolveRecipients(v) ==
  /\ work[v].ask # {}
  /\ work' = [work EXCEPT ![v].todo = @ \cup work[v].ask, ![v].ask = {}]
  /\ UNCHANGED <<row, process, publisherVars, wire, brokerVars, inbox, processed,
                 degraded, effects, faultVars>>

\* It does not: a line in the log, and the handler goes on with the others.
ListUserIDsByRoleFails(v) ==
  /\ work[v].ask # {}
  /\ work'     = [work EXCEPT ![v].ask = {}]
  /\ degraded' = [degraded EXCEPT ![v] = @ \cup {work[v].event}]
  /\ Fault
  /\ UNCHANGED <<row, process, publisherVars, wire, brokerVars, inbox, processed,
                 effects>>

\* One CreateNotification, or the snapshot upsert: a statement of its own.
Apply(v, t) ==
  /\ work[v].ask = {}
  /\ t \in work[v].todo
  /\ effects' = [effects EXCEPT ![v][work[v].event][t] = @ + 1]
  /\ work'    = [work EXCEPT ![v].todo = @ \ {t}]
  /\ UNCHANGED <<row, process, publisherVars, wire, brokerVars, inbox, processed,
                 degraded, faultVars>>

\* Faulty: the error is logged and the handler goes on.
ApplyFailsUnnoticed(v) ==
  /\ work[v].event # 0
  /\ work[v].ask = {}
  /\ work[v].todo # {}
  /\ work' = [work EXCEPT ![v].todo = {}]
  /\ Fault
  /\ UNCHANGED <<row, process, publisherVars, wire, brokerVars, inbox, processed,
                 degraded, effects>>

\* The first error ends the handler; the delivery is discarded.
ApplyFails(v) ==
  /\ work[v].event # 0
  /\ work[v].ask = {}
  /\ work[v].todo # {}
  /\ Forget(v)
  /\ work' = [work EXCEPT ![v] = NoWork]
  /\ Fault
  /\ UNCHANGED <<row, process, publisherVars, wire, brokerUp, declared, inbox,
                 processed, degraded, effects>>

\* Faulty: the delivery is cleared before its id is used.
MarkInboxEventProcessedLate(v) ==
  /\ work[v].event # 0
  /\ work[v].ask = {} /\ work[v].todo = {}
  /\ Forget(v)
  /\ work' = [work EXCEPT ![v] = NoWork]
  /\ processed' = [processed EXCEPT ![v] = @ \cup {work'[v].event}]
  /\ UNCHANGED <<row, process, publisherVars, wire, brokerUp, declared, inbox,
                 degraded, effects, faultVars>>

MarkInboxEventProcessed(v) ==
  /\ work[v].event # 0
  /\ work[v].ask = {} /\ work[v].todo = {}
  /\ processed' = [processed EXCEPT ![v] = @ \cup {work[v].event}]
  /\ Forget(v)
  /\ work' = [work EXCEPT ![v] = NoWork]
  /\ UNCHANGED <<row, process, publisherVars, wire, brokerUp, declared, inbox,
                 degraded, effects, faultVars>>

MarkInboxEventProcessedFails(v) ==
  /\ work[v].event # 0
  /\ work[v].ask = {} /\ work[v].todo = {}
  /\ Requeue(v)
  /\ work' = [work EXCEPT ![v] = NoWork]
  /\ Fault
  /\ UNCHANGED <<row, process, publisherVars, wire, brokerUp, declared, inbox,
                 processed, degraded, effects>>

CrashConsumer(v) ==
  /\ process[v] # "down"
  /\ process' = [process EXCEPT ![v] = "down"]
  /\ work'    = [work EXCEPT ![v] = NoWork]
  /\ Fault
  /\ UNCHANGED <<row, publisherVars, wire, brokerVars, inbox, processed, degraded, effects>>

-----------------------------------------------------------------------------
Publisher(p) ==
  \/ StartPublisher(p)
  \/ FetchPendingEvents(p)
  \/ Route(p)
  \/ \E e \in Events : Publish(p, e) \/ PublishFails(p, e) \/ MarkAsPublished(p, e)

Consumer(v) ==
  \/ StartConsumer(v)
  \/ SaveInboxEvent(v)
  \/ IgnoreDuplicate(v)
  \/ ResolveRecipients(v)
  \/ \E t \in Targets[v] : Apply(v, t)
  \/ MarkInboxEventProcessed(v)

Misfortune ==
  \/ BrokerGoesDown
  \/ \E p \in Publishers :
       \/ CrashPublisher(p)
       \/ \E e \in Events : MarkAsPublishedFails(p, e)
  \/ \E v \in Services :
       \/ CrashConsumer(v)
       \/ SaveInboxEventFails(v)
       \/ ListUserIDsByRoleFails(v)
       \/ ApplyFails(v)
       \/ MarkInboxEventProcessedFails(v)

Next ==
  \/ \E e \in Events : CommitEvent(e)
  \/ \E p \in Publishers : Publisher(p)
  \/ \E v \in Services : Consumer(v)
  \/ BrokerComesUp
  \/ Misfortune

Spec == Init /\ [][Next]_vars

\* Processes that are alive keep working, a dead process is started again, a
\* broker that is down comes back.  Nothing makes a transaction commit and
\* nothing restarts a process that only lost its connection.
FairSpec ==
  /\ Spec
  /\ WF_vars(BrokerComesUp)
  /\ \A p \in Publishers :
       /\ WF_vars(StartPublisher(p) \/ FetchPendingEvents(p))
       /\ WF_vars(Route(p))
       /\ WF_vars(\E e \in Events :
                    Publish(p, e) \/ PublishFails(p, e) \/ MarkAsPublished(p, e))
  /\ \A v \in Services : WF_vars(Consumer(v))

-----------------------------------------------------------------------------
\* Every variable stays in its type.
TypeOK ==
  /\ row       \in [Events -> {"none", "PENDING", "PUBLISHED"}]
  /\ process   \in [Publishers \cup Services -> {"down", "connected", "cut"}]
  /\ batch     \in [Publishers -> SUBSET Events]
  /\ sent      \in [Publishers -> BOOLEAN]
  /\ wire      \in [Publishers -> Seq(Events)]
  /\ brokerUp  \in BOOLEAN
  /\ declared  \in SUBSET Services
  /\ queue     \in [Services -> Seq(Events)]
  /\ inbox     \in [Services -> SUBSET Events]
  /\ processed \in [Services -> SUBSET Events]
  /\ degraded  \in [Services -> SUBSET Events]
  /\ DOMAIN work = Services /\ DOMAIN effects = Services
  /\ \A v \in Services :
       /\ work[v] \in [event : Events \cup {0}, ask : SUBSET Targets[v],
                       todo : SUBSET Targets[v]]
       /\ effects[v] \in [Events -> [Targets[v] -> Nat]]
  /\ faults \in 0 .. MaxFaults /\ outages \in 0 .. MaxOutages

\* The path implements the channel: only committed events have effects, and
\* a republished event (MarkAsPublished failed, two replicas fetched the same
\* row), a redelivery after a crash or a requeue never doubles one.
Channel == INSTANCE EventChannel
  WITH committed <- {e \in Events : row[e] # "none"}, done <- effects

ImplementsChannel == Channel!Spec

\* The same as an invariant: no effect ever happens twice.
AtMostOnce ==
  \A v \in Services : \A e \in Events : \A t \in Targets[v] : effects[v][e][t] <= 1

\* The recipients an event can have: after a look-up that failed, those it names.
Reachable(v, e) ==
  IF e \in degraded[v] THEN Recipients[v][e] \ ByRole ELSE Recipients[v][e]

\* What an inbox row with processed_at set stands for: every recipient was notified,
\* once, and nobody else; the snapshot was taken.  Only a look-up that failed
\* (ListUserIDsByRole, auth_client.go:43) leaves recipients out, all those of the role
\* and none of those the event names.
ProcessedMeansDone ==
  \A v \in Services : \A e \in processed[v] :
    /\ e \in inbox[v]
    /\ \A t \in Targets[v] : effects[v][e][t] = IF t \in Reachable(v, e) THEN 1 ELSE 0

InSequence(e, seq) == \E i \in DOMAIN seq : seq[i] = e

\* "At-least-once delivery, without losing data when the broker is down": a
\* published event is on its way to, or has reached, every service.
PublishedNotLost ==
  \A e \in Events : row[e] = "PUBLISHED" =>
    \A v \in Services :
      \/ \E p \in Publishers : InSequence(e, wire[p])
      \/ InSequence(e, queue[v])
      \/ e \in inbox[v]

\* Every committed event eventually reaches the inbox of every service.
EveryEventArrives ==
  \A e \in Events : row[e] # "none" ~> \A v \in Services : e \in inbox[v]

\* Every committed event eventually has the effects it should have.
EveryEventHandled ==
  \A e \in Events : row[e] # "none" ~>
    \A v \in Services : \A t \in Recipients[v][e] : effects[v][e][t] = 1
=============================================================================
