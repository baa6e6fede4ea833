# campus-flow: specifications

TLA+ specifications of campus-flow, the TLC runs that check them on small
instances and the TLAPS proofs that hold for every instance. Paths are relative
to the repository. `AS/` stands for `apps/services/academic-service/internal/`.

To repeat everything, in this directory:

```
tlc -workers 2 -config AcademicWorkflow.cfg MCAcademicRequests.tla   # one run
tlapm AcademicRequests_proofs.tla                                    # one proof
```

`PROJECT.json` lists the runs with their modules and configurations, the mutants
(each property of a passing run fails when a named definition is replaced by a
plausible bug), the lines of the code each definition models, and the hazards.

## 1. The system

campus-flow serves the requests of students to their department: letters and
permits ("academic requests") and thesis supervisors ("supervisor requests").

| Part | State | Operations |
| --- | --- | --- |
| api-gateway | routes with their roles, rate limiter counters in memory | HTTP to gRPC, authentication through auth-service, roles |
| auth-service | users, refresh tokens, reset tokens, outbox | register, login, refresh, logout, password change and reset, user administration |
| academic-service | requests, histories, approvals, supervisor choices and assignments, lecturers, thesis progress, consultation slots and bookings, guidance logs, final documents, delegations, announcements, ..., outbox | the two workflows and the rest; workers: outbox publisher, SLA reminder, consultation reminder, stuck-thesis warning, user-registered consumer |
| file-service | metadata of files, outbox | register, list |
| RabbitMQ | topic exchange `campusflow.events`, one durable queue per consumer | route, redeliver |
| notification-service | inbox, notifications | consume events, list, mark read |
| reporting-service | inbox, one snapshot row per request | consume events, dashboards, workload |
| web | per browser: two tokens and a user in local storage; per tab: the page, what it shows, the async functions under way | sign-in, sign-out, refresh; 47 pages that load lists, offer acts and reload |

**How they interact.** The web frontend calls the gateway, the gateway calls the
services over gRPC. Each service has a PostgreSQL database of its own. A
transaction that moves a request writes an `outbox_events` row; a worker of the
same service polls the pending rows every three seconds, publishes them and
marks them published. notification-service and reporting-service consume them,
each with an `inbox_events` table against duplicates. The web frontend is told of
nothing: a page asks again after an act of its own, and otherwise shows what it
last read.

**What is hard.**

- Handlers are concurrent database sessions. The workflow handlers serialise on
  `SELECT ... FOR UPDATE`, but some conditions (ownership) are read outside the
  transaction, `NOW()` is fixed at its begin, and supervisor handlers take two
  locks. Other parts (consultation, guidance logs, final documents, tokens) take
  no lock at all.
- Workers may run in several replicas. The reminder worker uses
  `FOR UPDATE SKIP LOCKED`; the outbox publisher locks nothing.
- Delivery crosses two databases and a broker without confirms or reconnects.
  Each of the steps save-inbox, act, mark, acknowledge is separate, and so is
  every notification.
- The read model takes events in the order of `created_at`, which is not the
  order in which transactions commit, and compares no version.
- A page runs several async functions at once. Their answers land in any order,
  the row under them is moved by others, and the reload after an act runs in a
  closure that was made before it. Who may call what is written down four times:
  in the routes, in the pages, in the menu and in the conditions of the buttons.
- The tabs of a browser share one storage without a lock, and auth-service takes
  a refresh token apart in three statements.

**What makes each part correct.**

- *Requests*: moves along the transition table only; one history row, one event
  and the right timestamp per move; three desks in order; only the owner acts
  for the owner; what is decided is what was submitted.
- *Reminders*: spaced, and never after the end of a request.
- *Supervisors*: the quota is never exceeded by an assignment; assignments agree
  with the status; no deadlock; progress exists once a request is completed.
- *Delivery*: every published event is handled, none twice.
- *Reporting*: the dashboards show what academic-service would say.
- *Consultation*: what breaks the capacity of a slot, leaves a booking on a
  cancelled one or reopens a closed booking is one of a few named races, never a
  sequence of calls that run after each other.
- *Sessions*: after a password change only what was under way survives; a browser
  holds one session, of the user it names.
- *Portal*: nobody is offered what is refused; an act fits the row it was offered
  for; a page that has come to rest shows the database; nothing is stranded.

## 2. The modules

| Module | What it is | Code |
| --- | --- | --- |
| `Transitions` | the two transition tables, `CanTransition`, `AllowedFrom` | `AS/service/transitions.go` |
| `RequestLifecycle` | abstract: items are born in one status and move along a table | none |
| `AcademicRequests` | academic requests and the SLA reminder worker | `AS/service/academic_service.go`, `AS/repository/academic_repository.go`, `AS/worker/sla_reminder.go` |
| `SupervisorRequests` | supervisor requests, with locks and quota | `AS/service/supervisor_service.go`, `AS/repository/supervisor_repository.go` |
| `EventChannel` | abstract: an effect happens at most once and only for a committed event | none |
| `EventDelivery` | outbox, publisher, broker, inbox, consumer | `AS/worker/outbox_publisher.go`, `AS/repository/outbox_repository.go`, `AS/messaging/rabbitmq_publisher.go`, the consumers of notification-service and reporting-service |
| `ReportingProjection` | the snapshots, when nothing fails | `reporting-service/internal/` worker and repository |
| `RequestReporting` | `AcademicRequests` composed with `ReportingProjection` | both |
| `SupervisorReporting` | `SupervisorRequests` composed with `ReportingProjection` | both |
| `Consultation` | slots, bookings and the reminder worker, statement by statement | `AS/service/consultation_svc.go`, `AS/repository/consultation_repo.go`, `AS/worker/consultation_reminder.go` |
| `WebSession` | the stored session of a browser and the grants of auth-service | `apps/web/src/lib/api.ts`, `lib/auth-storage.ts`, the sign-in, profile and reset pages; `auth-service/internal/` service and repository |
| `WebApi` | every call of the web client: method, route, tables read and written | `apps/web/src/lib/*-api.ts` |
| `GatewayRoutes` | every route with the roles it admits | `api-gateway/cmd/server/main.go`, `middleware/auth_middleware.go` |
| `RowLifecycles` | the five kinds of rows with a status, and which call moves them from where | the handlers of academic-service |
| `WebParts` | what a page and an act are; the components pages share | `apps/web/src/components/` |
| `WebStudentPages`, `WebLecturerPages`, `WebAdminPages`, `WebOfficePages` | the pages, as records | `apps/web/src/app/` |
| `WebPages` | all pages, the menus, the dashboards of the roles; who can take a row further | `components/layout/app-shell.tsx`, `lib/role-redirect.ts` |
| `WebTables` | what the tables of pages, calls and routes owe each other, as assumptions TLC evaluates | none |
| `WebPortal` | one tab on these pages, against the gateway and the services | all of the above |
| `MC...` | constants and symmetry for TLC | none |
| `..._proofs` | theorems | none |

`AcademicRequests` and `SupervisorRequests` implement `RequestLifecycle`;
`EventDelivery` implements `EventChannel`. Definitions whose comment begins with
`Faulty:` are not part of any specification: each is the bug that a mutant puts
in the place of the definition after it.

### AcademicRequests

A variable per column or table: `status`, `owner`, `title` (all editable
fields), `stamp` (the four timestamps of the SLA tracking), `dueAt`, `warnedAt`,
and per request the sequences `history`, `approvals`, `outbox` in commit order.
`call[s]` is what session `s` is doing.

A handler is two steps. Up to `BEGIN` it validates and, for the owner's
operations, reads ownership; `NOW()` is fixed here (`at`). Then it locks the row,
checks, writes and commits. The second part is one step, because a locked row
cannot be touched by others and uncommitted writes are invisible. `Rollback` ends
any call without a trace: a failed check, an SQL error, a cancelled context, a
crash. So a failing guard is a `Rollback`, not a blocked action.

| Action | Code |
| --- | --- |
| `VerifyAcademicRequest` ... `CancelAcademicRequest` | the methods of the same name, through `workflowAction` |
| `UpdateAcademicRequestStatus` | the repository method: status, timestamp, history, approval, event |
| `SubmitAcademicRequest`, `ResubmitAcademicRequest` | resubmission, service and repository part |
| `UpdateAcademicRequest`, `UpdateAcademicRequestFields` | editing, service and repository part |
| `CreateAcademicRequest`, `InsertAcademicRequest` | creation, service and repository part |
| `StartScan`, `scanAndEmit` | one scan of the reminder worker |

### SupervisorRequests

As above, with explicit row locks (`held`, `shares`), because two of the
transactions take two and a third takes key-share locks through a foreign key.
`LockAndCheck` is one `SELECT ... FOR UPDATE` with the checks that follow it;
`CommitAssignment`, `CommitRejection` and `CommitAcceptance` are the writes.
Acceptance completes the request in the same commit and then goes on to
`InitializeProgress` in a second transaction. `UpsertLecturer` and
`SetLecturerStatus` change quota and status at any time the lock allows.
`NOW()` is the variable `clock`; no handler looks at it, so it moves only in
`SupervisorReporting`, where the order of the stamps matters.

### EventDelivery

Events are numbered by `created_at`. A process is `down`, `connected` or `cut`
(alive with a closed connection; nothing dials again). `wire` holds frames a
publisher has written and the broker has not read: they die in an outage. A
publisher fetches, publishes, marks, each step separately, and each may fail. A
consumer saves the inbox row, looks up the recipients the event does not name
(`ResolveRecipients`), has its effects one by one, marks the row and
acknowledges. The look-up is a call to auth-service for the users of a role
(`ByRole`), and its failure (`ListUserIDsByRoleFails`) is no failure of the handler:
it goes on without them, and `degraded` remembers for which event. Every other failure is the action of that name (`SaveInboxEventFails`,
`ApplyFails`, ...) with the code's `Nack`.

### ReportingProjection and its compositions

Here delivery is perfect and the contents matter. The publisher takes the
pending rows in the order of `at`; equal times may come in either order. The
upsert replaces the snapshot. The compositions add that two transactions never
begin at the same instant (`FreshInstant`): the resolution is a microsecond, so
only events of one transaction share a time.

### Consultation

A handler is a check and one or two statements, each a step; between any two
everything else may happen, and the call may end (`Fail`). `call[p]` keeps what
the check has read, so a property can say that it is out of date by the time of
the write. `BeginUpdate` is the read of a booking with the condition on its
status; `UpdateBookingStatus` writes whatever the status is by then. The lecturer
is one, time is counted in such units that a booking must be `BookAhead` of them (twelve
hours) ahead,
and two slots overlap when they start together.

### WebSession

`storage[b]` is the local storage of browser `b`; `call[t]` the request of tab
`t`, from the click to the last write; `grant` the sequence of what auth-service
has handed out, an access and a refresh token each. `Send` to `CallFails` are
`apiFetch`: a first 401 leads to `tryRefreshToken`, a second one signs out.
`FindValidRefreshToken`, `RevokeRefreshToken` and `CreateRefreshToken` are the
three statements of a rotation; `LandRefresh` keeps the access token of the
answer only, as `lib/api.ts:34` does. `UpdatePassword` and `Revoke` are the two
statements of a change or a reset; the failure of the second is dropped.
`spared` is no state of the code: it marks a grant asked for before a revocation
and handed out after it.

### The portal

A page is a record (`WebParts!Page`): the roles it lets in, its loads in stages,
its acts, its links. An act says where its button is, which flag disables it,
what it calls, what it reloads and for which statuses of the row it is rendered.
The page modules are these records, one per `page.tsx`. `WebPortal` runs them:
`running` is the async functions under way. The server answers a call
(`ServeRead`, `ServeStep`, `Succeed`) at some moment, and the answer lands later
(`Land`), in any order. `FailAct`, `FailLoad` and `LoseAnswer` are a refusal, an
error and an answer that does not arrive after the call took effect. A dialog keeps
the user from the rest of the page, the bar over selected rows does not. The
bulk decision of the Kaprodi is followed (`follow`): its dialog stays open to show
the progress, and it is closing the dialog (`CloseProgress`), at any moment, that
reloads the list. What a page
shows of an answer is whether it is still what the database says (`fresh`,
`stale`), by the tables a call reads and writes; and the status of one row of the
list, which `OthersMove` moves. `disturbed` is set when something failed, came in
the wrong order, or took effect with its progress dialog closed, after which the
page promises nothing. The milestones of a department are asked for once the
departments are there (`Ready`), and not at all if there are none (`LandEmpty`).

## 3. The runs

| Run | Checks | Bounds |
| --- | --- | --- |
| `academic_workflow` | type, `HistoryIsAPath`, `EventsMirrorHistory`, `StampsMatchStatus`, `ApprovalChain`, `OnlyTheOwner`, `ReviewedAsSubmitted`, refinement `FollowsLifecycle` | 1 request, 2 students (owner and stranger), 2 contents, 2 sessions, 6 transitions, clock 0..1 |
| `academic_reminders` | `WarningsSpaced`, `NoWarningOnceClosed` | 1 request, 2 sessions, 2 transitions, clock 0..5 past the reminder window |
| `supervisor_workflow` | type, `AssignmentsMatchStatus`, `NoCircularWait`, `NoOverAssignment`, refinement `FollowsLifecycle` | 2 requests, 2 lecturers, quotas 0 and 1, 2 sessions, 5 history rows |
| `delivery_safety` | type, `AtMostOnce`, `ProcessedMeansDone`, refinement `ImplementsChannel` | 2 events, 2 publishers, 1 consumer with an undeclared queue, 1 event for student and lecturer, 1 for student and Kaprodi (looked up), 1 fault, 1 outage |
| `delivery_live` | `PublishedNotLost`, `EveryEventArrives` | 2 events, batches of 1, 2 faults, no outage, queue declared |
| `dashboard_ordered` | `OrderedIsShown`, `OrderedNeverGoesBack`, `OrderedEndIsShown` | 1 request, 2 sessions, 4 transitions, clock 0..3 |
| `workload_in_sequence` | `WorkloadIsQuotaUsed` | 1 request, 2 lecturers, 1 session, 7 history rows, clock 0..5 |
| `consultation` | type, `ReopenedOnlyByStale`, `OverbookedOnlyByRace`, `OrphansOnlyByRace` | 2 slots, 2 students, 2 calls at a time, 4 calls, places 1 and 2, clock 0..4 of 4 to a day |
| `web_session` | type, `SurvivorsWereUnderWay`, `MixedOnlyByLateRefresh`, `RenewedOnce`; the assumptions of `WebTables` | 2 tabs of 1 browser, 2 users, 3 grants, 1 of password change, expiry, block |
| `web_portal` | type, `CallsAdmitted`, `LinksLead`, `PageSettles`, `SkeletonEnds`, `OffersFit`, `NobodyStuck` | all roles, all pages, 1 row, 2 clicks or moves per visit |
| `delivery_crash_loses_notification` | violates `EveryEventHandled` | 1 event, 1 crash, fair |
| `dashboard_concurrent` | violates `DashboardShowsStatus` | 1 request, 2 sessions, 3 transitions |

**Why the bounds suffice.** Requests do not interact with each other in
`AcademicRequests`: no action reads a row of another, so one is enough; the
proofs cover any number. Every race there is between two sessions on one row.
Six transitions are a full life with a revision round (submit, return, resubmit,
verify, approve, complete). Requests meet in `SupervisorRequests` only at a
lecturer's quota, where two compete; five history rows allow submit, verify,
assign, and then accept with its two rows or reject and reassign. A lock circle
of the two-lock transactions needs two sessions. `workload_in_sequence` goes on
to seven rows, an acceptance after a reassignment. In
`dashboard_ordered` two sessions on four instants already commit in the opposite
order of their beginning, with reminders in between. One session takes a
supervisor request through all its moves; what two of them do to the workload is
proved (section 4). A doubled effect needs two
copies of one event: two publishers, or one that fails to mark. `BatchSize` 1
with two events makes a batch cut off a pending row. In `Consultation` every
race is one call between the check and the write of another: two at a time, and
four calls make a booking, move it, accept the move and cancel the slot under it. In
`WebSession` three grants are two logins and a refresh, or a login and two
refreshes. In `WebPortal` two clicks suffice for an act and a reload, two acts or
an act and a move by others to be under way together; a page is left only at
rest, so visits do not interact.

**What the violations show.** Both are described under "findings" in
`PROJECT.json` with the sentence of the documentation they contradict.

1. `delivery_crash_loses_notification`: after a crash between the inbox row and
   the notification the redelivery is acknowledged as a duplicate
   (`notification_consumer.go:103`).
2. `dashboard_concurrent`: the transaction that began first commits last, its
   event is numbered first, and the dashboard stays at the other one.

Two more facts are in the models and have no run of their own. The channel is not
in confirm mode (`AS/messaging/rabbitmq_publisher.go:56`), so an event marked
PUBLISHED whose frame the broker had not read is lost with the connection:
`PublishedNotLost` fails with `MaxOutages = 1`. And the thesis progress is made in
a second transaction nobody repeats (`AS/service/supervisor_service.go:144`), so
`Rollback` after `CommitAcceptance` leaves a completed request without progress.
How far each loss goes is proved: `QueuedIsKept`, `OutboxStandsStill`,
`FailedStartIsFinal` (section 4).

**Properties that name their exceptions.** Where the code takes no lock, a plain
invariant is false, and a run that shows one violation says nothing about the
rest. `OrderedIsShown` and `OrderedIsCounted` say that a request whose transactions
committed in the order in which they began (`InOrder`) is reported as it is,
whatever happens to the others. `OverbookedOnlyByRace`, `OrphansOnlyByRace`, `ReopenedOnlyByStale`,
`SurvivorsWereUnderWay` and `MixedOnlyByLateRefresh` say instead that a bad step
is always one of the races they name: a call that writes after what it had read
has changed, or an acceptance that reads nothing. `CallsAdmitted`, `PageSettles`,
`SkeletonEnds` and `NobodyStuck` name the places in the pages where the code
falls short (`KnownRefusals`, `Lagging` and a bulk decision nobody watched to its
end, the milestones without a department, `Stranded`) and hold everywhere else.
`ProcessedMeansDone` names the recipients who are lost when their role cannot be
looked up: all of the role, none of those the event names (`Reachable`).

**Fairness.** `EventDelivery!FairSpec` assumes that a running publisher ticks, a
publisher that has a batch goes on with it, the broker reads what is on the wire,
a consumer handles what it is given, a dead process is started again and a
broker that is down comes back. The loops of the workers
(`AS/worker/outbox_publisher.go`, the consumers) justify the first four; that
somebody restarts a dead process is an assumption about operation, the compose
file has no restart policy. Nothing is assumed to make a transaction commit or
to restart a process that only lost its connection. Faults are bounded, so they
end. `RequestReporting!FairSystemSpec` assumes only that publisher and projection
keep running. Nothing is assumed of the browser: its properties are safety.

**Deadlock** is checked except where a `.cfg` says the system may stop: when all
events are dealt with and no fault is left, or a bounded clock or number of
calls, clicks or grants has run out.
In `SupervisorRequests` a session can always roll back, as in the code, so a lock
cycle would not be a TLC deadlock; `NoCircularWait` states its absence.

## 4. The proofs

`AcademicRequests_proofs` proves for any numbers of requests, students, contents
and sessions and any timing constants:

| Theorem | States | Rests on |
| --- | --- | --- |
| `TypeCorrect`, `IInvHolds` | `TypeOK`; the inductive invariant | `IInv` |
| `WorkflowFollowsLifecycle` | refinement of `RequestLifecycle` | `IInv` |
| `HistoryUnbroken` | `HistoryIsAPath` | `IInv` |
| `OwnershipKept` | `OnlyTheOwner` | `IInv`, `HistoryIsAPath`, `CallersOwn` |
| `RemindersApart`, `NoReminderAfterTheEnd` | `WarningsSpaced`, `NoWarningOnceClosed` | `IInv`, `ClosedStays` |

`IInv` is `TypeOK`, `CallsOK` and `RowsOK`. Types alone are not inductive: a
commit copies the actor and the content out of the pending call and the row, so
one needs that calls name existing rows and that existing rows are filled; and
that a call's `allowed` set is within the table for its target is what turns the
check under the lock into a move of the lifecycle. `CallersOwn` says that a
pending cancellation was asked for by the owner; it holds on because an owner
never changes, which is why the early read cannot go stale. `ClosedStays` says
that a request with a closing event is closed; with it, a scan's own check under
the lock excludes a late reminder.

Its second half is about what is recorded next to the status:

| Theorem | States | Rests on |
| --- | --- | --- |
| `StampsTellProgress` | `StampsMatchStatus` | `IInv` |
| `ContentUnderReviewIsFixed` | `ReviewedAsSubmitted` | `IInv`, `HistoryIsAPath` (no request is a DRAFT, so edits happen in REVISION_REQUIRED only) |
| `DesksInOrder` | `ApprovalChain` | `IInv`, `DesksOK`, `LedgersOK` |
| `EventsTellTheHistory` | `EventsMirrorHistory` | `IInv`, `DesksOK`, `EventsOK` |

`DesksOK` says which desk asks for which pending change; `LedgersOK` extends the
chain to every status on the way (the ledger ends with as many decisions as the
status stands for); `EventsOK` says of each event that its type determines its
status, which is what makes two statuses with one type impossible.

`EventDelivery_proofs` proves for any numbers of events, publishers, services,
targets, faults and outages:

| Theorem | States |
| --- | --- |
| `DeliveryTypeCorrect` | `TypeOK` |
| `NeverTwice` | `AtMostOnce` |
| `ProcessedTellsTheTruth` | `ProcessedMeansDone` |
| `PathImplementsChannel` | refinement of `EventChannel` |
| `NothingIsLostBeforeAnOutage`, `NothingIsLost` | `PublishedNotLost` while `outages = 0`, and always if `MaxOutages = 0`; both if `Provisioned = Services` |
| `QueuedIsKept` | an event in the queue of a service stays there until it is in the inbox |
| `HandlerEndsForGood` | effects and processed mark of an event never change once its handler has ended |
| `OutboxStandsStill` | while every publisher is cut off no row becomes PUBLISHED, and only the end of a publisher changes that |

Its `IInv` adds to these: `HeldByBroker` (what is at work is still in the queue,
so acknowledging removes that delivery), `WorkOK` (the effects of the event at
work are exactly those neither to do nor to ask for, of the recipients within
reach) and `InboxFirst` (no effect before the
inbox row, the one fact that stops a second delivery). The refinement needs
`CommittedOnly` as well: whatever is in a batch, on a wire, in a queue or in an
inbox belongs to a committed transaction.

The second half is about loss. `QueuedIsKept` holds whatever queues are declared
and however often the broker is lost: a connected consumer handles the head of
its queue (`HeadAtWork`), so what an Ack or a Nack makes the broker forget is in
the inbox, and over a closed connection neither arrives. Before the queue, an
event is under way from Publish on, not only from MarkAsPublished (`SentOK`), and
`ReachedKept` follows it from the wire to the queue through every action but
`BrokerGoesDown`. So `NothingIsLostBeforeAnOutage` names where the promise ends: at
the first outage, for frames under way. That the queues exist before
(`Provisioned = Services`) is an assumption on the constants; without it the
exchange drops an event although its row is PUBLISHED.

`HandlerEndsForGood` and `OutboxStandsStill` say what the violation of
`EveryEventHandled` and the outage mean for good: an interrupted handler is never
resumed, since `SaveInboxEvent` finds its row, and a publisher that is cut off
stays so until its process ends (`StaysCutOff`).

`Consultation_proofs` proves for any numbers of slots, students, concurrent calls
and places:

| Theorem | States |
| --- | --- |
| `ConsultationTypeCorrect` | `TypeOK` |
| `ClosedStaysClosed` | `ReopenedOnlyByStale` |
| `NoOrphanWithoutRace` | `OrphansOnlyByRace` |
| `NoOverbookingWithoutRace` | `OverbookedOnlyByRace` |
| `ApartNeverOverbooked` | a slot is never overbooked, in behaviours without the steps `OverbookedOnlyByRace` names |
| `OneRowPerPair` | a slot and a student are inserted at most once, whatever becomes of the row |
| `OneReminderPerBooking` | a booking is marked as reminded at most once, when it is approved and near |

Its `IInv` is `TypeOK` and `CallsOK`: a call that is about to write RESCHEDULED
carries a proposal, and one that writes what it has checked carries the slot it
checked. With it each action property is a property of single steps: the only
steps that fill a slot are an insert and a stale update, and an insert after a
check that still holds leaves the slot within its places. The last needs that
one more booking raises the count by one (`HeldGrows...`, from the library's
facts on cardinality). The last two theorems rest on what a step does to one row
(`RowEffects`): no statement takes a row or its mark away, and an insert needs
that there is none, so a student who cancelled cannot book that slot again
although `ValidateStudentCanBook` lets the call through.

`SupervisorRequests_proofs` proves for any numbers of requests, students,
lecturers and sessions, any quotas and any length of a history:

| Theorem | States | Rests on |
| --- | --- | --- |
| `SupervisorTypeCorrect`, `IInvHolds` | `TypeOK`; the inductive invariant | `IInv` |
| `AssignmentsAgree` | `AssignmentsMatchStatus` | `IInv` |
| `NobodyWaitsInACircle` | `NoCircularWait` | `TypeOK` |
| `QuotaKept` | `NoOverAssignment` | `IInv`, `AssignmentCounts` |
| `SupervisionFollowsLifecycle` | refinement of `RequestLifecycle` | `IInv` |
| `SupervisionTrail` | `Trail`: history, events and assignments tell one story | `IInv`, `CallsAnnounce` |
| `ProgressBelongsToCompleted` | `ProgressIsEarned`: progress rows point to a completed request of their student | `IInv`, `StartedOnce` |
| `FailedStartIsFinal` | a completed request left without progress stays without | `StartedOnce` |

Its `IInv` is the argument for checking under FOR UPDATE: `ChecksHold` (what a
session has checked under a row lock is still so) is inductive only together with
`LocksApart` (a row is locked by one session), and `AssignmentsMatchStatus`,
which tells that the pending assignment is the last one and the only one that
changes. `ChecksHold` needs that no other session's commit makes the lecturer's
count grow: `CommitKeepsCalls` says what such a commit may touch, and
`CountGrowsByOne` and `CountDoesNotGrow` that a commit adds one counted row at
most, of the lecturer it has locked; for the cardinalities to mean anything the
counted rows are finitely many (`CountsAreFinite`), though requests need not be.
`CallsOK` ties what a pending call will write to the table. That nobody waits in
a circle rests on the order of the locks alone: sessions with both locks do not
wait, one that inserts choices waits only for those, one with the request's lock
only for these two kinds, and everybody else for one of the three.

`Trail` is for supervisor requests what `HistoryIsAPath` and `EventsMirrorHistory`
are for academic ones: every history row follows from the one before along
the table, an acceptance being two of its steps, every row has its event, and the
last event names the lecturer of the last assignment, which is what the workload
of reporting-service counts. It needs that a pending call announces what it will
write (`CallsAnnounce`). `StartedOnce` says that a request is accepted once, so one
session at most begins its progress, and none after it is there.

`WebSession_proofs` proves for any tabs, browsers and users, and any number of
grants, password changes, expiries and blockings:

| Theorem | States | Rests on |
| --- | --- | --- |
| `SessionTypeCorrect`, `IInvHolds` | `TypeOK`; the inductive invariant | `IInv` |
| `OldPasswordsDoNotLast` | `SurvivorsWereUnderWay` | `IInv` |
| `SessionsAreRenewedOnce` | `RenewedOnce` | `IInv` |
| `OnlyLateRefreshesMix` | `MixedOnlyByLateRefresh` | `IInv`, `StorageSteps` |

Its `IInv` adds to `TypeOK` what every request carries at its stage (`CallsOK`)
and that a grant outlives its password only while a revocation is pending, or
spared (`GrantsOK`). The second needs the first: a login or a refresh hands out a
grant for what it checked some steps before, and `InTime` says that a check which
has gone out of date since is older than the last revocation, or that the
revocation is still to come. That every step keeps it is argued once
(`StepKeeps`): grants are only added, revoked and spared, a password changes just
before its revocation, and a revocation misses none that it does not spare; the
actions only show that they are such steps.

`ReportingProjection_proofs` holds what the read model owes to any producer, as
lemmas that the two compositions instantiate. The producer must keep its outbox
rows in sequences with timestamps (`Stamped`) and only add to them (`OnlyAdds`);
both are proved of the workflows. `ProjectionInv` then says that every event is
projected once (`OnceEach`) and that the events of a request whose rows are
sorted by `created_at` pass the four stations (pending, batch, queue, snapshot) in
that order (`Sorted(r) => Ordered(r)`). An invariant of the form "if sorted, then
ordered" is inductive because rows are only added: a request that is sorted after
a step was sorted before it, and what the step added is younger than all there is.

The last part of `AcademicRequests_proofs` is about the composition
`RequestReporting`, for any numbers of requests, students and sessions:

| Theorem | States |
| --- | --- |
| `ReportingKeepsWorkflow` | the composition implements `AcademicRequests!Spec` |
| `DashboardsFollowOrder` | `OrderedIsShown` |
| `DashboardsMoveForward` | `OrderedNeverGoesBack` |
| `ApartDashboardsAreRight`, `ApartDashboardsMoveForward` | `DashboardShowsStatus` and `SnapshotNeverGoesBack`, in behaviours where no two transactions that may write events of one request are under way at once (`Apart`) |

`SupervisorReporting_proofs`, for any numbers of requests, students, lecturers and
sessions:

| Theorem | States |
| --- | --- |
| `ReportingKeepsAssignments` | `TypeOK` and `AssignmentsMatchStatus`, in the composition |
| `WorkloadFollowsOrder` | `OrderedIsCounted` |
| `WorkloadInOrder` | `WorkloadIsQuotaUsed`, in every state in which all requests are `InOrder` |
| `ApartWorkloadIsRight` | `WorkloadIsQuotaUsed`, in behaviours that are `Apart` |

Without a hypothesis `DashboardShowsStatus` is false (`dashboard_concurrent`), and
`WorkloadIsQuotaUsed` is in the same way: an assignment that began before the
verification it waited for is projected before it. `InOrder` is a condition on
what was committed, `Apart` on what the handlers do; the second implies the first
(`PastOK`: all that has been written lies before every transaction under way). A
single session, as in `workload_in_sequence`, is `Apart`; so are any number
of sessions on different requests, and the scans of the reminder worker when no
handler runs next to them. For the
workload two events of one acceptance carry one time and may come in either order;
`PairsOnly` says that these are the only equal times and that both name the same
lecturer, `EventsTell` that the last event carries the status and the lecturer of
the row, and `Stamps` that a pending transaction has a time of its own, which
makes `PairsOnly` inductive. That the workload equals the count of the quota check
is a bijection between snapshots and assignment rows: of the rows of a request
only the last one counts (`OnlyTheLastCounts`, from `AssignmentsMatchStatus`).

`WebPortal_proofs`, for any number of acts, reloads, expansions and moves by others
on a visit (TLC: two), so for any number of async functions under way:

| Theorem | States | Rests on |
| --- | --- | --- |
| `PortalBase`, `PortalTypeOK` | the inductive invariant; `TypeOK` | `Base` |
| `PortalOffersFit` | `OffersFit` | `Base` |
| `PortalCallsAdmitted` | `CallsAdmitted` | `Base`, `RoutesFit` |
| `PortalNobodyStuck` | `NobodyStuck` | `Base`, `RowsCared` |
| `PortalLinksLead` | `LinksLead` | `Base`, `LinksFit` |
| `PortalSkeletonEnds` | `SkeletonEnds` | `Base`, `SkeletonOK` |
| `PortalPageSettles` | `PageSettles` | `Base`, `Settled` |

What the proofs know of the pages is `PagesFit`, an ASSUME of `WebPortal` that TLC
evaluates on the table: an act starts a load of every call it puts out of date, or
repaints it (`ActFits`), except the two displays of `Lagging`; a call an act puts
out of date is asked for by one load only, in its last stage (`TouchedFits`);
services accept what a button asks of the rows that show it (`RowsFit`); only
pages that are a bare list repaint rows themselves (`PaintsFit`). `WebTables` holds
three more, about the tables across the parts: every call behind a page is
admitted to the roles of the page but for `KnownRefusals` (`RoutesFit`), every link
leads to a page that lets its user in (`LinksFit`), and every status a call can put
a row into is final, `Stranded`, or has a page in reach with a button for it
(`RowsCared`). They are about constants, so TLC evaluates them once, in `web_session`,
whose module extends `WebTables`. The provers see nothing behind `@@` and `:>`, so the
tables themselves are evaluated and not proved. The theorems say that these facts
about the code of single pages are enough, whatever interleaves: for calls in
flight, for rows that others move, for a user who has changed pages.

`Base` says that every async function under way is one the page may have started
(`Fits`): its remaining calls are among those of its load or act, answers are kept
for the present stage only, and an act carries a status its button was shown for.
`Settled` is the argument for the end state. For every call that is due, if the
screen shows it out of date, then a load that asks for it, not overtaken, or an
act that reloads it at its end, is under way (`Brings`, `Mends`); and behind every
load that is about to show an out-of-date answer (`Belated`) there is such a one
that started later. "Later" matters: the answers land in any order, and the
invariant is inductive because a load that lands marks the older loads of the same
calls as overtaken, whose landing is then a disturbance. The same two
clauses with "a list of another filter" in place of "out of date" give the filter
(`Filtered`). Starting loads, landing, ending an act and mounting or unmounting
details each have a lemma that they keep both. When nothing is under way, there
is no load or act left to name, so nothing due is out of date.

Some operators of the model are shaped by this: `Unmount` picks the surviving
functions by position (`Nth`), since nothing can be proved about the recursive
`SelectSeq`; all loads are started by one operator (`Started`); and the marks a
landing leaves have names of their own (`Older`, `Landed`).

While a followed act shows its progress nothing need be under way for what it put
out of date: the open dialog is the promise to reload (`Promised`), and `Settled`
counts it as one (`NearlyUpToDate`). `FollowedList` says that only acts whose one
reload is the list are followed, so closing the dialog keeps the promise. An act
that ends after its dialog was closed has no such promise, and none can be made:
this is the case `PageSettles` has to except.

All theorems rest on the named ASSUMEs of the modules only: the bounds are
naturals, `Null` and the staff roles are no other value, `Provisioned` is a set of
services, services are not publishers, the students are finitely many, the pages and the
tables fit.

Only model-checked: liveness (`EveryEventArrives`, `OrderedEndIsShown`,
`EveryEventHandled`). Liveness under fairness, ENABLED and induction over data are
outside what this prover setup does. Every invariant and every action property
that a passing run checks is stated by a theorem.

## 5. What the models leave out

- *audit_logs*, notes, formatting, request numbers. Nothing reads them back.
- *Roles* in the service models: which role may call a method is the gateway's
  rule (`GatewayRoutes`); a service model takes the role the service records.
- *What a page renders* beyond what section 2 names: wording, layout, sorting and
  searching within a list, toasts, validation of forms.
- *Registration*, reset mails, roles and scopes of users; the rate limiter; the
  user-registered consumer; `Logout` of auth-service, which no page calls.
- *Final documents and guidance logs* as rows of academic-service: the portal
  takes each handler as one step. Two of them at once can overwrite each other's
  status or attachments, as bookings do.
- *SQL typing*: several `jsonb_build_object` calls in
  `AS/repository/supervisor_repository.go` (about 172, 192, 1110, 1150) pass
  untyped parameters, which PostgreSQL may refuse to prepare. The models take
  the statements to succeed, as the code means them to.
- *Which event is for whom* is a constant (`Recipients`, `ByRole`); the look-up by
  role and its failure are modelled.
- *Reading*: what lists, searches and analytics return.

Divergences met while reading that no run states yet:

- The quota counts COMPLETED supervisions (`supervisor_repository.go:532`); the
  comment at 522 says they do not consume it.
- Assign, reassign, accept and reject write no `audit_logs` row, against
  FR-04-12 (`docs/requirements.md:166`).
- Reassignment accepts the lecturer who has just rejected, against the comment
  at `supervisor_repository.go:599`.
- `SupervisorTransitions` lets REJECTED go to ASSIGNED (`transitions.go:34`);
  `transitions_test.go:67` lists no successor of REJECTED.
- A reassigned lecturer is not notified: `supervisor_request.reassigned` falls
  to the default of `notification_consumer.go:217`.
- The history is displayed ORDER BY `created_at`
  (`academic_repository.go:903`), so overlapping transactions appear swapped.
- The publisher dials once (`academic-service/cmd/server/main.go:98`); after an
  outage nothing is published until a restart.
- When auth-service does not answer, the Kaprodi are not told that an assignment
  was rejected or completed, and the inbox row is processed all the same: the
  comment at `notification_consumer.go:224` wants every active Kaprodi notified,
  the one at `auth_client.go:44` accepts the loss. Nothing repeats the call.
- A queue exists only once its consumer has started; earlier events are dropped
  by the exchange although their rows say PUBLISHED.
- The stuck-thesis worker selects `supervisor_assignments.is_current`, a column
  no migration creates (`progress_stuck_worker.go:65`).
- A supervisor request in REVISION_REQUIRED can only be cancelled: nothing
  resubmits it.
- Signing out tells the server nothing, so the refresh token stays valid
  (`app-shell.tsx:407`); and the refresh token of a refresh answer is dropped
  (`lib/api.ts:34`), so a session can be renewed once.
- A second cancellation of a slot whose bookings were not cancelled is refused,
  for the slot is cancelled already (`consultation_repo.go:88`).
- A student who cancelled a booking can never book that slot again
  (`016_consultation_bookings.sql:24`), although the check before allows it.
- A supervisor request in REVISION_REQUIRED has no button on any page.
- A final document in REVISION_REQUESTED has no handler that takes it back,
  against the comment at `transitions.go:42`.
- The profile and the dashboard of a lecturer are fetched from the frontend's own
  origin (`app/lecturer/page.tsx:53`), where nothing answers.
- TATA_USAHA may open /reports, but the gateway refuses two of its tabs.
- Without an answer about the departments, or with one that names none, the
  milestone page shows its skeleton for ever
  (`app/admin/thesis-milestones/page.tsx:45`).
- The progress of a bulk decision can be closed with Escape, the overlay or the X
  while the call is under way (`bulk-progress-dialog.tsx:61`; only the button in the
  footer waits). Closing is what reloads the list
  (`app/head/academic-requests/page.tsx:288`), so the page then keeps the old rows.
- The gateway answers 401 to any failure of ValidateToken, so a slow auth-service
  makes the client refresh, and then sign out.

## 6. What is left

1. `ThesisDocuments`: final documents, guidance attachments and milestones as
   statements of academic-service, in the style of `Consultation`.
2. Delegations and slots as intervals: the overlap check against the insert.
3. Users and registration in auth-service, the user-registered consumer, the
   gateway's rate limiter.
4. Proofs: the modules of 1 and 2, once they are written; the trail of supervisor
   requests carried over to `SupervisorReporting`.
