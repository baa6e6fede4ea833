-------------------------- MODULE AcademicRequests --------------------------
(***************************************************************************)
(* The academic request workflow of academic-service: service_requests and *)
(* the rows every transition writes with it (request_status_histories,     *)
(* request_approvals, outbox_events), the gRPC handlers that move a        *)
(* request, and the SLA reminder worker.                                   *)
(*                                                                         *)
(* A handler is a session of PostgreSQL.  It runs in two steps:            *)
(*                                                                         *)
(*   - it checks its input and BEGINs.  NOW() is fixed here for the whole  *)
(*     transaction, so every timestamp it will write is the clock of this  *)
(*     step;                                                               *)
(*   - it takes the row lock (SELECT ... FOR UPDATE), checks the status it *)
(*     reads under that lock, writes, and COMMITs.  Nothing else can touch *)
(*     the row between the lock and the commit and nothing the session     *)
(*     wrote is visible before it, so the second part is one step.         *)
(*                                                                         *)
(* Any number of sessions may lie between the two steps at once, and they  *)
(* may finish in any order.  A session may also end without a trace: an    *)
(* SQL error, a cancelled context or a crash rolls the transaction back.   *)
(*                                                                         *)
(* audit_logs is not kept: nothing reads it back, and each transaction     *)
(* writes one row of it next to the history row that is modelled.          *)
(***************************************************************************)
EXTENDS Integers, Sequences, Transitions

CONSTANTS
  Requests,     \* identifiers of service_requests rows
  Students,     \* users with role MAHASISWA
  Titles,       \* values of the editable fields (title, description)
  Sessions,     \* database sessions of handlers and of worker replicas
  DueIn,        \* due_at = NOW() + DueIn                    (5 days)
  WarnAhead,    \* a warning may go out this long before due_at  (24 h)
  WarnPast,     \* ... and this long after it                    (7 days)
  WarnGap,      \* ... and this long after the last warning      (23 h)
  MaxTime,      \* bound on the clock
  MaxHistory,   \* bound on the transitions of one request
  Null          \* SQL NULL

ASSUME TimingAssumption ==
  /\ DueIn \in Nat /\ WarnAhead \in Nat /\ WarnPast \in Nat /\ WarnGap \in Nat
  /\ MaxTime \in Nat /\ MaxHistory \in Nat

ASSUME NamesAssumption ==
  /\ Null \notin Nat
  /\ Null \notin AcademicStatus
  /\ Students \cap {"ADMIN_PRODI", "KAPRODI", "TATA_USAHA"} = {}

VARIABLES
  clock,      \* the database clock
  status,     \* service_requests.status, "NONE" before the INSERT
  owner,      \* service_requests.student_user_id
  title,      \* service_requests.title and .description
  stamp,      \* submitted_at, verified_at, approved_at, completed_at
  dueAt,      \* service_requests.due_at
  warnedAt,   \* service_requests.last_sla_warning_at
  history,    \* request_status_histories of a request, in commit order
  approvals,  \* request_approvals of a request, in commit order
  outbox,     \* outbox_events of a request, in commit order
  call        \* what each session is doing

rowVars == <<status, owner, title, stamp, dueAt, warnedAt>>
logVars == <<history, approvals, outbox>>
vars    == <<clock, status, owner, title, stamp, dueAt, warnedAt,
             history, approvals, outbox, call>>

StaffRoles == {"ADMIN_PRODI", "KAPRODI", "TATA_USAHA"}
Actors     == Students \cup StaffRoles
Time       == 0 .. MaxTime
Milestones == {"SUBMITTED", "VERIFIED", "APPROVED", "COMPLETED"}
Closed     == {"COMPLETED", "REJECTED", "CANCELLED"}

Exists(r) == status[r] # "NONE"

Idle == [kind |-> "idle"]

-----------------------------------------------------------------------------
(* The outbox event a transition publishes.                                *)

\* Faulty: a status without an event of its own gets no type.
academicRequestEventTypeNoDefault(s) ==
  CASE s = "VERIFIED" -> "academic_request.verified"
    [] s = "APPROVED" -> "academic_request.approved"
    [] OTHER          -> ""

\* Faulty: a cancellation is published as an update.
academicRequestEventTypeNoCancelled(s) ==
  CASE s = "VERIFIED"          -> "academic_request.verified"
    [] s = "APPROVED"          -> "academic_request.approved"
    [] s = "REJECTED"          -> "academic_request.rejected"
    [] s = "COMPLETED"         -> "academic_request.completed"
    [] s = "REVISION_REQUIRED" -> "academic_request.revision_required"
    [] OTHER                   -> "academic_request.updated"

academicRequestEventType(s) ==
  CASE s = "VERIFIED"          -> "academic_request.verified"
    [] s = "APPROVED"          -> "academic_request.approved"
    [] s = "REJECTED"          -> "academic_request.rejected"
    [] s = "COMPLETED"         -> "academic_request.completed"
    [] s = "REVISION_REQUIRED" -> "academic_request.revision_required"
    [] s = "CANCELLED"         -> "academic_request.cancelled"
    [] OTHER                   -> "academic_request.updated"

\* An outbox row.  n is the history row written by the same transaction, 0
\* for an event that belongs to no transition; at is the row's created_at.
Event(n, type, s, at) == [n |-> n, type |-> type, status |-> s, at |-> at]

\* The rows a transition of r appends: its history row and its outbox event.
\* content is not a column: it remembers, for the properties, the editable
\* fields the request had when the transition committed.
Record(r, content, old, new, by, at, type) ==
  /\ history' = [history EXCEPT ![r] =
                   Append(@, [old |-> old, new |-> new, by |-> by, at |-> at,
                              content |-> content])]
  /\ outbox'  = [outbox EXCEPT ![r] =
                   Append(@, Event(Len(history[r]) + 1, type, new, at))]

-----------------------------------------------------------------------------
Init ==
  /\ clock     = 0
  /\ status    = [r \in Requests |-> "NONE"]
  /\ owner     = [r \in Requests |-> Null]
  /\ title     = [r \in Requests |-> Null]
  /\ stamp     = [r \in Requests |-> [m \in Milestones |-> Null]]
  /\ dueAt     = [r \in Requests |-> Null]
  /\ warnedAt  = [r \in Requests |-> Null]
  /\ history   = [r \in Requests |-> <<>>]
  /\ approvals = [r \in Requests |-> <<>>]
  /\ outbox    = [r \in Requests |-> <<>>]
  /\ call      = [s \in Sessions |-> Idle]

Tick ==
  /\ clock < MaxTime
  /\ clock' = clock + 1
  /\ UNCHANGED <<rowVars, logVars, call>>

-----------------------------------------------------------------------------
(* The handlers up to BEGIN.  A client names a request it has been told    *)
(* of, so the row exists; which staff role may call which method is the    *)
(* gateway's rule and appears here as the role the service records.        *)

Begin(s, c) ==
  /\ call[s] = Idle
  /\ call' = [call EXCEPT ![s] = c]
  /\ UNCHANGED <<clock, rowVars, logVars>>

workflowAction(s, r, actor, target, allowed) ==
  /\ Exists(r)
  /\ Begin(s, [kind |-> "status", request |-> r, actor |-> actor,
               target |-> target, allowed |-> allowed, at |-> clock])

VerifyAcademicRequest(s, r) ==
  workflowAction(s, r, "ADMIN_PRODI", "VERIFIED", {"SUBMITTED"})

\* Faulty: the head of program approves what nobody verified.
ApproveUnverified(s, r) ==
  workflowAction(s, r, "KAPRODI", "APPROVED", {"SUBMITTED", "VERIFIED"})

\* Faulty: an approved request can be rejected as well.
RejectApproved(s, r) ==
  workflowAction(s, r, "KAPRODI", "REJECTED", {"VERIFIED", "APPROVED"})

ApproveAcademicRequest(s, r) ==
  workflowAction(s, r, "KAPRODI", "APPROVED", {"VERIFIED"})

RejectAcademicRequest(s, r) ==
  workflowAction(s, r, "KAPRODI", "REJECTED", {"VERIFIED"})

CompleteAcademicRequest(s, r) ==
  workflowAction(s, r, "TATA_USAHA", "COMPLETED", {"APPROVED"})

RequestRevisionAcademicRequest(s, r) ==
  workflowAction(s, r, "ADMIN_PRODI", "REVISION_REQUIRED",
                 AllowedFrom(AcademicTransitions, "REVISION_REQUIRED"))

\* Faulty: the row only has to exist.
verifyExistence(r, student) == Exists(r)

\* verifyOwnership reads the row outside the transaction that follows.
verifyOwnership(r, student) == Exists(r) /\ owner[r] = student

CancelAcademicRequest(s, r, student) ==
  /\ verifyOwnership(r, student)
  /\ workflowAction(s, r, student, "CANCELLED",
                    AllowedFrom(AcademicTransitions, "CANCELLED"))

SubmitAcademicRequest(s, r, student) ==
  /\ verifyOwnership(r, student)
  /\ Begin(s, [kind |-> "submit", request |-> r, actor |-> student, at |-> clock])

UpdateAcademicRequest(s, r, student, t) ==
  /\ verifyOwnership(r, student)
  /\ Begin(s, [kind |-> "fields", request |-> r, actor |-> student, title |-> t])

CreateAcademicRequest(s, student, t) ==
  Begin(s, [kind |-> "create", actor |-> student, title |-> t, at |-> clock])

StartScan(s) ==
  Begin(s, [kind |-> "scan", at |-> clock])

-----------------------------------------------------------------------------
(* The transactions: lock, check, write, commit.                           *)

Return(s) == call' = [call EXCEPT ![s] = Idle]

\* Faulty: the status read under the lock is not checked.
anyStatusAllowed(current, allowed) == TRUE

isStatusAllowed(current, allowed) == current \in allowed

\* INSERT of the row with its first history row and event.
InsertAcademicRequest(s, r) ==
  /\ call[s].kind = "create"
  /\ ~Exists(r)
  /\ MaxHistory > 0
  /\ status'   = [status EXCEPT ![r] = "SUBMITTED"]
  /\ owner'    = [owner EXCEPT ![r] = call[s].actor]
  /\ title'    = [title EXCEPT ![r] = call[s].title]
  /\ stamp'    = [stamp EXCEPT ![r]["SUBMITTED"] = call[s].at]
  /\ dueAt'    = [dueAt EXCEPT ![r] = call[s].at + DueIn]
  /\ Record(r, call[s].title, Null, "SUBMITTED", call[s].actor, call[s].at,
            "academic_request.created")
  /\ Return(s)
  /\ UNCHANGED <<clock, warnedAt, approvals>>

UpdateAcademicRequestStatus(s) ==
  /\ call[s].kind = "status"
  /\ LET c == call[s]
         r == c.request
     IN  /\ isStatusAllowed(status[r], c.allowed)
         /\ Len(history[r]) < MaxHistory
         /\ status' = [status EXCEPT ![r] = c.target]
         /\ stamp'  = [stamp EXCEPT ![r] = [m \in Milestones |->
                         IF m = c.target THEN c.at ELSE stamp[r][m]]]
         /\ approvals' = [approvals EXCEPT ![r] =
                            Append(@, [by |-> c.actor, action |-> c.target])]
         /\ Record(r, title[r], status[r], c.target, c.actor, c.at,
                   academicRequestEventType(c.target))
  /\ Return(s)
  /\ UNCHANGED <<clock, owner, title, dueAt, warnedAt>>

\* Resubmission stamps submitted_at again and leaves due_at as it was.
ResubmitAcademicRequest(s) ==
  /\ call[s].kind = "submit"
  /\ LET c == call[s]
         r == c.request
     IN  /\ isStatusAllowed(status[r], AllowedFrom(AcademicTransitions, "SUBMITTED"))
         /\ owner[r] = c.actor
         /\ Len(history[r]) < MaxHistory
         /\ status' = [status EXCEPT ![r] = "SUBMITTED"]
         /\ stamp'  = [stamp EXCEPT ![r]["SUBMITTED"] = c.at]
         /\ Record(r, title[r], status[r], "SUBMITTED", c.actor, c.at,
                   "academic_request.submitted")
  /\ Return(s)
  /\ UNCHANGED <<clock, owner, title, dueAt, warnedAt, approvals>>

\* Faulty: a request under review can be edited.
UpdateFieldsWhileSubmitted(s) ==
  /\ call[s].kind = "fields"
  /\ LET r == call[s].request
     IN  /\ isStatusAllowed(status[r], {"DRAFT", "SUBMITTED", "REVISION_REQUIRED"})
         /\ owner[r] = call[s].actor
         /\ title' = [title EXCEPT ![r] = call[s].title]
  /\ Return(s)
  /\ UNCHANGED <<clock, status, owner, stamp, dueAt, warnedAt, logVars>>

UpdateAcademicRequestFields(s) ==
  /\ call[s].kind = "fields"
  /\ LET r == call[s].request
     IN  /\ isStatusAllowed(status[r], {"DRAFT", "REVISION_REQUIRED"})
         /\ owner[r] = call[s].actor
         /\ title' = [title EXCEPT ![r] = call[s].title]
  /\ Return(s)
  /\ UNCHANGED <<clock, status, owner, stamp, dueAt, warnedAt, logVars>>

\* Faulty: the last warning is not considered.
NeedsWarningWithoutGap(r, now) ==
  /\ Exists(r)
  /\ status[r] \notin Closed
  /\ dueAt[r] # Null
  /\ dueAt[r] < now + WarnAhead
  /\ dueAt[r] > now - WarnPast

\* Faulty: closed requests are not left out.
NeedsWarningEvenIfClosed(r, now) ==
  /\ Exists(r)
  /\ dueAt[r] # Null
  /\ dueAt[r] < now + WarnAhead
  /\ dueAt[r] > now - WarnPast
  /\ warnedAt[r] # Null => warnedAt[r] < now - WarnGap

\* The rows the reminder query selects at the transaction's NOW().
NeedsWarning(r, now) ==
  /\ Exists(r)
  /\ status[r] \notin Closed
  /\ dueAt[r] # Null
  /\ dueAt[r] < now + WarnAhead
  /\ dueAt[r] > now - WarnPast
  /\ warnedAt[r] # Null => warnedAt[r] < now - WarnGap

\* SKIP LOCKED passes over a row another transaction holds and LIMIT 50 cuts
\* the scan short, so it takes any non-empty part of the selected rows.
scanAndEmit(s, items) ==
  /\ call[s].kind = "scan"
  /\ items # {}
  /\ \A r \in items : NeedsWarning(r, call[s].at)
  /\ warnedAt' = [r \in Requests |->
                    IF r \in items THEN call[s].at ELSE warnedAt[r]]
  /\ outbox' = [r \in Requests |->
                  IF r \in items
                  THEN Append(outbox[r],
                              Event(0, "academic_request.sla_warning",
                                    status[r], call[s].at))
                  ELSE outbox[r]]
  /\ Return(s)
  /\ UNCHANGED <<clock, status, owner, title, stamp, dueAt, history, approvals>>

\* ErrInvalidStatusTransition, ErrForbidden, an SQL error, a cancelled
\* context, nothing to warn about, a crash: the transaction rolls back.
Rollback(s) ==
  /\ call[s] # Idle
  /\ Return(s)
  /\ UNCHANGED <<clock, rowVars, logVars>>

-----------------------------------------------------------------------------
Next ==
  \/ Tick
  \/ \E s \in Sessions :
       \/ StartScan(s)
       \/ UpdateAcademicRequestStatus(s)
       \/ ResubmitAcademicRequest(s)
       \/ UpdateAcademicRequestFields(s)
       \/ Rollback(s)
       \/ \E items \in SUBSET Requests : scanAndEmit(s, items)
       \/ \E r \in Requests :
            \/ VerifyAcademicRequest(s, r)
            \/ ApproveAcademicRequest(s, r)
            \/ RejectAcademicRequest(s, r)
            \/ CompleteAcademicRequest(s, r)
            \/ RequestRevisionAcademicRequest(s, r)
            \/ InsertAcademicRequest(s, r)
            \/ \E u \in Students :
                 \/ CancelAcademicRequest(s, r, u)
                 \/ SubmitAcademicRequest(s, r, u)
                 \/ \E t \in Titles : UpdateAcademicRequest(s, r, u, t)
       \/ \E u \in Students, t \in Titles : CreateAcademicRequest(s, u, t)

Spec == Init /\ [][Next]_vars

-----------------------------------------------------------------------------
(* The types of the variables.  DRAFT is a status of the table no operation *)
(* produces; it is part of the type and HistoryIsAPath excludes it.         *)

EventType == {"academic_request.created", "academic_request.submitted",
              "academic_request.verified", "academic_request.approved",
              "academic_request.rejected", "academic_request.completed",
              "academic_request.revision_required", "academic_request.cancelled",
              "academic_request.updated", "academic_request.sla_warning"}

HistoryRow == [old : AcademicStatus \cup {Null}, new : AcademicStatus,
               by : Actors, at : Time, content : Titles]

ApprovalRow == [by : Actors, action : AcademicStatus]

OutboxRow == [n : Nat, type : EventType, status : AcademicStatus, at : Time]

Call ==
  {Idle}
    \cup [kind : {"status"}, request : Requests, actor : Actors,
          target : AcademicStatus, allowed : SUBSET AcademicStatus, at : Time]
    \cup [kind : {"submit"}, request : Requests, actor : Students, at : Time]
    \cup [kind : {"fields"}, request : Requests, actor : Students, title : Titles]
    \cup [kind : {"create"}, actor : Students, title : Titles, at : Time]
    \cup [kind : {"scan"}, at : Time]

\* Every variable stays in its type, whatever the sessions do.
TypeOK ==
  /\ clock     \in Time
  /\ status    \in [Requests -> AcademicStatus \cup {"NONE"}]
  /\ owner     \in [Requests -> Students \cup {Null}]
  /\ title     \in [Requests -> Titles \cup {Null}]
  /\ stamp     \in [Requests -> [Milestones -> Time \cup {Null}]]
  /\ dueAt     \in [Requests -> Nat \cup {Null}]
  /\ warnedAt  \in [Requests -> Time \cup {Null}]
  /\ history   \in [Requests -> Seq(HistoryRow)]
  /\ approvals \in [Requests -> Seq(ApprovalRow)]
  /\ outbox    \in [Requests -> Seq(OutboxRow)]
  /\ call      \in [Sessions -> Call]

-----------------------------------------------------------------------------
(* Safety.                                                                 *)

Last(seq) == seq[Len(seq)]

\* The history of a request is a walk through the transition table that
\* starts with the creation in SUBMITTED, leaves no step out and ends in the
\* status the row has, in whatever order concurrent handlers took the lock.
HistoryIsAPath ==
  \A r \in Requests :
    IF ~Exists(r)
    THEN history[r] = <<>>
    ELSE /\ history[r] # <<>>
         /\ history[r][1].old = Null
         /\ history[r][1].new = "SUBMITTED"
         /\ Last(history[r]).new = status[r]
         /\ \A i \in 2 .. Len(history[r]) :
              /\ history[r][i].old = history[r][i - 1].new
              /\ CanTransition(AcademicTransitions,
                               history[r][i].old, history[r][i].new)

\* Every transition has exactly one event in the outbox and the event says
\* what happened; nothing but a reminder is published besides.  Two statuses
\* never share an event type and no transition falls through to "updated",
\* which neither consumer has a text or a status for.
EventsMirrorHistory ==
  \A r \in Requests :
    /\ \A i \in DOMAIN history[r] :
         \E k \in DOMAIN outbox[r] :
           /\ outbox[r][k].n = i
           /\ outbox[r][k].status = history[r][i].new
           /\ outbox[r][k].at = history[r][i].at
           /\ outbox[r][k].type # "academic_request.updated"
           /\ \A l \in DOMAIN outbox[r] \ {k} : outbox[r][l].n # i
    /\ \A k, l \in DOMAIN outbox[r] :
         /\ outbox[r][k].n \in DOMAIN history[r] \cup {0}
         /\ outbox[r][k].n = 0 => outbox[r][k].type = "academic_request.sla_warning"
         /\ outbox[r][k].n # 0 /\ outbox[r][k].type = outbox[r][l].type
              => outbox[r][k].status = outbox[r][l].status

\* The four timestamps of the SLA tracking tell how far the request has come:
\* a milestone is stamped exactly when the request has passed it.
StampsMatchStatus ==
  \A r \in Requests :
    /\ stamp[r]["SUBMITTED"] # Null <=> Exists(r)
    /\ stamp[r]["VERIFIED"]  # Null
         <=> status[r] \in {"VERIFIED", "APPROVED", "REJECTED", "COMPLETED"}
    /\ stamp[r]["APPROVED"]  # Null <=> status[r] \in {"APPROVED", "COMPLETED"}
    /\ stamp[r]["COMPLETED"] # Null <=> status[r] = "COMPLETED"

\* A finished request went through the three desks, each once and in order:
\* the approvals ledger ends with the program admin's verification, the head
\* of program's approval and the administration's completion.
ApprovalChain ==
  \A r \in Requests : status[r] = "COMPLETED" =>
    LET ledger == approvals[r]
        n      == Len(ledger)
    IN  /\ n >= 3
        /\ ledger[n - 2] = [by |-> "ADMIN_PRODI", action |-> "VERIFIED"]
        /\ ledger[n - 1] = [by |-> "KAPRODI",     action |-> "APPROVED"]
        /\ ledger[n]     = [by |-> "TATA_USAHA",  action |-> "COMPLETED"]
        /\ \A i \in 1 .. n - 3 : ledger[i].action = "REVISION_REQUIRED"

\* Only the owner of a request submits or cancels it, although ownership is
\* first read outside the transaction that acts on it.
OnlyTheOwner ==
  \A r \in Requests : \A i \in DOMAIN history[r] :
    history[r][i].new \in {"SUBMITTED", "CANCELLED"} => history[r][i].by = owner[r]

\* What the staff verify, approve and complete is what the student submitted:
\* the content changes only between a request for revision and the
\* resubmission, so an edit that races with a desk's decision loses.
ReviewedAsSubmitted ==
  \A r \in Requests :
    /\ \A i \in 2 .. Len(history[r]) :
         history[r][i].old # "REVISION_REQUIRED"
           => history[r][i].content = history[r][i - 1].content
    /\ Exists(r) /\ status[r] # "REVISION_REQUIRED"
         => title[r] = Last(history[r]).content

IsWarning(e) == e.type = "academic_request.sla_warning"

\* Replicas of the reminder worker never warn twice within the gap, and the
\* marker on the row is the time of the last warning.
WarningsSpaced ==
  \A r \in Requests :
    /\ \A k, l \in DOMAIN outbox[r] :
         k < l /\ IsWarning(outbox[r][k]) /\ IsWarning(outbox[r][l])
           => outbox[r][l].at > outbox[r][k].at + WarnGap
    /\ \A k \in DOMAIN outbox[r] : IsWarning(outbox[r][k])
         => warnedAt[r] # Null /\ outbox[r][k].at <= warnedAt[r]

\* A reminder never follows the end of its request: once a closing event is
\* in the outbox no warning is added, although the scan that sends it may
\* have begun before the request was closed.
NoWarningOnceClosed ==
  \A r \in Requests : \A k, l \in DOMAIN outbox[r] :
    IsWarning(outbox[r][k]) /\ outbox[r][l].status \in Closed => k < l

-----------------------------------------------------------------------------
(* Refinement.                                                             *)

Lifecycle == INSTANCE RequestLifecycle
  WITH Items <- Requests, Table <- AcademicTransitions,
       First <- "SUBMITTED", Unborn <- "NONE"

\* Through any interleaving of the handlers, a stale ownership read included,
\* each request follows the documented state machine: it is born SUBMITTED,
\* moves only along AcademicTransitions, one request per commit, and a
\* rejected, completed or cancelled request never moves again.
FollowsLifecycle == Lifecycle!Spec
=============================================================================
