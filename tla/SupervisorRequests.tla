------------------------- MODULE SupervisorRequests -------------------------
(***************************************************************************)
(* The supervisor request workflow of academic-service: a student asks for *)
(* a thesis supervisor, the program admin verifies, the head of program    *)
(* assigns a lecturer who has quota left, and the lecturer accepts (which  *)
(* completes the request and starts the thesis progress) or rejects (after *)
(* which somebody may be assigned again).                                  *)
(*                                                                         *)
(* A handler is a session of PostgreSQL, as in AcademicRequests.  Here the *)
(* row locks are explicit, because assigning and responding take two of    *)
(* them, the request's and the lecturer's, and creating a request takes    *)
(* the key-share lock of every lecturer it names (the foreign key of       *)
(* supervisor_request_choices).  A session keeps its locks until it        *)
(* commits or rolls back; what it wrote is visible from the commit on, so  *)
(* the writes and the commit are one step.                                 *)
(*                                                                         *)
(* No handler looks at the clock; its readings only stamp the rows, and    *)
(* what follows from their order is a matter of SupervisorReporting.       *)
(***************************************************************************)
EXTENDS Integers, Sequences, FiniteSets, Transitions

CONSTANTS
  Requests,     \* identifiers of supervisor_requests rows
  Students,     \* users with role MAHASISWA
  Lecturers,    \* rows of lecturers
  Quotas,       \* values of lecturers.max_supervisor_quota
  Sessions,     \* database sessions of handlers
  MaxHistory,   \* bound on the history rows of one request
  Null          \* SQL NULL

ASSUME SupervisorAssumption ==
  /\ Quotas \subseteq Nat
  /\ MaxHistory \in Nat
  /\ Null \notin SupervisorStatus \cup Lecturers \cup Requests \cup Students

VARIABLES
  clock,        \* the database clock, which advances in SupervisorReporting
  status,       \* supervisor_requests.status, "NONE" before the INSERT
  student,      \* supervisor_requests.student_user_id
  assignments,  \* supervisor_assignments of a request, in commit order
  history,      \* supervisor_status_histories of a request, in commit order
  outbox,       \* outbox_events of a request, in commit order
  profile,      \* lecturers.status = 'ACTIVE' and max_supervisor_quota
  progress,     \* thesis_progress: the request a student's rows point to
  call          \* what each session is doing and which row locks it has

requestVars == <<status, student, assignments, history, outbox>>
vars == <<clock, status, student, assignments, history, outbox, profile,
          progress, call>>

Time == Nat

Exists(r) == status[r] # "NONE"

Idle == [op |-> "idle"]

-----------------------------------------------------------------------------
(* Row locks.                                                              *)

\* Faulty: a response locks the lecturer before the request.
lockOrderByActor(op) ==
  IF op = "respond" THEN <<"lecturer", "request">> ELSE <<"request", "lecturer">>

\* The order in which both two-lock transactions take them.
lockOrder(op) == <<"request", "lecturer">>

TwoLocks == {"assign", "respond"}

HoldsRequest(s, r) ==
  call[s].op \in TwoLocks /\ "request" \in call[s].held /\ call[s].request = r

HoldsLecturer(s, l) ==
  call[s].op \in TwoLocks /\ "lecturer" \in call[s].held /\ call[s].lecturer = l

SharesLecturer(s, l) == call[s].op = "create" /\ l \in call[s].shares

RequestFree(s, r) == \A t \in Sessions \ {s} : ~HoldsRequest(t, r)

\* Faulty: the lecturer is read without FOR UPDATE.
LecturerFreeUnlocked(s, l) == s \in Sessions /\ l \in Lecturers

\* FOR UPDATE waits for other FOR UPDATEs and for key-share locks.
LecturerFree(s, l) ==
  \A t \in Sessions \ {s} : ~HoldsLecturer(t, l) /\ ~SharesLecturer(t, l)

-----------------------------------------------------------------------------
Init ==
  /\ clock       = 0
  /\ status      = [r \in Requests |-> "NONE"]
  /\ student     = [r \in Requests |-> Null]
  /\ assignments = [r \in Requests |-> <<>>]
  /\ history     = [r \in Requests |-> <<>>]
  /\ outbox      = [r \in Requests |-> <<>>]
  /\ profile     \in [Lecturers -> [active : BOOLEAN, quota : Quotas]]
  /\ progress    = [u \in Students |-> Null]
  /\ call        = [s \in Sessions |-> Idle]

-----------------------------------------------------------------------------
(* The handlers up to BEGIN, where NOW() is fixed.                         *)

Begin(s, c) ==
  /\ call[s] = Idle
  /\ call' = [call EXCEPT ![s] = c]
  /\ UNCHANGED <<clock, requestVars, profile, progress>>

CreateSupervisorRequest(s, u, choices) ==
  /\ choices # {}
  /\ Begin(s, [op |-> "create", student |-> u, wants |-> choices,
               shares |-> {}, at |-> clock])

\* The wrappers of updateSupervisorStatus.
changeStatus(s, r, target, allowed, type) ==
  /\ Exists(r)
  /\ Begin(s, [op |-> "status", request |-> r, target |-> target,
               allowed |-> allowed, type |-> type, at |-> clock])

VerifySupervisorRequest(s, r) ==
  changeStatus(s, r, "VERIFIED", {"SUBMITTED"}, "supervisor_request.verified")

RequestRevisionSupervisorRequest(s, r) ==
  changeStatus(s, r, "REVISION_REQUIRED", {"SUBMITTED"},
               "supervisor_request.revision_required")

CompleteSupervisorRequest(s, r) ==
  changeStatus(s, r, "COMPLETED", {"ACCEPTED"}, "supervisor_request.completed")

\* Faulty: a verified request can be cancelled as well.
CancelVerifiedRequest(s, r) ==
  changeStatus(s, r, "CANCELLED", {"SUBMITTED", "VERIFIED", "REVISION_REQUIRED"},
               "supervisor_request.cancelled")

CancelSupervisorRequest(s, r) ==
  changeStatus(s, r, "CANCELLED", {"SUBMITTED", "REVISION_REQUIRED"},
               "supervisor_request.cancelled")

AssignSupervisor(s, r, l) ==
  /\ Exists(r)
  /\ Begin(s, [op |-> "assign", request |-> r, lecturer |-> l, from |-> "VERIFIED",
               type |-> "supervisor_request.assigned", held |-> {}, at |-> clock])

ReassignSupervisor(s, r, l) ==
  /\ Exists(r)
  /\ Begin(s, [op |-> "assign", request |-> r, lecturer |-> l, from |-> "REJECTED",
               type |-> "supervisor_request.reassigned", held |-> {}, at |-> clock])

respondSupervisorAssignment(s, r, l, target, type) ==
  /\ Exists(r)
  /\ Begin(s, [op |-> "respond", request |-> r, lecturer |-> l, target |-> target,
               type |-> type, held |-> {}, at |-> clock])

AcceptSupervisorRequest(s, r, l) ==
  respondSupervisorAssignment(s, r, l, "ACCEPTED", "supervisor_request.accepted")

RejectSupervisorRequest(s, r, l) ==
  respondSupervisorAssignment(s, r, l, "REJECTED", "supervisor_request.rejected")

-----------------------------------------------------------------------------
(* The transactions.                                                       *)

Return(s) == call' = [call EXCEPT ![s] = Idle]

\* A history row.  The audit_logs row some of the transactions add is left out.
Row(old, new, at) == [old |-> old, new |-> new, at |-> at]

\* An outbox row, with the lecturer of insertSupervisorOutboxWithLecturer.
Event(type, new, l, at) == [type |-> type, status |-> new, lecturer |-> l, at |-> at]

\* The status of a request, with the history rows and the events of the
\* transaction that sets it.
Write(r, new, rows, events) ==
  /\ Len(history[r]) + Len(rows) <= MaxHistory
  /\ status'  = [status EXCEPT ![r] = new]
  /\ history' = [history EXCEPT ![r] = @ \o rows]
  /\ outbox'  = [outbox EXCEPT ![r] = @ \o events]

\* The key-share lock a choice takes on the lecturer it names.
InsertChoice(s, l) ==
  /\ call[s].op = "create"
  /\ l \in call[s].wants
  /\ \A t \in Sessions \ {s} : ~HoldsLecturer(t, l)
  /\ call' = [call EXCEPT ![s].wants = @ \ {l}, ![s].shares = @ \cup {l}]
  /\ UNCHANGED <<clock, requestVars, profile, progress>>

InsertSupervisorRequest(s, r) ==
  /\ call[s].op = "create"
  /\ call[s].wants = {}
  /\ ~Exists(r)
  /\ student' = [student EXCEPT ![r] = call[s].student]
  /\ Write(r, "SUBMITTED",
           <<Row(Null, "SUBMITTED", call[s].at)>>,
           <<Event("supervisor_request.created", "SUBMITTED", Null, call[s].at)>>)
  /\ Return(s)
  /\ UNCHANGED <<clock, assignments, profile, progress>>

updateSupervisorStatus(s) ==
  /\ call[s].op = "status"
  /\ LET c == call[s]
         r == c.request
     IN  /\ RequestFree(s, r)
         /\ status[r] \in c.allowed
         /\ Write(r, c.target,
                  <<Row(status[r], c.target, c.at)>>,
                  <<Event(c.type, c.target, Null, c.at)>>)
  /\ Return(s)
  /\ UNCHANGED <<clock, student, assignments, profile, progress>>

\* SELECT COUNT(*) of the assignments that use up the lecturer's quota.
UsesQuota(r, i, l) ==
  /\ assignments[r][i].lecturer = l
  /\ assignments[r][i].status \in {"PENDING", "ACCEPTED"}
  /\ status[r] \in {"ASSIGNED", "ACCEPTED", "COMPLETED"}

Supervisions(l) ==
  {ri \in UNION {{r} \X DOMAIN assignments[r] : r \in Requests} : UsesQuota(ri[1], ri[2], l)}

activeCount(l) == Cardinality(Supervisions(l))

IsPendingFor(r, l) ==
  \E i \in DOMAIN assignments[r] :
    assignments[r][i] = [lecturer |-> l, status |-> "PENDING"]

\* What must hold of the request under its lock.
RequestIsReady(c) ==
  IF c.op = "assign"
  THEN status[c.request] = c.from
  ELSE status[c.request] = "ASSIGNED" /\ IsPendingFor(c.request, c.lecturer)

\* What must hold of the lecturer under her lock.
LecturerIsReady(c) ==
  c.op = "assign" => /\ profile[c.lecturer].active
                     /\ activeCount(c.lecturer) < profile[c.lecturer].quota

NextLock(c) == lockOrder(c.op)[Cardinality(c.held) + 1]

\* One SELECT ... FOR UPDATE and the checks that follow it.
LockAndCheck(s) ==
  /\ call[s].op \in TwoLocks
  /\ LET c == call[s]
     IN  /\ c.held # {"request", "lecturer"}
         /\ \/ /\ NextLock(c) = "request"
               /\ RequestFree(s, c.request)
               /\ RequestIsReady(c)
            \/ /\ NextLock(c) = "lecturer"
               /\ LecturerFree(s, c.lecturer)
               /\ LecturerIsReady(c)
         /\ call' = [call EXCEPT ![s].held = @ \cup {NextLock(c)}]
  /\ UNCHANGED <<clock, requestVars, profile, progress>>

CommitAssignment(s) ==
  /\ call[s].op = "assign"
  /\ call[s].held = {"request", "lecturer"}
  /\ LET c == call[s]
         r == c.request
     IN  /\ assignments' = [assignments EXCEPT ![r] =
                              Append(@, [lecturer |-> c.lecturer, status |-> "PENDING"])]
         /\ Write(r, "ASSIGNED",
                  <<Row(status[r], "ASSIGNED", c.at)>>,
                  <<Event(c.type, "ASSIGNED", c.lecturer, c.at)>>)
  /\ Return(s)
  /\ UNCHANGED <<clock, student, profile, progress>>

\* The pending assignment of the lecturer gets the answer.
Answer(r, l, target) ==
  assignments' = [assignments EXCEPT ![r] = [i \in DOMAIN @ |->
    IF @[i] = [lecturer |-> l, status |-> "PENDING"]
    THEN [lecturer |-> l, status |-> target]
    ELSE @[i]]]

\* Faulty: the assignment stays PENDING.
CommitRejectionOfRequestOnly(s) ==
  /\ call[s].op = "respond"
  /\ call[s].held = {"request", "lecturer"}
  /\ call[s].target = "REJECTED"
  /\ LET c == call[s]
         r == c.request
     IN  Write(r, "REJECTED",
               <<Row(status[r], "REJECTED", c.at)>>,
               <<Event(c.type, "REJECTED", c.lecturer, c.at)>>)
  /\ Return(s)
  /\ UNCHANGED <<clock, student, assignments, profile, progress>>

CommitRejection(s) ==
  /\ call[s].op = "respond"
  /\ call[s].held = {"request", "lecturer"}
  /\ call[s].target = "REJECTED"
  /\ LET c == call[s]
         r == c.request
     IN  /\ Answer(r, c.lecturer, "REJECTED")
         /\ Write(r, "REJECTED",
                  <<Row(status[r], "REJECTED", c.at)>>,
                  <<Event(c.type, "REJECTED", c.lecturer, c.at)>>)
  /\ Return(s)
  /\ UNCHANGED <<clock, student, profile, progress>>

\* Faulty: the completion is left to another transaction.
CommitAcceptanceOnly(s) ==
  /\ call[s].op = "respond"
  /\ call[s].held = {"request", "lecturer"}
  /\ call[s].target = "ACCEPTED"
  /\ LET c == call[s]
         r == c.request
     IN  /\ Answer(r, c.lecturer, "ACCEPTED")
         /\ Write(r, "ACCEPTED",
                  <<Row(status[r], "ACCEPTED", c.at)>>,
                  <<Event(c.type, "ACCEPTED", c.lecturer, c.at)>>)
  /\ Return(s)
  /\ UNCHANGED <<clock, student, profile, progress>>

\* Acceptance completes the request in the same transaction: two history rows
\* and two events with one created_at, and only COMPLETED is ever visible.
\* The handler then goes on to the thesis progress, outside the transaction.
CommitAcceptance(s) ==
  /\ call[s].op = "respond"
  /\ call[s].held = {"request", "lecturer"}
  /\ call[s].target = "ACCEPTED"
  /\ LET c == call[s]
         r == c.request
     IN  /\ Answer(r, c.lecturer, "ACCEPTED")
         /\ Write(r, "COMPLETED",
                  <<Row(status[r], "ACCEPTED", c.at),
                    Row("ACCEPTED", "COMPLETED", c.at)>>,
                  <<Event(c.type, "ACCEPTED", c.lecturer, c.at),
                    Event("supervisor_request.completed", "COMPLETED",
                          c.lecturer, c.at)>>)
         /\ call' = [call EXCEPT ![s] = [op |-> "progress", request |-> r]]
  /\ UNCHANGED <<clock, student, profile, progress>>

\* UNIQUE (student_user_id, milestone_id): a student who has progress rows
\* gets no others, the INSERT fails and the error is swallowed (Rollback).
InitializeProgress(s) ==
  /\ call[s].op = "progress"
  /\ LET r == call[s].request
         u == student[r]
     IN  /\ RequestFree(s, r)
         /\ progress[u] = Null
         /\ progress' = [progress EXCEPT ![u] = r]
  /\ Return(s)
  /\ UNCHANGED <<clock, requestVars, profile>>

\* A failed check, an SQL error, a cancelled context, a crash.
Rollback(s) ==
  /\ call[s] # Idle
  /\ Return(s)
  /\ UNCHANGED <<clock, requestVars, profile, progress>>

-----------------------------------------------------------------------------
(* Administration of the lecturers, single statements.                     *)

NotForUpdate(l) == \A s \in Sessions : ~HoldsLecturer(s, l)

UpsertLecturer(l, q) ==
  /\ NotForUpdate(l)
  /\ profile[l].quota # q
  /\ profile' = [profile EXCEPT ![l].quota = q]
  /\ UNCHANGED <<clock, requestVars, progress, call>>

SetLecturerStatus(l, active) ==
  /\ NotForUpdate(l)
  /\ profile[l].active # active
  /\ profile' = [profile EXCEPT ![l].active = active]
  /\ UNCHANGED <<clock, requestVars, progress, call>>

-----------------------------------------------------------------------------
Next ==
  \/ \E s \in Sessions :
       \/ updateSupervisorStatus(s)
       \/ LockAndCheck(s)
       \/ CommitAssignment(s)
       \/ CommitRejection(s)
       \/ CommitAcceptance(s)
       \/ InitializeProgress(s)
       \/ Rollback(s)
       \/ \E u \in Students, choices \in SUBSET Lecturers :
            CreateSupervisorRequest(s, u, choices)
       \/ \E l \in Lecturers : InsertChoice(s, l)
       \/ \E r \in Requests :
            \/ InsertSupervisorRequest(s, r)
            \/ VerifySupervisorRequest(s, r)
            \/ RequestRevisionSupervisorRequest(s, r)
            \/ CompleteSupervisorRequest(s, r)
            \/ CancelSupervisorRequest(s, r)
            \/ \E l \in Lecturers :
                 \/ AssignSupervisor(s, r, l)
                 \/ ReassignSupervisor(s, r, l)
                 \/ AcceptSupervisorRequest(s, r, l)
                 \/ RejectSupervisorRequest(s, r, l)
  \/ \E l \in Lecturers :
       \/ \E q \in Quotas : UpsertLecturer(l, q)
       \/ \E active \in BOOLEAN : SetLecturerStatus(l, active)

Spec == Init /\ [][Next]_vars

-----------------------------------------------------------------------------
AssignmentRow == [lecturer : Lecturers, status : {"PENDING", "ACCEPTED", "REJECTED"}]

HistoryRow == [old : SupervisorStatus \cup {Null}, new : SupervisorStatus, at : Time]

EventType == {"supervisor_request.created", "supervisor_request.verified",
              "supervisor_request.revision_required", "supervisor_request.cancelled",
              "supervisor_request.assigned", "supervisor_request.reassigned",
              "supervisor_request.accepted", "supervisor_request.rejected",
              "supervisor_request.completed"}

OutboxRow == [type : EventType, status : SupervisorStatus,
              lecturer : Lecturers \cup {Null}, at : Time]

Locks == {{}, {"request"}, {"request", "lecturer"}}

Call ==
  {Idle}
    \cup [op : {"create"}, student : Students, wants : SUBSET Lecturers,
          shares : SUBSET Lecturers, at : Time]
    \cup [op : {"status"}, request : Requests, target : SupervisorStatus,
          allowed : SUBSET SupervisorStatus, type : EventType, at : Time]
    \cup [op : {"assign"}, request : Requests, lecturer : Lecturers,
          from : SupervisorStatus, type : EventType, held : Locks, at : Time]
    \cup [op : {"respond"}, request : Requests, lecturer : Lecturers,
          target : SupervisorStatus, type : EventType, held : Locks, at : Time]
    \cup [op : {"progress"}, request : Requests]

\* Every variable stays in its type; ACCEPTED is never a visible status and a
\* session that has the lecturer's lock has the request's.
TypeOK ==
  /\ clock       \in Time
  /\ status      \in [Requests -> (SupervisorStatus \ {"ACCEPTED"}) \cup {"NONE"}]
  /\ student     \in [Requests -> Students \cup {Null}]
  /\ assignments \in [Requests -> Seq(AssignmentRow)]
  /\ history     \in [Requests -> Seq(HistoryRow)]
  /\ outbox      \in [Requests -> Seq(OutboxRow)]
  /\ profile     \in [Lecturers -> [active : BOOLEAN, quota : Quotas]]
  /\ progress    \in [Students -> Requests \cup {Null}]
  /\ call        \in [Sessions -> Call]

-----------------------------------------------------------------------------
(* Safety.                                                                 *)

Last(seq) == seq[Len(seq)]

\* Two heads of program who assign the last free place at once do not both
\* succeed: whenever the number of a lecturer's supervisions grows, it stays
\* within the quota she has at that moment, lowered in between or not.
NoOverAssignment ==
  [][~UNCHANGED <<status, assignments>> =>
       \A l \in Lecturers :
         activeCount(l)' > activeCount(l) => activeCount(l)' <= profile[l].quota]_vars

\* The assignments of a request agree with its status: one waits for an answer
\* exactly while the request is ASSIGNED, one was accepted exactly when it is
\* COMPLETED, it is the last one, and all the others were rejected.
AssignmentsMatchStatus ==
  \A r \in Requests :
    LET n == Len(assignments[r])
    IN  /\ \A i \in 1 .. n - 1 : assignments[r][i].status = "REJECTED"
        /\ n = 0 => status[r] \notin {"ASSIGNED", "REJECTED", "COMPLETED"}
        /\ n > 0 =>
             \/ status[r] = "ASSIGNED"  /\ Last(assignments[r]).status = "PENDING"
             \/ status[r] = "REJECTED"  /\ Last(assignments[r]).status = "REJECTED"
             \/ status[r] = "COMPLETED" /\ Last(assignments[r]).status = "ACCEPTED"

\* Handlers never wait for each other in a circle: in every set of sessions
\* one waits for no other of the set.
WaitsFor(s, t) ==
  /\ s # t
  /\ \/ /\ call[s].op \in TwoLocks
        /\ call[s].held # {"request", "lecturer"}
        /\ \/ NextLock(call[s]) = "request" /\ HoldsRequest(t, call[s].request)
           \/ /\ NextLock(call[s]) = "lecturer"
              /\ \/ HoldsLecturer(t, call[s].lecturer)
                 \/ SharesLecturer(t, call[s].lecturer)
     \/ call[s].op \in {"status", "progress"} /\ HoldsRequest(t, call[s].request)
     \/ call[s].op = "create" /\ \E l \in call[s].wants : HoldsLecturer(t, l)

NoCircularWait ==
  \A group \in (SUBSET Sessions) \ {{}} :
    \E s \in group : \A t \in group : ~WaitsFor(s, t)

-----------------------------------------------------------------------------
(* Refinement.                                                             *)

\* The table as the outside sees it: acceptance and completion are one move.
VisibleTransitions ==
  [SupervisorTransitions EXCEPT !["ASSIGNED"] = {"COMPLETED", "REJECTED"}]

Lifecycle == INSTANCE RequestLifecycle
  WITH Items <- Requests, Table <- VisibleTransitions,
       First <- "SUBMITTED", Unborn <- "NONE"

\* Whatever the handlers race with, a request moves along the table, one
\* request per commit, and a completed or cancelled one never moves again.
FollowsLifecycle == Lifecycle!Spec
=============================================================================
