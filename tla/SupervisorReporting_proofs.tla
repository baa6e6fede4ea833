---------------------- MODULE SupervisorReporting_proofs ----------------------
(***************************************************************************)
(* Theorems about SupervisorReporting, for any number of requests,         *)
(* students, lecturers and sessions: for whom the workload of              *)
(* reporting-service counts what the quota check of academic-service does. *)
(***************************************************************************)
EXTENDS SupervisorReporting, SupervisorRequests_proofs

Projection == INSTANCE ReportingProjection_proofs WITH LecturerOf <- EventLecturer

SystemNext == RequestStep \/ Tick \/ ReportingStep

-----------------------------------------------------------------------------
(* The workflow inside the composition.                                     *)

\* The clock is the only variable of the workflow that others change.
LEMMA TickKeepsIInv == IInv /\ Tick => IInv'
<1> SUFFICES ASSUME IInv, Tick PROVE IInv'
  OBVIOUS
<1>1. /\ UNCHANGED <<status, student, assignments, history, outbox, profile, progress, call>>
      /\ clock' = clock + 1
  BY DEF Tick, requestVars
<1>2. clock' \in Time
  BY <1>1 DEF IInv, TypeOK, Time
<1>3. TypeOK' /\ AssignmentsMatchStatus' /\ CallsOK'
  BY <1>1, <1>2 DEF IInv, TypeOK, AssignmentsMatchStatus, Last, CallsOK
<1>4. LocksApart' /\ CountsAreFinite'
  BY <1>1 DEF IInv, LocksApart, HoldsRequest, HoldsLecturer, CountsAreFinite, Supervisions,
              UsesQuota
<1>5. ASSUME NEW c PROVE RequestIsReady(c)' = RequestIsReady(c)
  BY <1>1 DEF RequestIsReady, IsPendingFor
<1>6. ASSUME NEW c PROVE LecturerIsReady(c)' = LecturerIsReady(c)
  BY <1>1 DEF LecturerIsReady, activeCount, Supervisions, UsesQuota
<1>7. ChecksHold'
  BY <1>1, <1>5, <1>6 DEF IInv, ChecksHold
<1> QED BY <1>3, <1>4, <1>7 DEF IInv

LEMMA SystemSteps ==
  ASSUME [SystemNext]_systemVars
  PROVE  /\ Tick \/ [Next]_vars
         /\ \/ RequestStep
            \/ Tick
            \/ Reporting!Next /\ UNCHANGED vars
            \/ UNCHANGED systemVars
  BY DEF SystemNext, systemVars, RequestStep, ReportingStep

LEMMA SystemKeepsIInv == IInv /\ [SystemNext]_systemVars => IInv'
  BY SystemSteps, TickKeepsIInv, NextIInv

-----------------------------------------------------------------------------
(* What a step adds to the outbox.                                          *)

\* A pending transaction, whose NOW() has been fixed.
Began(c) == c.op \notin {"idle", "progress"}

\* The requests whose outbox the transaction may write to.
Concerns(c, r) ==
  \/ c.op = "create" /\ ~Exists(r)
  \/ c.op \in {"status", "assign", "respond"} /\ c.request = r

\* Acceptance is announced twice, as accepted and as completed.
AcceptancePair(events) ==
  /\ Len(events) = 2
  /\ events[1].status = "ACCEPTED" /\ events[2].status = "COMPLETED"
  /\ events[1].lecturer = events[2].lecturer

\* The events of one commit: they carry its time, and the last one says what
\* the request is from then on and, if it has a supervisor, who that is.
Adds(r, at) ==
  \E events \in Seq(OutboxRow) :
    /\ outbox'[r] = outbox[r] \o events
    /\ Len(events) = 1 \/ AcceptancePair(events)
    /\ \A k \in DOMAIN events : events[k].at = at
    /\ Last(events).status = status'[r] /\ status'[r] # "NONE"
    /\ status'[r] \in {"ASSIGNED", "COMPLETED"} =>
         Last(events).lecturer = Last(assignments'[r]).lecturer

Keeps(r) == UNCHANGED <<outbox[r], status[r], assignments[r]>>

\* A commit writes to one request, and its session holds no transaction after it.
Commits(s, r) ==
  /\ Began(call[s]) /\ call[s].at \in Time /\ Concerns(call[s], r)
  /\ \E e : ~Began(e) /\ call' = [call EXCEPT ![s] = e]
  /\ clock' = clock
  /\ Adds(r, call[s].at)
  /\ \A q \in Requests : q # r => Keeps(q)

LEMMA Kinds ==
  ASSUME IInv, NEW s \in Sessions
  PROVE  /\ call[s] \in Call
         /\ Began(call[s]) => call[s].at \in Time
         /\ Began(call[s]) <=> call[s].op \in {"create", "status", "assign", "respond"}
<1>1. call[s] \in Call
  BY DEF IInv, TypeOK
<1> QED BY <1>1, CallKinds DEF Began

\* One event.
LEMMA OneEvent ==
  ASSUME IInv, NEW r \in Requests, NEW rows,
         NEW type \in EventType, NEW new \in SupervisorStatus,
         NEW l \in Lecturers \cup {Null}, NEW at \in Time,
         Write(r, new, rows, <<Event(type, new, l, at)>>),
         new \in {"ASSIGNED", "COMPLETED"} => l = Last(assignments'[r]).lecturer,
         \A q \in Requests : q # r => assignments'[q] = assignments[q]
  PROVE  Adds(r, at) /\ \A q \in Requests : q # r => Keeps(q)
<1> DEFINE e == Event(type, new, l, at)
           events == <<e>>
<1>1. /\ outbox \in [Requests -> Seq(OutboxRow)] /\ DOMAIN status = Requests
      /\ outbox' = [outbox EXCEPT ![r] = @ \o events]
      /\ status' = [status EXCEPT ![r] = new]
  BY DEF IInv, TypeOK, Write
<1>2. /\ e \in OutboxRow /\ e.at = at /\ e.status = new /\ e.lecturer = l
      /\ new # "NONE"
  BY DEF Event, OutboxRow, SupervisorStatus
<1>3. /\ events \in Seq(OutboxRow) /\ Len(events) = 1 /\ DOMAIN events = {1}
      /\ events[1] = e /\ Last(events) = e
  <2> HIDE DEF e
  <2> QED BY <1>2 DEF Last
<1> HIDE DEF e, events
<1>4. /\ outbox'[r] = outbox[r] \o events /\ status'[r] = new
      /\ \A q \in Requests : q # r => outbox'[q] = outbox[q] /\ status'[q] = status[q]
  BY <1>1
<1>5. Adds(r, at)
  BY <1>2, <1>3, <1>4 DEF Adds
<1> QED BY <1>4, <1>5 DEF Keeps

\* The two events of an acceptance.
LEMMA TwoEvents ==
  ASSUME IInv, NEW r \in Requests, NEW rows,
         NEW type \in EventType, NEW l \in Lecturers, NEW at \in Time,
         Write(r, "COMPLETED", rows,
               <<Event(type, "ACCEPTED", l, at),
                 Event("supervisor_request.completed", "COMPLETED", l, at)>>),
         l = Last(assignments'[r]).lecturer,
         \A q \in Requests : q # r => assignments'[q] = assignments[q]
  PROVE  Adds(r, at) /\ \A q \in Requests : q # r => Keeps(q)
<1> DEFINE d == Event(type, "ACCEPTED", l, at)
           e == Event("supervisor_request.completed", "COMPLETED", l, at)
           events == <<d, e>>
<1>1. /\ outbox \in [Requests -> Seq(OutboxRow)] /\ DOMAIN status = Requests
      /\ outbox' = [outbox EXCEPT ![r] = @ \o events]
      /\ status' = [status EXCEPT ![r] = "COMPLETED"]
  BY DEF IInv, TypeOK, Write
<1>2. /\ d \in OutboxRow /\ d.at = at /\ d.status = "ACCEPTED" /\ d.lecturer = l
      /\ e \in OutboxRow /\ e.at = at /\ e.status = "COMPLETED" /\ e.lecturer = l
  BY DEF Event, OutboxRow, SupervisorStatus, EventType
<1>3. /\ events \in Seq(OutboxRow) /\ Len(events) = 2 /\ DOMAIN events = {1, 2}
      /\ events[1] = d /\ events[2] = e /\ Last(events) = e
  <2> HIDE DEF d, e
  <2> QED BY <1>2 DEF Last
<1> HIDE DEF d, e, events
<1>4. /\ outbox'[r] = outbox[r] \o events /\ status'[r] = "COMPLETED"
      /\ \A q \in Requests : q # r => outbox'[q] = outbox[q] /\ status'[q] = status[q]
  BY <1>1
<1>5. AcceptancePair(events)
  BY <1>2, <1>3 DEF AcceptancePair
<1>6. \A k \in DOMAIN events : events[k].at = at
  BY <1>2, <1>3
<1>7. Last(events).status = "COMPLETED" /\ Last(events).lecturer = l
  BY <1>2, <1>3
<1>8. Adds(r, at)
  BY <1>3, <1>4, <1>5, <1>6, <1>7 DEF Adds
<1> QED BY <1>4, <1>8 DEF Keeps

LEMMA OutboxSteps ==
  ASSUME IInv, [Next]_vars
  PROVE  \/ \A r \in Requests : Keeps(r)
         \/ \E s \in Sessions, r \in Requests : Commits(s, r)
<1>1. ASSUME NEW s \in Sessions, NEW r \in Requests, InsertSupervisorRequest(s, r)
      PROVE  Commits(s, r)
  <2>1. /\ call[s].op = "create" /\ ~Exists(r) /\ clock' = clock
        /\ call' = [call EXCEPT ![s] = Idle] /\ assignments' = assignments
        /\ Write(r, "SUBMITTED", <<Row(Null, "SUBMITTED", call[s].at)>>,
             <<Event("supervisor_request.created", "SUBMITTED", Null, call[s].at)>>)
    BY <1>1 DEF InsertSupervisorRequest, Return
  <2>2. Began(call[s]) /\ call[s].at \in Time /\ ~Began(Idle)
    BY <2>1, Kinds DEF Began, Idle
  <2>3. "supervisor_request.created" \in EventType /\ "SUBMITTED" \in SupervisorStatus
    BY DEF EventType, SupervisorStatus
  <2>4. Adds(r, call[s].at) /\ \A q \in Requests : q # r => Keeps(q)
    BY <2>1, <2>2, <2>3, OneEvent
  <2> QED BY <2>1, <2>2, <2>4 DEF Commits, Concerns
<1>2. ASSUME NEW s \in Sessions, updateSupervisorStatus(s)
      PROVE  \E r \in Requests : Commits(s, r)
  <2>1. PICK r \in Requests : r = call[s].request
    BY <1>2, StatusFacts
  <2>2. PICK new \in SupervisorStatus : new = call[s].target
    BY <1>2, StatusFacts DEF SupervisorStatus
  <2>3. /\ call[s].op = "status" /\ clock' = clock
        /\ call' = [call EXCEPT ![s] = Idle] /\ assignments' = assignments
        /\ Write(r, new, <<Row(status[r], new, call[s].at)>>,
             <<Event(call[s].type, new, Null, call[s].at)>>)
    BY <1>2, <2>1, <2>2 DEF updateSupervisorStatus, Return
  <2>4. Began(call[s]) /\ call[s].at \in Time /\ ~Began(Idle) /\ call[s].type \in EventType
    BY <2>3, Kinds, CallKinds DEF Began, Idle
  <2>5. new \notin {"ASSIGNED", "COMPLETED"}
    BY <1>2, <2>2, StatusFacts
  <2>6. Adds(r, call[s].at) /\ \A q \in Requests : q # r => Keeps(q)
    BY <2>3, <2>4, <2>5, OneEvent
  <2> QED BY <2>1, <2>3, <2>4, <2>6 DEF Commits, Concerns
<1>3. ASSUME NEW s \in Sessions, CommitAssignment(s)
      PROVE  \E r \in Requests : Commits(s, r)
  <2>1. PICK r \in Requests : r = call[s].request
    BY <1>3, AssignmentFacts
  <2>2. PICK l \in Lecturers : l = call[s].lecturer
    BY <1>3, AssignmentFacts
  <2>3. /\ call[s].op = "assign" /\ clock' = clock
        /\ call' = [call EXCEPT ![s] = Idle]
        /\ Write(r, "ASSIGNED", <<Row(status[r], "ASSIGNED", call[s].at)>>,
             <<Event(call[s].type, "ASSIGNED", l, call[s].at)>>)
    BY <1>3, <2>1, <2>2 DEF CommitAssignment, Return
  <2>4. Began(call[s]) /\ call[s].at \in Time /\ ~Began(Idle) /\ call[s].type \in EventType
    BY <2>3, Kinds, CallKinds DEF Began, Idle
  <2>5. /\ Last(assignments'[r]).lecturer = l
        /\ \A q \in Requests : q # r => assignments'[q] = assignments[q]
    BY <1>3, <2>1, <2>2, AssignmentFacts DEF Last
  <2>6. "ASSIGNED" \in SupervisorStatus
    BY DEF SupervisorStatus
  <2>7. Adds(r, call[s].at) /\ \A q \in Requests : q # r => Keeps(q)
    BY <2>3, <2>4, <2>5, <2>6, OneEvent
  <2> QED BY <2>1, <2>3, <2>4, <2>7 DEF Commits, Concerns
<1>4. ASSUME NEW s \in Sessions, CommitRejection(s)
      PROVE  \E r \in Requests : Commits(s, r)
  <2>0. /\ call[s].op = "respond" /\ call[s].held = {"request", "lecturer"}
        /\ Answer(call[s].request, call[s].lecturer, "REJECTED")
    BY <1>4 DEF CommitRejection
  <2>1. PICK r \in Requests : r = call[s].request
    BY <2>0, AnswerFacts
  <2>2. PICK l \in Lecturers : l = call[s].lecturer
    BY <2>0, AnswerFacts
  <2>3. /\ clock' = clock
        /\ call' = [call EXCEPT ![s] = Idle]
        /\ Write(r, "REJECTED", <<Row(status[r], "REJECTED", call[s].at)>>,
             <<Event(call[s].type, "REJECTED", l, call[s].at)>>)
    BY <1>4, <2>1, <2>2 DEF CommitRejection, Return
  <2>4. Began(call[s]) /\ call[s].at \in Time /\ ~Began(Idle) /\ call[s].type \in EventType
    BY <2>0, Kinds, CallKinds DEF Began, Idle
  <2>5. \A q \in Requests : q # r => assignments'[q] = assignments[q]
    BY <2>0, <2>1, AnswerFacts
  <2>6. "REJECTED" \in SupervisorStatus
    BY DEF SupervisorStatus
  <2>7. Adds(r, call[s].at) /\ \A q \in Requests : q # r => Keeps(q)
    BY <2>3, <2>4, <2>5, <2>6, OneEvent
  <2> QED BY <2>0, <2>1, <2>3, <2>4, <2>7 DEF Commits, Concerns
<1>5. ASSUME NEW s \in Sessions, CommitAcceptance(s)
      PROVE  \E r \in Requests : Commits(s, r)
  <2> DEFINE e == [op |-> "progress", request |-> call[s].request]
  <2>0. /\ call[s].op = "respond" /\ call[s].held = {"request", "lecturer"}
        /\ Answer(call[s].request, call[s].lecturer, "ACCEPTED")
    BY <1>5 DEF CommitAcceptance
  <2>1. PICK r \in Requests : r = call[s].request
    BY <2>0, AnswerFacts
  <2>2. PICK l \in Lecturers : l = call[s].lecturer
    BY <2>0, AnswerFacts
  <2>3. PICK rows : /\ clock' = clock
        /\ call' = [call EXCEPT ![s] = e]
        /\ Write(r, "COMPLETED", rows,
             <<Event(call[s].type, "ACCEPTED", l, call[s].at),
               Event("supervisor_request.completed", "COMPLETED", l, call[s].at)>>)
    BY <1>5, <2>1, <2>2 DEF CommitAcceptance
  <2>4. Began(call[s]) /\ call[s].at \in Time /\ ~Began(e) /\ call[s].type \in EventType
    BY <2>0, Kinds, CallKinds DEF Began
  <2>5. /\ Last(assignments'[r]).lecturer = l
        /\ \A q \in Requests : q # r => assignments'[q] = assignments[q]
    BY <2>0, <2>1, <2>2, AnswerFacts DEF Last
  <2>6. Adds(r, call[s].at) /\ \A q \in Requests : q # r => Keeps(q)
    BY <2>3, <2>4, <2>5, TwoEvents
  <2> QED BY <2>0, <2>1, <2>3, <2>4, <2>6 DEF Commits, Concerns
<1>6. CASE UNCHANGED <<status, assignments, outbox>>
  BY <1>6 DEF Keeps
<1>7. CASE ~UNCHANGED <<status, assignments, outbox>>
  BY <1>1, <1>2, <1>3, <1>4, <1>5, <1>7, WritingSteps
<1> QED BY <1>6, <1>7

\* What the events of a commit do to the outbox.
LEMMA AddedEvents ==
  ASSUME IInv, NEW r \in Requests, NEW at, Adds(r, at)
  PROVE  LET n == Len(outbox[r])
             m == Len(outbox'[r])
         IN  /\ n \in Nat /\ DOMAIN outbox[r] = 1 .. n
             /\ m \in {n + 1, n + 2} /\ DOMAIN outbox'[r] = 1 .. m
             /\ \A k \in 1 .. n : outbox'[r][k] = outbox[r][k]
             /\ \A k \in n + 1 .. m : outbox'[r][k].at = at
             /\ outbox'[r][m].status = status'[r] /\ status'[r] # "NONE"
             /\ status'[r] \in {"ASSIGNED", "COMPLETED"} =>
                  outbox'[r][m].lecturer = Last(assignments'[r]).lecturer
             /\ m = n + 2 =>
                  /\ outbox'[r][n + 1].status = "ACCEPTED"
                  /\ outbox'[r][n + 2].status = "COMPLETED"
                  /\ outbox'[r][n + 1].lecturer = outbox'[r][n + 2].lecturer
<1> DEFINE n == Len(outbox[r])
<1>1. outbox[r] \in Seq(OutboxRow) /\ n \in Nat /\ DOMAIN outbox[r] = 1 .. n
  BY DEF IInv, TypeOK
<1>2. PICK events \in Seq(OutboxRow) :
        /\ outbox'[r] = outbox[r] \o events
        /\ Len(events) = 1 \/ AcceptancePair(events)
        /\ \A k \in DOMAIN events : events[k].at = at
        /\ Last(events).status = status'[r] /\ status'[r] # "NONE"
        /\ status'[r] \in {"ASSIGNED", "COMPLETED"} =>
             Last(events).lecturer = Last(assignments'[r]).lecturer
  BY DEF Adds
<1>3. Len(events) \in {1, 2} /\ DOMAIN events = 1 .. Len(events)
  BY <1>2 DEF AcceptancePair
<1>4. /\ Len(outbox'[r]) = n + Len(events) /\ DOMAIN outbox'[r] = 1 .. n + Len(events)
      /\ \A k \in 1 .. n : outbox'[r][k] = outbox[r][k]
      /\ \A k \in 1 .. Len(events) : outbox'[r][n + k] = events[k]
  BY <1>1, <1>2, <1>3
<1> HIDE DEF n
<1>5. \A k \in n + 1 .. n + Len(events) : outbox'[r][k].at = at
  <2> SUFFICES ASSUME NEW k \in n + 1 .. n + Len(events)
               PROVE  outbox'[r][k].at = at
    OBVIOUS
  <2>1. k - n \in 1 .. Len(events) /\ n + (k - n) = k
    BY <1>1, <1>3
  <2>2. PICK j \in 1 .. Len(events) : n + j = k
    BY <2>1
  <2>3. outbox'[r][n + j] = events[j] /\ events[j].at = at
    BY <1>2, <1>3, <1>4
  <2> QED BY <2>2, <2>3
<1>6. CASE Len(events) = 1
  BY <1>1, <1>2, <1>4, <1>5, <1>6 DEF Last, n
<1>7. CASE Len(events) = 2
  <2>1. 1 \in 1 .. Len(events) /\ 2 \in 1 .. Len(events)
    BY <1>7
  <2>2. /\ outbox'[r][n + 1] = events[1] /\ outbox'[r][n + 2] = events[2]
    BY <1>4, <2>1
  <2>3. Last(events) = events[2] /\ AcceptancePair(events)
    BY <1>2, <1>7 DEF Last
  <2> QED BY <1>1, <1>2, <1>4, <1>5, <1>7, <2>2, <2>3 DEF AcceptancePair, n
<1> QED BY <1>3, <1>6, <1>7

LEMMA StampedRows ==
  ASSUME NEW seq \in Seq(OutboxRow)
  PROVE  /\ Len(seq) \in Nat /\ DOMAIN seq = 1 .. Len(seq)
         /\ \A k \in DOMAIN seq : seq[k].at \in Nat
<1>1. \A e \in OutboxRow : e.at \in Nat
  BY DEF OutboxRow, Time
<1> QED BY <1>1

LEMMA OutboxStamped ==
  /\ IInv => Projection!Stamped
  /\ IInv' => Projection!Stamped'
  BY StampedRows DEF Projection!Stamped, IInv, TypeOK

LEMMA OutboxOnlyGrows ==
  ASSUME IInv, [SystemNext]_systemVars
  PROVE  Projection!OnlyAdds
<1> SUFFICES ASSUME NEW r \in Requests
             PROVE  /\ DOMAIN outbox[r] \subseteq DOMAIN outbox'[r]
                    /\ \A k \in DOMAIN outbox[r] : outbox'[r][k] = outbox[r][k]
  BY DEF Projection!OnlyAdds
<1>1. CASE outbox'[r] = outbox[r]
  BY <1>1
<1>2. ASSUME NEW at, Adds(r, at)
      PROVE  /\ DOMAIN outbox[r] \subseteq DOMAIN outbox'[r]
             /\ \A k \in DOMAIN outbox[r] : outbox'[r][k] = outbox[r][k]
  <2> DEFINE n == Len(outbox[r])
             m == Len(outbox'[r])
  <2>1. /\ n \in Nat /\ DOMAIN outbox[r] = 1 .. n
        /\ m \in {n + 1, n + 2} /\ DOMAIN outbox'[r] = 1 .. m
        /\ \A k \in 1 .. n : outbox'[r][k] = outbox[r][k]
    BY <1>2, AddedEvents
  <2> HIDE DEF n, m
  <2> QED BY <2>1
<1>3. Tick => outbox' = outbox
  BY DEF Tick, requestVars
<1> QED BY <1>1, <1>2, <1>3, SystemSteps, OutboxSteps DEF Keeps, Commits

-----------------------------------------------------------------------------
(* The calls.                                                               *)

\* A transaction that is under way after a step began with it, or was under
\* way before it with the same time and the same request.
LEMMA CallSteps ==
  ASSUME IInv, [Next]_vars, NEW s \in Sessions, Began(call'[s])
  PROVE  \/ /\ call[s] = Idle /\ call'[s].at = clock
            /\ call'[s].op # "create" => Exists(call'[s].request)
            /\ UNCHANGED <<clock, status, assignments, outbox>>
            /\ \A t \in Sessions : t # s => call'[t] = call[t]
         \/ /\ Began(call[s]) /\ call'[s].at = call[s].at /\ call'[s].op = call[s].op
            /\ call[s].op # "create" => call'[s].request = call[s].request
<1> DEFINE Starts == /\ call[s] = Idle /\ call'[s].at = clock
                     /\ call'[s].op # "create" => Exists(call'[s].request)
                     /\ UNCHANGED <<clock, status, assignments, outbox>>
                     /\ \A t \in Sessions : t # s => call'[t] = call[t]
           GoesOn == /\ Began(call[s]) /\ call'[s].at = call[s].at
                     /\ call'[s].op = call[s].op
                     /\ call[s].op # "create" => call'[s].request = call[s].request
<1>0. call \in [Sessions -> Call]
  BY DEF IInv, TypeOK
<1>1. ASSUME call'[s] = call[s] PROVE GoesOn
  BY <1>1
<1>2. ASSUME NEW t \in Sessions, NEW e, ~Began(e), call' = [call EXCEPT ![t] = e]
      PROVE  GoesOn
  BY <1>0, <1>2
<1>3. ASSUME NEW t \in Sessions, NEW c, Begin(t, c), c.at = clock,
             c.op # "create" => Exists(c.request)
      PROVE  Starts \/ GoesOn
  <2>1. /\ call[t] = Idle /\ call' = [call EXCEPT ![t] = c]
        /\ UNCHANGED <<clock, status, assignments, outbox>>
    BY <1>3 DEF Begin, requestVars
  <2>2. CASE t = s
    BY <1>0, <1>3, <2>1, <2>2
  <2>3. CASE t # s
    BY <1>0, <1>1, <2>1, <2>3
  <2> QED BY <2>2, <2>3
<1>4. ASSUME NEW t \in Sessions,
             \/ LockAndCheck(t)
             \/ \E l \in Lecturers : InsertChoice(t, l)
      PROVE  GoesOn
  <2>1. CASE t = s
    <3>1. \/ call'[s] = [call[s] EXCEPT !.held = @ \cup {NextLock(call[s])}]
          \/ \E l : call'[s] = [call[s] EXCEPT !.wants = @ \ {l}, !.shares = @ \cup {l}]
      BY <1>0, <1>4, <2>1 DEF LockAndCheck, InsertChoice
    <3>2. call[s] \in Call /\ call[s].op \in {"create", "assign", "respond"}
      BY <1>0, <1>4, <2>1 DEF LockAndCheck, InsertChoice, TwoLocks
    <3>3. /\ call'[s].op = call[s].op /\ call'[s].at = call[s].at
          /\ call[s].op # "create" => call'[s].request = call[s].request
      BY <3>1, <3>2 DEF Call, Idle
    <3> QED BY <3>2, <3>3 DEF Began
  <2>2. CASE t # s
    BY <1>0, <1>1, <1>4, <2>2 DEF LockAndCheck, InsertChoice
  <2> QED BY <2>1, <2>2
<1>5. ASSUME NEW t \in Sessions,
             \/ \E r \in Requests : InsertSupervisorRequest(t, r)
             \/ updateSupervisorStatus(t)
             \/ CommitAssignment(t)
             \/ CommitRejection(t)
             \/ InitializeProgress(t)
             \/ Rollback(t)
      PROVE  GoesOn
  <2>1. ~Began(Idle)
    BY DEF Began, Idle
  <2>2. call' = [call EXCEPT ![t] = Idle]
    BY <1>5 DEF InsertSupervisorRequest, updateSupervisorStatus, CommitAssignment,
                CommitRejection, InitializeProgress, Rollback, Return
  <2> QED BY <1>2, <2>1, <2>2
<1>6. ASSUME NEW t \in Sessions, CommitAcceptance(t)
      PROVE  GoesOn
  <2>1. /\ ~Began([op |-> "progress", request |-> call[t].request])
        /\ call' = [call EXCEPT ![t] = [op |-> "progress", request |-> call[t].request]]
    BY <1>6 DEF Began, CommitAcceptance
  <2> QED BY <1>2, <2>1
<1>7. ASSUME NEW l \in Lecturers,
             \/ \E q \in Quotas : UpsertLecturer(l, q)
             \/ \E active \in BOOLEAN : SetLecturerStatus(l, active)
      PROVE  GoesOn
  BY <1>1, <1>7 DEF UpsertLecturer, SetLecturerStatus
<1>8. ASSUME NEW t \in Sessions,
             \/ \E u \in Students, choices \in SUBSET Lecturers :
                  CreateSupervisorRequest(t, u, choices)
             \/ \E r \in Requests :
                  \/ VerifySupervisorRequest(t, r)
                  \/ RequestRevisionSupervisorRequest(t, r)
                  \/ CompleteSupervisorRequest(t, r)
                  \/ CancelSupervisorRequest(t, r)
                  \/ \E l \in Lecturers :
                       \/ AssignSupervisor(t, r, l)
                       \/ ReassignSupervisor(t, r, l)
                       \/ AcceptSupervisorRequest(t, r, l)
                       \/ RejectSupervisorRequest(t, r, l)
      PROVE  Starts \/ GoesOn
  <2> HIDE DEF Starts, GoesOn
  <2> QED BY <1>3, <1>8 DEF CreateSupervisorRequest, VerifySupervisorRequest,
       RequestRevisionSupervisorRequest, CompleteSupervisorRequest, CancelSupervisorRequest,
       changeStatus, AssignSupervisor, ReassignSupervisor, AcceptSupervisorRequest,
       RejectSupervisorRequest, respondSupervisorAssignment
<1>9. ASSUME UNCHANGED vars
      PROVE  GoesOn
  BY <1>1, <1>9 DEF vars
<1> HIDE DEF Starts, GoesOn
<1>10. Starts \/ GoesOn
  BY <1>4, <1>5, <1>6, <1>7, <1>8, <1>9 DEF Next
<1> QED BY <1>10 DEF Starts, GoesOn

\* ... and no step of the workflow changes the clock.
LEMMA ClockStands ==
  ASSUME [Next]_vars
  PROVE  clock' = clock
<1>1. ASSUME NEW s \in Sessions, NEW c, Begin(s, c)
      PROVE  clock' = clock
  BY <1>1 DEF Begin
<1>2. ASSUME NEW s \in Sessions,
             \/ \E u \in Students, choices \in SUBSET Lecturers :
                  CreateSupervisorRequest(s, u, choices)
             \/ \E r \in Requests :
                  \/ VerifySupervisorRequest(s, r)
                  \/ RequestRevisionSupervisorRequest(s, r)
                  \/ CompleteSupervisorRequest(s, r)
                  \/ CancelSupervisorRequest(s, r)
                  \/ \E l \in Lecturers :
                       \/ AssignSupervisor(s, r, l)
                       \/ ReassignSupervisor(s, r, l)
                       \/ AcceptSupervisorRequest(s, r, l)
                       \/ RejectSupervisorRequest(s, r, l)
      PROVE  clock' = clock
  BY <1>1, <1>2 DEF CreateSupervisorRequest, VerifySupervisorRequest,
     RequestRevisionSupervisorRequest, CompleteSupervisorRequest, CancelSupervisorRequest,
     changeStatus, AssignSupervisor, ReassignSupervisor, AcceptSupervisorRequest,
     RejectSupervisorRequest, respondSupervisorAssignment
<1>3. ASSUME NEW s \in Sessions,
             \/ \E r \in Requests : InsertSupervisorRequest(s, r)
             \/ updateSupervisorStatus(s) \/ LockAndCheck(s) \/ CommitAssignment(s)
             \/ CommitRejection(s) \/ CommitAcceptance(s) \/ InitializeProgress(s)
             \/ Rollback(s) \/ \E l \in Lecturers : InsertChoice(s, l)
      PROVE  clock' = clock
  BY <1>3 DEF InsertSupervisorRequest, updateSupervisorStatus, LockAndCheck,
     CommitAssignment, CommitRejection, CommitAcceptance, InitializeProgress, Rollback,
     InsertChoice
<1>4. ASSUME NEW l \in Lecturers,
             \/ \E q \in Quotas : UpsertLecturer(l, q)
             \/ \E active \in BOOLEAN : SetLecturerStatus(l, active)
      PROVE  clock' = clock
  BY <1>4 DEF UpsertLecturer, SetLecturerStatus
<1>5. CASE UNCHANGED vars
  BY <1>5 DEF vars
<1> QED BY <1>2, <1>3, <1>4, <1>5 DEF Next
-----------------------------------------------------------------------------
(* The invariant.                                                           *)

\* The last event of a request says what the request is and who supervises it.
EventsTell ==
  \A r \in Requests :
    /\ ~Exists(r) => DOMAIN outbox[r] = {}
    /\ Exists(r) =>
         /\ Len(outbox[r]) > 0
         /\ Last(outbox[r]).status = status[r]
         /\ status[r] \in {"ASSIGNED", "COMPLETED"} =>
              Last(outbox[r]).lecturer = Last(assignments[r]).lecturer

\* A transaction under way has a time of its own, and a request to work on.
Stamps ==
  \A s \in Sessions : Began(call[s]) =>
    /\ \A t \in Sessions : t # s /\ Began(call[t]) => call[t].at # call[s].at
    /\ \A r \in Requests : \A k \in DOMAIN outbox[r] : outbox[r][k].at # call[s].at
    /\ call[s].op # "create" => Exists(call[s].request)

\* Only accepted and completed of one acceptance have the same time.
PairsOnly ==
  \A r \in Requests : \A j, k \in DOMAIN outbox[r] :
    j < k /\ outbox[r][j].at = outbox[r][k].at =>
      /\ outbox[r][j].status = "ACCEPTED" /\ outbox[r][k].status = "COMPLETED"
      /\ outbox[r][j].lecturer = outbox[r][k].lecturer

SystemInv ==
  IInv /\ EventsTell /\ Stamps /\ PairsOnly /\ Projection!ProjectionInv

LEMMA SystemOutbox ==
  ASSUME IInv, [SystemNext]_systemVars
  PROVE  \/ \A r \in Requests : Keeps(r)
         \/ \E s \in Sessions, r \in Requests : Commits(s, r)
<1>1. Tick => \A r \in Requests : Keeps(r)
  BY DEF Tick, requestVars, Keeps
<1> QED BY <1>1, SystemSteps, OutboxSteps

LEMMA EventsTellNext ==
  ASSUME IInv, EventsTell, [SystemNext]_systemVars
  PROVE  EventsTell'
<1> SUFFICES ASSUME NEW r \in Requests
             PROVE  /\ status'[r] = "NONE" => DOMAIN outbox'[r] = {}
                    /\ status'[r] # "NONE" =>
                         /\ Len(outbox'[r]) > 0
                         /\ Last(outbox'[r]).status = status'[r]
                         /\ status'[r] \in {"ASSIGNED", "COMPLETED"} =>
                              Last(outbox'[r]).lecturer = Last(assignments'[r]).lecturer
  BY DEF EventsTell, Exists, Last
<1>1. CASE Keeps(r)
  BY <1>1 DEF Keeps, EventsTell, Exists
<1>2. ASSUME NEW at, Adds(r, at)
      PROVE  /\ status'[r] # "NONE" /\ Len(outbox'[r]) > 0
             /\ Last(outbox'[r]).status = status'[r]
             /\ status'[r] \in {"ASSIGNED", "COMPLETED"} =>
                  Last(outbox'[r]).lecturer = Last(assignments'[r]).lecturer
  <2> DEFINE n == Len(outbox[r])
             m == Len(outbox'[r])
  <2>1. /\ n \in Nat /\ m \in {n + 1, n + 2}
        /\ outbox'[r][m].status = status'[r] /\ status'[r] # "NONE"
        /\ status'[r] \in {"ASSIGNED", "COMPLETED"} =>
             outbox'[r][m].lecturer = Last(assignments'[r]).lecturer
    BY <1>2, AddedEvents
  <2>2. Last(outbox'[r]) = outbox'[r][m]
    BY DEF Last
  <2>3. m > 0
    BY <2>1
  <2> HIDE DEF n, m
  <2> QED BY <2>1, <2>2, <2>3 DEF m
<1> QED BY <1>1, <1>2, SystemOutbox DEF Commits

LEMMA PairsOnlyNext ==
  ASSUME IInv, Stamps, PairsOnly, [SystemNext]_systemVars
  PROVE  PairsOnly'
<1> SUFFICES ASSUME NEW r \in Requests, NEW j \in DOMAIN outbox'[r],
                    NEW k \in DOMAIN outbox'[r], j < k,
                    outbox'[r][j].at = outbox'[r][k].at
             PROVE  /\ outbox'[r][j].status = "ACCEPTED"
                    /\ outbox'[r][k].status = "COMPLETED"
                    /\ outbox'[r][j].lecturer = outbox'[r][k].lecturer
  BY DEF PairsOnly
<1>1. CASE Keeps(r)
  BY <1>1 DEF Keeps, PairsOnly
<1>2. ASSUME NEW s \in Sessions, Began(call[s]), Adds(r, call[s].at)
      PROVE  /\ outbox'[r][j].status = "ACCEPTED"
             /\ outbox'[r][k].status = "COMPLETED"
             /\ outbox'[r][j].lecturer = outbox'[r][k].lecturer
  <2> DEFINE n == Len(outbox[r])
             m == Len(outbox'[r])
  <2>1. /\ n \in Nat /\ DOMAIN outbox[r] = 1 .. n
        /\ m \in {n + 1, n + 2} /\ DOMAIN outbox'[r] = 1 .. m
        /\ \A i \in 1 .. n : outbox'[r][i] = outbox[r][i]
        /\ \A i \in n + 1 .. m : outbox'[r][i].at = call[s].at
        /\ m = n + 2 =>
             /\ outbox'[r][n + 1].status = "ACCEPTED"
             /\ outbox'[r][n + 2].status = "COMPLETED"
             /\ outbox'[r][n + 1].lecturer = outbox'[r][n + 2].lecturer
    BY <1>2, AddedEvents
  <2>2. \A i \in 1 .. n : outbox[r][i].at # call[s].at
    BY <1>2, <2>1 DEF Stamps
  <2> HIDE DEF n, m
  <2>3. CASE k \in 1 .. n
    <3>1. j \in 1 .. n
      BY <2>1, <2>3
    <3> QED BY <2>1, <2>3, <3>1 DEF PairsOnly
  <2>4. CASE ~(k \in 1 .. n)
    <3>1. k \in n + 1 .. m
      BY <2>1, <2>4
    <3>2. ~(j \in 1 .. n)
      BY <2>1, <2>2, <3>1
    <3>3. j = n + 1 /\ k = n + 2 /\ m = n + 2
      BY <2>1, <3>1, <3>2
    <3> QED BY <2>1, <3>3
  <2> QED BY <2>3, <2>4
<1> QED BY <1>1, <1>2, SystemOutbox DEF Commits

\* A transaction begins at a time that nobody has used.
LEMMA SystemCalls ==
  ASSUME IInv, [SystemNext]_systemVars, NEW s \in Sessions, Began(call'[s])
  PROVE  \/ /\ call'[s].at = clock /\ FreshInstant
            /\ call'[s].op # "create" => Exists(call'[s].request)
            /\ UNCHANGED <<clock, status, outbox>>
            /\ \A t \in Sessions : t # s => call'[t] = call[t]
         \/ /\ Began(call[s]) /\ call'[s].at = call[s].at /\ call'[s].op = call[s].op
            /\ call[s].op # "create" => call'[s].request = call[s].request
<1>1. CASE call'[s] = call[s]
  BY <1>1
<1>2. CASE call'[s] # call[s]
  <2>1. RequestStep
    BY <1>2 DEF SystemNext, Tick, ReportingStep, systemVars, vars
  <2>2. [Next]_vars
    BY <2>1 DEF RequestStep
  <2>3. call[s] = Idle => FreshInstant
    BY <1>2, <2>1 DEF RequestStep
  <2> QED BY <2>2, <2>3, CallSteps
<1> QED BY <1>1, <1>2

LEMMA StampsNext ==
  ASSUME IInv, Stamps, [SystemNext]_systemVars
  PROVE  Stamps'
<1> SUFFICES ASSUME NEW s \in Sessions, Began(call'[s])
             PROVE  /\ \A t \in Sessions : t # s /\ Began(call'[t]) => call'[t].at # call'[s].at
                    /\ \A r \in Requests : \A k \in DOMAIN outbox'[r] :
                         outbox'[r][k].at # call'[s].at
                    /\ call'[s].op # "create" => status'[call'[s].request] # "NONE"
  BY DEF Stamps, Exists
<1> DEFINE Starts(t) == /\ call'[t].at = clock /\ FreshInstant
                        /\ call'[t].op # "create" => Exists(call'[t].request)
                        /\ UNCHANGED <<clock, status, outbox>>
                        /\ \A u \in Sessions : u # t => call'[u] = call[u]
           GoesOn(t) == /\ Began(call[t]) /\ call'[t].at = call[t].at
                        /\ call'[t].op = call[t].op
                        /\ call[t].op # "create" => call'[t].request = call[t].request
<1>1. \A t \in Sessions : Began(call'[t]) => Starts(t) \/ GoesOn(t)
  BY SystemCalls
<1>2. ASSUME NEW t \in Sessions, NEW u \in Sessions, t # u, Began(call'[u]), Starts(t)
      PROVE  call'[u].at # call'[t].at
  <2>1. call'[u] = call[u] /\ Began(call[u])
    BY <1>2
  <2> QED BY <1>2, <2>1 DEF FreshInstant, Began
<1>3. CASE Starts(s)
  <2>1. \A r \in Requests : \A k \in DOMAIN outbox[r] : outbox[r][k].at # clock
    BY <1>3 DEF FreshInstant
  <2> QED BY <1>2, <1>3, <2>1 DEF Exists
<1>4. CASE GoesOn(s)
  <2>1. ASSUME NEW t \in Sessions, t # s, Began(call'[t])
        PROVE  call'[t].at # call'[s].at
    <3>1. CASE Starts(t)
      BY <1>2, <2>1, <3>1
    <3>2. CASE GoesOn(t)
      BY <1>4, <2>1, <3>2 DEF Stamps
    <3> QED BY <1>1, <2>1, <3>1, <3>2
  <2>2. ASSUME NEW r \in Requests, NEW k \in DOMAIN outbox'[r]
        PROVE  outbox'[r][k].at # call'[s].at
    <3>1. CASE Keeps(r)
      BY <1>4, <2>2, <3>1 DEF Keeps, Stamps
    <3>2. ASSUME NEW u \in Sessions, Commits(u, r)
          PROVE  outbox'[r][k].at # call'[s].at
      <4>1. Began(call[u]) /\ u # s /\ Adds(r, call[u].at)
        BY <3>2 DEF Commits, IInv, TypeOK
      <4>2. call[u].at # call[s].at
        BY <1>4, <4>1 DEF Stamps
      <4> DEFINE n == Len(outbox[r])
                 m == Len(outbox'[r])
      <4>3. /\ n \in Nat /\ DOMAIN outbox[r] = 1 .. n
            /\ m \in {n + 1, n + 2} /\ DOMAIN outbox'[r] = 1 .. m
            /\ \A i \in 1 .. n : outbox'[r][i] = outbox[r][i]
            /\ \A i \in n + 1 .. m : outbox'[r][i].at = call[u].at
        BY <4>1, AddedEvents
      <4> HIDE DEF n, m
      <4>4. CASE k \in 1 .. n
        BY <1>4, <4>3, <4>4 DEF Stamps
      <4>5. CASE ~(k \in 1 .. n)
        <5>1. k \in n + 1 .. m
          BY <2>2, <4>3, <4>5
        <5> QED BY <1>4, <4>2, <4>3, <5>1
      <4> QED BY <4>4, <4>5
    <3> QED BY <3>1, <3>2, SystemOutbox DEF Commits
  <2>3. ASSUME call'[s].op # "create"
        PROVE  status'[call'[s].request] # "NONE"
    <3>1. PICK r : r = call[s].request
      OBVIOUS
    <3>2. call'[s].request = r /\ status[r] # "NONE" /\ r \in Requests
      BY <1>4, <2>3, <3>1, Kinds, CallKinds DEF Stamps, Exists
    <3>3. Keeps(r) \/ \E at : Adds(r, at)
      BY <3>2, SystemOutbox DEF Commits
    <3> QED BY <3>2, <3>3 DEF Keeps, Adds
  <2> QED BY <2>1, <2>2, <2>3
<1> HIDE DEF Starts, GoesOn
<1> QED BY <1>1, <1>3, <1>4

LEMMA InitSystem == SystemInit => SystemInv
<1> SUFFICES ASSUME SystemInit PROVE SystemInv
  OBVIOUS
<1>1. IInv
  BY InitIInv DEF SystemInit
<1>2. EventsTell /\ PairsOnly
  BY DEF SystemInit, Init, EventsTell, PairsOnly, Exists
<1>3. Stamps
  BY DEF SystemInit, Init, Stamps, Began, Idle
<1>4. Projection!ProjectionInv
  <2>1. Projection!Init
    BY DEF SystemInit, Reporting!Init, Projection!Init, Reporting!NoSnapshot,
           Projection!NoSnapshot
  <2>2. \A r \in Requests : outbox[r] = <<>>
    BY DEF SystemInit, Init
  <2> QED BY <2>1, <2>2, Projection!InitProjection
<1> QED BY <1>1, <1>2, <1>3, <1>4 DEF SystemInv

LEMMA SameProjection == Reporting!Next => Projection!Next
  BY DEF Reporting!Next, Reporting!FetchPendingEvents, Reporting!Publish,
         Reporting!UpsertRequestSnapshot, Reporting!Pending, Reporting!Rows,
         Reporting!RowOf, Reporting!Coalesce,
         Projection!Next, Projection!FetchPendingEvents, Projection!Publish,
         Projection!UpsertRequestSnapshot, Projection!Pending, Projection!Rows,
         Projection!RowOf, Projection!Coalesce

LEMMA NextSystem == SystemInv /\ [SystemNext]_systemVars => SystemInv'
<1> SUFFICES ASSUME SystemInv, [SystemNext]_systemVars
             PROVE  SystemInv'
  OBVIOUS
<1>1. IInv /\ EventsTell /\ Stamps /\ PairsOnly /\ Projection!ProjectionInv
  BY DEF SystemInv
<1>2. IInv' /\ EventsTell' /\ Stamps' /\ PairsOnly'
  BY <1>1, SystemKeepsIInv, EventsTellNext, StampsNext, PairsOnlyNext
<1>3. Projection!Stamped /\ Projection!Stamped'
  BY <1>1, <1>2, OutboxStamped
<1>4. CASE UNCHANGED reportingVars
  <2>1. UNCHANGED Projection!vars
    BY <1>4 DEF reportingVars, Projection!vars
  <2> QED BY <1>1, <1>2, <1>3, <2>1, OutboxOnlyGrows, Projection!ProducerStep DEF SystemInv
<1>5. CASE Reporting!Next /\ UNCHANGED vars
  <2>1. UNCHANGED outbox
    BY <1>5 DEF vars, requestVars
  <2> QED BY <1>1, <1>2, <1>3, <1>5, <2>1, SameProjection, Projection!ProjectionStep
          DEF SystemInv
<1> QED BY <1>4, <1>5, SystemSteps DEF RequestStep, Tick, systemVars

LEMMA SystemInvHolds == SystemSpec => []SystemInv
  BY InitSystem, NextSystem, PTL DEF SystemSpec, SystemNext

-----------------------------------------------------------------------------
(* What the workflow owes to the composition stays true in it.             *)

\* The reservation of places and the answers agree with the requests although
\* the clock runs and events are projected meanwhile.
THEOREM ReportingKeepsAssignments == SystemSpec => [](TypeOK /\ AssignmentsMatchStatus)
<1>1. SystemInv => TypeOK /\ AssignmentsMatchStatus
  BY DEF SystemInv, IInv
<1> QED BY <1>1, SystemInvHolds, PTL

-----------------------------------------------------------------------------
(* For whom a request counts.                                               *)

\* Of the assignments of a request only the last one can use a quota.
LEMMA OnlyTheLastCounts ==
  ASSUME IInv, NEW r \in Requests, NEW l
  PROVE  /\ \A i \in DOMAIN assignments[r] :
              UsesQuota(r, i, l) => i = Len(assignments[r])
         /\ (\E i \in DOMAIN assignments[r] : UsesQuota(r, i, l))
              <=> /\ status[r] \in {"ASSIGNED", "COMPLETED"}
                  /\ Last(assignments[r]).lecturer = l
<1> DEFINE n == Len(assignments[r])
<1>1. n \in Nat /\ DOMAIN assignments[r] = 1 .. n /\ status[r] # "ACCEPTED"
  BY DEF IInv, TypeOK
<1>2. \A i \in 1 .. n - 1 : assignments[r][i].status = "REJECTED"
  BY DEF IInv, AssignmentsMatchStatus
<1>3. ASSUME NEW i \in 1 .. n, UsesQuota(r, i, l)
      PROVE  i = n
  <2>1. ~(i \in 1 .. n - 1)
    BY <1>2, <1>3 DEF UsesQuota
  <2> QED BY <1>1, <2>1
<1>4. CASE n = 0
  <2>1. status[r] \notin {"ASSIGNED", "COMPLETED"}
    BY <1>4 DEF IInv, AssignmentsMatchStatus
  <2> QED BY <1>1, <1>4, <2>1
<1>5. CASE n # 0
  <2>1. /\ n \in 1 .. n
        /\ \/ status[r] = "ASSIGNED"  /\ assignments[r][n].status = "PENDING"
           \/ status[r] = "REJECTED"  /\ assignments[r][n].status = "REJECTED"
           \/ status[r] = "COMPLETED" /\ assignments[r][n].status = "ACCEPTED"
    BY <1>1, <1>5 DEF IInv, AssignmentsMatchStatus, Last
  <2>2. UsesQuota(r, n, l) <=> /\ status[r] \in {"ASSIGNED", "COMPLETED"}
                               /\ assignments[r][n].lecturer = l
    BY <2>1 DEF UsesQuota
  <2> QED BY <1>1, <1>3, <2>1, <2>2 DEF Last
<1> QED BY <1>4, <1>5

\* A request whose transactions kept their order counts for the lecturer whose
\* quota it uses, and for no other, as soon as its own events are projected.
LEMMA CountedWhenOrdered ==
  ASSUME SystemInv, NEW r \in Requests, InOrder(r), Reporting!Arrived(r),
         NEW l \in Lecturers
  PROVE  Counted(r, l) <=> \E i \in DOMAIN assignments[r] : UsesQuota(r, i, l)
<1>1. /\ IInv /\ Projection!ProjectionInv /\ Projection!Stamped
      /\ Projection!Sorted(r) /\ Projection!Arrived(r)
  BY OutboxStamped
     DEF SystemInv, InOrder, Projection!Sorted, Reporting!Arrived, Projection!Arrived,
         Reporting!Pending, Projection!Pending, Reporting!Rows, Projection!Rows
<1>2. (\E i \in DOMAIN assignments[r] : UsesQuota(r, i, l))
        <=> status[r] \in {"ASSIGNED", "COMPLETED"} /\ Last(assignments[r]).lecturer = l
  BY <1>1, OnlyTheLastCounts
<1>3. CASE ~Exists(r)
  <2>1. DOMAIN outbox[r] = {}
    BY <1>3 DEF SystemInv, EventsTell
  <2>2. snapshot[r].event = 0
    BY <1>1, <2>1, Projection!NothingIsShown
  <2> QED BY <1>2, <1>3, <2>2 DEF Counted, Reporting!Shown, Exists
<1>4. CASE Exists(r)
  <2> DEFINE n == Len(outbox[r])
             m == snapshot[r].event
  <2>1. /\ n > 0 /\ outbox[r][n].status = status[r]
        /\ status[r] \in {"ASSIGNED", "COMPLETED"} =>
             outbox[r][n].lecturer = Last(assignments[r]).lecturer
    BY <1>4 DEF SystemInv, EventsTell, Last
  <2>2. /\ m \in DOMAIN outbox[r] /\ outbox[r][m].at = outbox[r][n].at
        /\ outbox[r][m].lecturer # Null => snapshot[r].lecturer = outbox[r][m].lecturer
    BY <1>1, <2>1, Projection!LastIsShown DEF EventLecturer
  <2>3. n \in Nat /\ DOMAIN outbox[r] = 1 .. n
    BY <1>1 DEF Projection!Stamped
  <2>4. m # 0 /\ n \in DOMAIN outbox[r]
    BY <2>1, <2>2, <2>3
  <2>5. Reporting!Shown(r) = outbox[r][m].status
    BY <2>4 DEF Reporting!Shown
  <2>6. \/ outbox[r][m] = outbox[r][n]
        \/ /\ outbox[r][m].status = "ACCEPTED" /\ outbox[r][n].status = "COMPLETED"
           /\ outbox[r][m].lecturer = outbox[r][n].lecturer
    <3>1. CASE m = n
      BY <3>1
    <3>2. CASE m # n
      <4>1. m < n
        BY <2>2, <2>3, <3>2
      <4> QED BY <2>2, <2>4, <4>1 DEF SystemInv, PairsOnly
    <3> QED BY <3>1, <3>2
  <2>7. /\ outbox[r][m].lecturer = outbox[r][n].lecturer
        /\ outbox[r][m].status \in {"ASSIGNED", "ACCEPTED", "COMPLETED"}
             <=> status[r] \in {"ASSIGNED", "COMPLETED"}
    <3>1. status[r] # "ACCEPTED"
      BY <1>1 DEF IInv, TypeOK
    <3> QED BY <2>1, <2>6, <3>1
  <2>8. status[r] \in {"ASSIGNED", "COMPLETED"} =>
          snapshot[r].lecturer = Last(assignments[r]).lecturer
    <3>1. ASSUME status[r] \in {"ASSIGNED", "COMPLETED"}
          PROVE  Last(assignments[r]).lecturer \in Lecturers
      <4>1. assignments[r] \in Seq(AssignmentRow) /\ Len(assignments[r]) > 0
        BY <1>1, <3>1 DEF IInv, TypeOK, AssignmentsMatchStatus
      <4>2. Last(assignments[r]) \in AssignmentRow
        BY <4>1 DEF Last
      <4> QED BY <4>2 DEF AssignmentRow
    <3>2. Null \notin Lecturers
      BY SupervisorAssumption
    <3> QED BY <2>1, <2>2, <2>7, <3>1, <3>2
  <2> QED BY <1>2, <2>5, <2>7, <2>8 DEF Counted
<1> QED BY <1>3, <1>4

\* Whatever else goes on, the read model is right about every such request.
THEOREM WorkloadFollowsOrder == SystemSpec => []OrderedIsCounted
<1>1. SystemInv => OrderedIsCounted
  BY CountedWhenOrdered DEF OrderedIsCounted
<1> QED BY <1>1, SystemInvHolds, PTL

\* If it is right about every request it is right about the numbers: each request
\* that counts has exactly one assignment that uses a place.
LEMMA WorkloadWhenOrdered ==
  ASSUME SystemInv, Reporting!Settled, \A r \in Requests : InOrder(r), NEW l \in Lecturers
  PROVE  workload(l) = activeCount(l)
<1> DEFINE T == {r \in Requests : Counted(r, l)}
           S == Supervisions(l)
           f == [ri \in S |-> ri[1]]
<1>1. IInv /\ IsFiniteSet(S)
  BY DEF SystemInv, IInv, CountsAreFinite
<1>2. ASSUME NEW r \in Requests
      PROVE  Counted(r, l) <=> \E i \in DOMAIN assignments[r] : UsesQuota(r, i, l)
  <2>1. Reporting!Arrived(r)
    BY DEF Reporting!Settled, Reporting!Arrived
  <2> QED BY <2>1, CountedWhenOrdered
<1>3. ASSUME NEW ri \in S
      PROVE  /\ ri[1] \in Requests /\ ri[2] \in DOMAIN assignments[ri[1]]
             /\ ri = <<ri[1], ri[2]>> /\ UsesQuota(ri[1], ri[2], l)
  <2>1. PICK r \in Requests : ri \in {r} \X DOMAIN assignments[r]
    BY <1>3 DEF Supervisions
  <2> QED BY <1>3, <2>1 DEF Supervisions
<1>4. f \in [S -> T]
  BY <1>2, <1>3
<1>5. \A r \in T : \E ri \in S : f[ri] = r
  <2> SUFFICES ASSUME NEW r \in T PROVE \E ri \in S : f[ri] = r
    OBVIOUS
  <2>1. PICK i \in DOMAIN assignments[r] : UsesQuota(r, i, l)
    BY <1>2
  <2>2. <<r, i>> \in S
    BY <2>1, SupervisionRows
  <2> QED BY <2>2
<1>6. \A a, b \in S : f[a] = f[b] => a = b
  <2> SUFFICES ASSUME NEW a \in S, NEW b \in S, a[1] = b[1]
               PROVE  a = b
    OBVIOUS
  <2>1. a[2] = Len(assignments[a[1]]) /\ b[2] = Len(assignments[b[1]])
    BY <1>1, <1>3, OnlyTheLastCounts
  <2> QED BY <1>3, <2>1
<1> HIDE DEF S, T, f
<1>7. f \in Bijection(S, T)
  BY <1>4, <1>5, <1>6 DEF Bijection, Injection, Surjection, IsInjective
<1>8. Cardinality(T) = Cardinality(S)
  BY <1>1, <1>7, FS_Bijection DEF ExistsBijection
<1> QED BY <1>8 DEF workload, activeCount, S, T

\* Without requests whose handlers overtook each other every workload is right.
THEOREM WorkloadInOrder ==
  SystemSpec => []((\A r \in Requests : InOrder(r)) => WorkloadIsQuotaUsed)
<1>1. SystemInv => ((\A r \in Requests : InOrder(r)) => WorkloadIsQuotaUsed)
  BY WorkloadWhenOrdered DEF WorkloadIsQuotaUsed
<1> QED BY <1>1, SystemInvHolds, PTL

-----------------------------------------------------------------------------
(* When transactions keep their order.                                      *)

\* No two transactions on one request are under way at once; a transaction that
\* creates a request works on one that no other knows yet.
Apart ==
  \A s, t \in Sessions :
    /\ s # t
    /\ Began(call[s]) /\ call[s].op # "create"
    /\ Began(call[t]) /\ call[t].op # "create"
    => call[s].request # call[t].request

\* What has been written to the outbox of a request lies in the past, before
\* every transaction under way that may add to it.
PastOK ==
  /\ \A r \in Requests : \A k \in DOMAIN outbox[r] : outbox[r][k].at <= clock
  /\ \A s \in Sessions : Began(call[s]) =>
       /\ call[s].at <= clock
       /\ \A r \in Requests : Concerns(call[s], r) =>
            \A k \in DOMAIN outbox[r] : outbox[r][k].at < call[s].at
  /\ \A r \in Requests : InOrder(r)

LEMMA ClockSteps ==
  ASSUME [SystemNext]_systemVars
  PROVE  clock' = clock \/ (Tick /\ clock' = clock + 1)
  BY SystemSteps, ClockStands DEF Tick

\* What a transaction concerns does not depend on the step, if it goes on and
\* no other commit makes the request exist.
LEMMA ConcernsSame ==
  ASSUME NEW s \in Sessions, NEW r \in Requests,
         Began(call[s]), call'[s].op = call[s].op,
         call[s].op # "create" => call'[s].request = call[s].request,
         status[r] # "NONE" => status'[r] # "NONE"
  PROVE  Concerns(call[s], r)' => Concerns(call[s], r)
  BY DEF Concerns, Exists

LEMMA PastNext == SystemInv /\ PastOK /\ Apart /\ [SystemNext]_systemVars => PastOK'
<1> SUFFICES ASSUME SystemInv, PastOK, Apart, [SystemNext]_systemVars
             PROVE  PastOK'
  OBVIOUS
<1>1. /\ IInv /\ IInv' /\ clock \in Nat /\ clock' \in Nat /\ clock <= clock'
      /\ \A r \in Requests : \A k \in DOMAIN outbox[r] : outbox[r][k].at \in Nat
      /\ \A s \in Sessions : Began(call[s]) => call[s].at \in Nat
  <2>1. IInv /\ IInv'
    BY SystemKeepsIInv DEF SystemInv
  <2>2. clock \in Nat /\ clock' \in Nat /\ clock <= clock'
    BY <2>1, ClockSteps DEF IInv, TypeOK, Time
  <2>3. \A s \in Sessions : Began(call[s]) => call[s].at \in Nat
    BY <2>1, Kinds DEF Time
  <2> QED BY <2>1, <2>2, <2>3, OutboxStamped DEF Projection!Stamped
<1>2. \A r \in Requests : Keeps(r) \/ \E s \in Sessions : Commits(s, r)
  BY <1>1, SystemOutbox DEF Commits
\* The request of a commit.
<1>3. ASSUME NEW r \in Requests, NEW s \in Sessions, Commits(s, r)
      PROVE  /\ \A k \in DOMAIN outbox'[r] : outbox'[r][k].at <= clock'
             /\ InOrder(r)'
  <2> DEFINE n == Len(outbox[r])
             m == Len(outbox'[r])
  <2>1. /\ Began(call[s]) /\ Concerns(call[s], r) /\ Adds(r, call[s].at)
        /\ call[s].at <= clock' /\ call[s].at \in Nat
    BY <1>1, <1>3 DEF Commits, PastOK
  <2>2. /\ n \in Nat /\ DOMAIN outbox[r] = 1 .. n
        /\ m \in {n + 1, n + 2} /\ DOMAIN outbox'[r] = 1 .. m
        /\ \A i \in 1 .. n : outbox'[r][i] = outbox[r][i]
        /\ \A i \in n + 1 .. m : outbox'[r][i].at = call[s].at
    BY <1>1, <2>1, AddedEvents
  <2>3. \A i \in DOMAIN outbox[r] : outbox[r][i].at < call[s].at
    BY <2>1 DEF PastOK
  <2> HIDE DEF n, m
  <2>4. \A i \in 1 .. m : i \in 1 .. n \/ i \in n + 1 .. m
    BY <2>2
  <2>5. \A k \in DOMAIN outbox'[r] : outbox'[r][k].at <= clock'
    <3> SUFFICES ASSUME NEW k \in 1 .. m PROVE outbox'[r][k].at <= clock'
      BY <2>2
    <3>1. CASE k \in 1 .. n
      BY <1>1, <2>1, <2>2, <2>3, <3>1
    <3>2. CASE k \in n + 1 .. m
      BY <2>1, <2>2, <3>2
    <3> QED BY <2>4, <3>1, <3>2
  <2>6. ASSUME NEW j \in DOMAIN outbox'[r], NEW k \in DOMAIN outbox'[r], j < k
        PROVE  outbox'[r][j].at <= outbox'[r][k].at
    <3>1. CASE k \in 1 .. n
      <4>1. j \in 1 .. n
        BY <2>2, <2>6, <3>1
      <4> QED BY <2>2, <2>6, <3>1, <4>1 DEF PastOK, InOrder
    <3>2. CASE k \in n + 1 .. m /\ j \in 1 .. n
      <4>1. outbox'[r][j] = outbox[r][j] /\ outbox'[r][k].at = call[s].at
        BY <2>2, <3>2
      <4>2. outbox[r][j].at < call[s].at /\ outbox[r][j].at \in Nat
        BY <1>1, <2>2, <2>3, <3>2
      <4> QED BY <2>1, <4>1, <4>2
    <3>3. CASE k \in n + 1 .. m /\ j \in n + 1 .. m
      BY <2>1, <2>2, <3>3
    <3> QED BY <2>2, <2>4, <3>1, <3>2, <3>3
  <2> QED BY <2>5, <2>6 DEF InOrder
<1>4. ASSUME NEW r \in Requests, Keeps(r)
      PROVE  /\ \A k \in DOMAIN outbox'[r] : outbox'[r][k].at <= clock'
             /\ InOrder(r)'
  <2>1. outbox'[r] = outbox[r]
    BY <1>4 DEF Keeps
  <2>2. \A k \in DOMAIN outbox[r] : outbox[r][k].at <= clock /\ outbox[r][k].at \in Nat
    BY <1>1 DEF PastOK
  <2>3. InOrder(r)'
    BY <2>1 DEF PastOK, InOrder
  <2> QED BY <1>1, <2>1, <2>2, <2>3
\* The transactions.
<1>5. ASSUME NEW s \in Sessions, Began(call'[s])
      PROVE  /\ call'[s].at <= clock'
             /\ \A r \in Requests : Concerns(call[s], r)' =>
                  \A k \in DOMAIN outbox'[r] : outbox'[r][k].at < call'[s].at
  <2>1. CASE /\ call'[s].at = clock /\ FreshInstant
             /\ UNCHANGED <<clock, status, outbox>>
    <3>1. \A r \in Requests : \A k \in DOMAIN outbox[r] : outbox[r][k].at < clock
      BY <1>1, <2>1 DEF FreshInstant, PastOK
    <3> QED BY <1>1, <2>1, <3>1
  <2>2. CASE /\ Began(call[s]) /\ call'[s].at = call[s].at /\ call'[s].op = call[s].op
             /\ call[s].op # "create" => call'[s].request = call[s].request
    <3>1. call'[s].at <= clock'
      BY <1>1, <2>2 DEF PastOK
    <3>2. ASSUME NEW r \in Requests, Concerns(call[s], r)', NEW k \in DOMAIN outbox'[r]
          PROVE  outbox'[r][k].at < call'[s].at
      <4>1. ASSUME Keeps(r)
            PROVE  outbox'[r][k].at < call'[s].at
        <5>1. Concerns(call[s], r)
          BY <2>2, <3>2, <4>1, ConcernsSame DEF Keeps
        <5> QED BY <2>2, <3>2, <4>1, <5>1 DEF Keeps, PastOK
      <4>2. ASSUME NEW t \in Sessions, Commits(t, r)
            PROVE  FALSE
        <5>1. /\ Began(call[t]) /\ Concerns(call[t], r) /\ t # s /\ status'[r] # "NONE"
          BY <1>1, <1>5, <4>2 DEF Commits, Adds, IInv, TypeOK
        <5>2. call[s].op # "create" /\ call[s].request = r
          BY <2>2, <3>2, <5>1 DEF Concerns, Exists
        <5>3. Exists(r)
          BY <2>2, <5>2 DEF SystemInv, Stamps
        <5>4. call[t].op # "create" /\ call[t].request = r
          BY <5>1, <5>3 DEF Concerns
        <5> QED BY <2>2, <5>1, <5>2, <5>4 DEF Apart
      <4> QED BY <1>2, <4>1, <4>2
    <3> QED BY <3>1, <3>2
  <2> QED BY <1>1, <1>5, <2>1, <2>2, SystemCalls
<1> QED BY <1>2, <1>3, <1>4, <1>5 DEF PastOK

LEMMA PastHolds == SystemSpec /\ []Apart => []PastOK
<1>1. SystemInit => PastOK
  BY DEF SystemInit, Init, PastOK, InOrder, Began, Idle
<1> QED BY <1>1, SystemInvHolds, PastNext, PTL DEF SystemSpec, SystemNext

\* As long as no two transactions on one request overlap, the workload shown for
\* a lecturer is the number of places she has given away, however many requests
\* are handled at once.
THEOREM ApartWorkloadIsRight == SystemSpec /\ []Apart => []WorkloadIsQuotaUsed
<1>1. PastOK => \A r \in Requests : InOrder(r)
  BY DEF PastOK
<1> QED BY <1>1, PastHolds, WorkloadInOrder, PTL

\* With a single session transactions cannot overlap at all.
COROLLARY WorkloadInSequence ==
  ASSUME \A s, t \in Sessions : s = t
  PROVE  SystemSpec => []WorkloadIsQuotaUsed
<1>1. Apart
  BY DEF Apart
<1> QED BY <1>1, ApartWorkloadIsRight, PTL
=============================================================================
