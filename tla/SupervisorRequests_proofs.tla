---------------------- MODULE SupervisorRequests_proofs ----------------------
(***************************************************************************)
(* Theorems about SupervisorRequests, for any number of requests,          *)
(* students, lecturers and sessions, any quotas and any bound on the       *)
(* length of a history.                                                    *)
(***************************************************************************)
EXTENDS SupervisorRequests, FiniteSetTheorems, SequenceTheorems, TLAPS

-----------------------------------------------------------------------------
(* The inductive invariant.                                                 *)

\* What a session that has a lock has checked under it is still so.
ChecksHold ==
  \A s \in Sessions : call[s].op \in TwoLocks =>
    /\ "request" \in call[s].held  => RequestIsReady(call[s])
    /\ "lecturer" \in call[s].held => LecturerIsReady(call[s])

\* A call asks only for what its handler writes into it.
CallsOK ==
  \A s \in Sessions :
    /\ call[s].op = "assign"  => call[s].from \in {"VERIFIED", "REJECTED"}
    /\ call[s].op = "respond" => call[s].target \in {"ACCEPTED", "REJECTED"}
    /\ call[s].op = "status"  =>
         \/ call[s].allowed = {"ACCEPTED"}
         \/ /\ call[s].allowed \subseteq {"SUBMITTED", "REVISION_REQUIRED"}
            /\ call[s].target \in {"VERIFIED", "REVISION_REQUIRED", "CANCELLED"}
            /\ \A from \in call[s].allowed : call[s].target \in SupervisorTransitions[from]

\* A row is locked by one session at a time.
LocksApart ==
  \A s, t \in Sessions : s # t =>
    /\ \A r \in Requests : ~(HoldsRequest(s, r) /\ HoldsRequest(t, r))
    /\ \A l \in Lecturers : ~(HoldsLecturer(s, l) /\ HoldsLecturer(t, l))

\* The quota check counts finitely many rows.
CountsAreFinite == \A l \in Lecturers : IsFiniteSet(Supervisions(l))

IInv == /\ TypeOK /\ AssignmentsMatchStatus /\ CallsOK
        /\ ChecksHold /\ LocksApart /\ CountsAreFinite

-----------------------------------------------------------------------------
(* Facts about calls, locks and the transition table.                       *)

LEMMA IdleIsACall == Idle \in Call /\ Idle.op = "idle"
  BY DEF Idle, Call

\* What a session holds, by the operation it performs.
LEMMA CallKinds ==
  ASSUME NEW c \in Call
  PROVE  /\ c.op \in {"idle", "create", "status", "assign", "respond", "progress"}
         /\ c.op = "create" =>
              /\ c.student \in Students /\ c.at \in Time
              /\ c.wants \in SUBSET Lecturers /\ c.shares \in SUBSET Lecturers
         /\ c.op = "status" =>
              /\ c.request \in Requests /\ c.target \in SupervisorStatus
              /\ c.allowed \in SUBSET SupervisorStatus
              /\ c.type \in EventType /\ c.at \in Time
         /\ c.op = "assign" =>
              /\ c.request \in Requests /\ c.lecturer \in Lecturers
              /\ c.type \in EventType /\ c.held \in Locks /\ c.at \in Time
         /\ c.op = "respond" =>
              /\ c.request \in Requests /\ c.lecturer \in Lecturers
              /\ c.target \in SupervisorStatus
              /\ c.type \in EventType /\ c.held \in Locks /\ c.at \in Time
         /\ c.op = "progress" => c.request \in Requests
  BY DEF Call, Idle

\* A two-lock call names its rows, and takes the request's lock first.
LEMMA TwoLockCalls ==
  ASSUME NEW c \in Call, c.op \in TwoLocks
  PROVE  /\ c.request \in Requests /\ c.lecturer \in Lecturers
         /\ c.held \in Locks
         /\ "lecturer" \in c.held => "request" \in c.held /\ c.held = {"request", "lecturer"}
         /\ c.held # {"request", "lecturer"} =>
              \/ c.held = {} /\ NextLock(c) = "request"
              \/ c.held = {"request"} /\ NextLock(c) = "lecturer"
<1>1. c.request \in Requests /\ c.lecturer \in Lecturers /\ c.held \in Locks
  BY CallKinds DEF TwoLocks
<1>2. "lecturer" \in c.held => "request" \in c.held /\ c.held = {"request", "lecturer"}
  BY <1>1 DEF Locks
<1>3. Cardinality({}) = 0
  BY FS_EmptySet
<1>4. Cardinality({"request"}) = 1
  BY FS_Singleton
<1>5. CASE c.held = {}
  BY <1>1, <1>2, <1>3, <1>5 DEF NextLock, lockOrder
<1>6. CASE c.held = {"request"}
  BY <1>1, <1>2, <1>4, <1>6 DEF NextLock, lockOrder
<1> QED BY <1>1, <1>2, <1>5, <1>6 DEF Locks

-----------------------------------------------------------------------------
(* Nobody waits in a circle.                                                *)

\* Sessions that wait are ordered by what they already have: one with both locks,
\* or none to wait for, does not wait; one that inserts choices waits only for
\* both locks; one with the request's lock waits for these two; the others wait
\* for a request's lock, which only the first and the third have.
LEMMA WaitsAreOrdered ==
  ASSUME TypeOK, NEW s \in Sessions, NEW t \in Sessions, WaitsFor(s, t)
  PROVE  LET Full(x)   == call[x].op \in TwoLocks /\ call[x].held = {"request", "lecturer"}
             Insert(x) == call[x].op = "create"
             Half(x)   == call[x].op \in TwoLocks /\ call[x].held = {"request"}
         IN  /\ ~Full(s)
             /\ Full(t) \/ Insert(t) \/ Half(t)
             /\ Insert(s) => Full(t)
             /\ Half(s) => Full(t) \/ Insert(t)
<1>1. call[s] \in Call /\ call[t] \in Call
  BY DEF TypeOK
<1>2. ASSUME NEW r, HoldsRequest(t, r)
      PROVE  call[t].op \in TwoLocks /\ call[t].held \in {{"request", "lecturer"}, {"request"}}
  BY <1>1, <1>2, TwoLockCalls DEF HoldsRequest, Locks
<1>3. ASSUME NEW l, HoldsLecturer(t, l)
      PROVE  call[t].op \in TwoLocks /\ call[t].held = {"request", "lecturer"}
  BY <1>1, <1>3, TwoLockCalls DEF HoldsLecturer
<1>4. ASSUME NEW l, SharesLecturer(t, l)
      PROVE  call[t].op = "create"
  BY <1>4 DEF SharesLecturer
<1>5. CASE call[s].op \in TwoLocks
  BY <1>1, <1>2, <1>3, <1>4, <1>5, TwoLockCalls DEF WaitsFor, TwoLocks
<1>6. CASE call[s].op \notin TwoLocks
  BY <1>2, <1>3, <1>6 DEF WaitsFor, TwoLocks
<1> QED BY <1>5, <1>6

\* In every set of sessions one waits for no other of the set.
LEMMA NoCircle == TypeOK => NoCircularWait
<1> SUFFICES ASSUME TypeOK, NEW group \in SUBSET Sessions, group # {}
             PROVE  \E s \in group : \A t \in group : ~WaitsFor(s, t)
  BY DEF NoCircularWait
<1> DEFINE Full(x)   == call[x].op \in TwoLocks /\ call[x].held = {"request", "lecturer"}
           Insert(x) == call[x].op = "create"
           Half(x)   == call[x].op \in TwoLocks /\ call[x].held = {"request"}
<1>1. \A s, t \in group : WaitsFor(s, t) =>
        /\ ~Full(s)
        /\ Full(t) \/ Insert(t) \/ Half(t)
        /\ Insert(s) => Full(t)
        /\ Half(s) => Full(t) \/ Insert(t)
  BY WaitsAreOrdered
<1> HIDE DEF Full, Insert, Half
<1>2. CASE \E s \in group : Full(s)
  BY <1>1, <1>2
<1>3. CASE (\A s \in group : ~Full(s)) /\ \E s \in group : Insert(s)
  BY <1>1, <1>3
<1>4. CASE (\A s \in group : ~Full(s) /\ ~Insert(s)) /\ \E s \in group : Half(s)
  BY <1>1, <1>4
<1>5. CASE \A s \in group : ~Full(s) /\ ~Insert(s) /\ ~Half(s)
  BY <1>1, <1>5
<1> QED BY <1>2, <1>3, <1>4, <1>5

-----------------------------------------------------------------------------
(* What the quota check counts.                                             *)

LEMMA SupervisionRows ==
  ASSUME NEW l, NEW r \in Requests, NEW i
  PROVE  <<r, i>> \in Supervisions(l) <=> i \in DOMAIN assignments[r] /\ UsesQuota(r, i, l)
  BY DEF Supervisions

\* Rows that do not use the quota of a lecturer keep the count from growing.
LEMMA CountDoesNotGrow ==
  ASSUME CountsAreFinite, NEW l \in Lecturers,
         \A r \in Requests : \A i \in DOMAIN assignments'[r] :
           UsesQuota(r, i, l)' => i \in DOMAIN assignments[r] /\ UsesQuota(r, i, l)
  PROVE  /\ IsFiniteSet(Supervisions(l)) /\ IsFiniteSet(Supervisions(l)')
         /\ activeCount(l) \in Nat /\ activeCount(l)' \in Nat
         /\ activeCount(l)' <= activeCount(l)
<1>1. IsFiniteSet(Supervisions(l))
  BY DEF CountsAreFinite
<1>2. Supervisions(l)' \subseteq Supervisions(l)
  <2> SUFFICES ASSUME NEW ri \in Supervisions(l)' PROVE ri \in Supervisions(l)
    OBVIOUS
  <2>1. PICK r \in Requests : ri \in {r} \X DOMAIN assignments'[r]
    BY DEF Supervisions
  <2>2. ri = <<r, ri[2]>> /\ ri[2] \in DOMAIN assignments'[r] /\ ri[1] = r
    BY <2>1
  <2>3. UsesQuota(r, ri[2], l)'
    BY <2>2 DEF Supervisions
  <2>4. <<r, ri[2]>> \in Supervisions(l)
    BY <2>2, <2>3, SupervisionRows
  <2> QED BY <2>2, <2>4
<1>3. /\ IsFiniteSet(Supervisions(l)')
      /\ Cardinality(Supervisions(l)') <= Cardinality(Supervisions(l))
  BY <1>1, <1>2, FS_Subset
<1>4. Cardinality(Supervisions(l)) \in Nat /\ Cardinality(Supervisions(l)') \in Nat
  BY <1>1, <1>3, FS_CardinalityType
<1> QED BY <1>1, <1>3, <1>4 DEF activeCount

\* One row more raises the count by at most one.
LEMMA CountGrowsByOne ==
  ASSUME CountsAreFinite, NEW l \in Lecturers, NEW new \in Requests, NEW n,
         \A r \in Requests : \A i \in DOMAIN assignments'[r] :
           UsesQuota(r, i, l)' => \/ i \in DOMAIN assignments[r] /\ UsesQuota(r, i, l)
                                  \/ r = new /\ i = n
  PROVE  /\ IsFiniteSet(Supervisions(l)')
         /\ activeCount(l) \in Nat /\ activeCount(l)' \in Nat
         /\ activeCount(l)' <= activeCount(l) + 1
<1> DEFINE More == Supervisions(l) \cup {<<new, n>>}
<1>1. IsFiniteSet(Supervisions(l))
  BY DEF CountsAreFinite
<1>2. Supervisions(l)' \subseteq More
  <2> SUFFICES ASSUME NEW ri \in Supervisions(l)', ri # <<new, n>> PROVE ri \in Supervisions(l)
    OBVIOUS
  <2>1. PICK r \in Requests : ri \in {r} \X DOMAIN assignments'[r]
    BY DEF Supervisions
  <2>2. ri = <<r, ri[2]>> /\ ri[2] \in DOMAIN assignments'[r] /\ ri[1] = r
    BY <2>1
  <2>3. UsesQuota(r, ri[2], l)'
    BY <2>2 DEF Supervisions
  <2>4. ~(r = new /\ ri[2] = n)
    BY <2>2
  <2>5. <<r, ri[2]>> \in Supervisions(l)
    BY <2>2, <2>3, <2>4, SupervisionRows
  <2> QED BY <2>2, <2>5
<1>3. Cardinality(Supervisions(l)) \in Nat
  BY <1>1, FS_CardinalityType
<1>4. /\ IsFiniteSet(More)
      /\ \/ Cardinality(More) = Cardinality(Supervisions(l))
         \/ Cardinality(More) = Cardinality(Supervisions(l)) + 1
  BY <1>1, FS_AddElement
<1>5. /\ IsFiniteSet(Supervisions(l)')
      /\ Cardinality(Supervisions(l)') <= Cardinality(More)
  BY <1>2, <1>4, FS_Subset
<1>6. Cardinality(Supervisions(l)') \in Nat
  BY <1>5, FS_CardinalityType
<1> HIDE DEF More
<1> QED BY <1>3, <1>4, <1>5, <1>6 DEF activeCount

-----------------------------------------------------------------------------
(* What a transaction leaves to the others.                                 *)

\* A commit that writes one request the others have not locked, and lets the count
\* of no lecturer grow whom another has locked, leaves what they checked true.
LEMMA CommitKeepsCalls ==
  ASSUME IInv, NEW s \in Sessions, NEW r \in Requests, NEW e \in Call,
         e.op \in {"idle", "progress"},
         call' = [call EXCEPT ![s] = e], profile' = profile,
         \A q \in Requests \ {r} : status'[q] = status[q] /\ assignments'[q] = assignments[q],
         RequestFree(s, r),
         \A l \in Lecturers :
           \/ \A t \in Sessions \ {s} : ~HoldsLecturer(t, l)
           \/ activeCount(l) \in Nat /\ activeCount(l)' \in Nat
              /\ activeCount(l)' <= activeCount(l)
  PROVE  /\ call' \in [Sessions -> Call]
         /\ CallsOK' /\ ChecksHold' /\ LocksApart'
<1>1. call' \in [Sessions -> Call] /\ call'[s] = e
  BY DEF IInv, TypeOK
<1>2. ASSUME NEW t \in Sessions, t # s
      PROVE  call'[t] = call[t] /\ call[t] \in Call
  BY <1>2 DEF IInv, TypeOK
<1>3. e.op \notin TwoLocks
  BY DEF TwoLocks
<1>4. CallsOK'
  BY <1>1, <1>2 DEF IInv, CallsOK
<1>5. LocksApart'
  BY <1>1, <1>2, <1>3 DEF IInv, LocksApart, HoldsRequest, HoldsLecturer
<1>6. ChecksHold'
  <2> SUFFICES ASSUME NEW t \in Sessions, t # s, call[t].op \in TwoLocks
               PROVE  /\ "request" \in call[t].held  => RequestIsReady(call[t])'
                      /\ "lecturer" \in call[t].held => LecturerIsReady(call[t])'
    BY <1>1, <1>2, <1>3 DEF ChecksHold, RequestIsReady, LecturerIsReady
  <2> DEFINE c == call[t]
  <2>1. /\ call'[t] = c /\ c \in Call
        /\ c.request \in Requests /\ c.lecturer \in Lecturers
    BY <1>2, TwoLockCalls
  <2>2. /\ "request" \in c.held  => RequestIsReady(c)
        /\ "lecturer" \in c.held => LecturerIsReady(c)
    BY DEF IInv, ChecksHold
  <2>3. ASSUME "request" \in c.held PROVE RequestIsReady(c)'
    <3>1. c.request # r
      BY <2>3 DEF RequestFree, HoldsRequest
    <3> QED BY <2>1, <2>2, <2>3, <3>1 DEF RequestIsReady, IsPendingFor
  <2>4. ASSUME "lecturer" \in c.held PROVE LecturerIsReady(c)'
    <3>1. HoldsLecturer(t, c.lecturer)
      BY <2>4 DEF HoldsLecturer
    <3>2. /\ activeCount(c.lecturer) \in Nat /\ activeCount(c.lecturer)' \in Nat
          /\ activeCount(c.lecturer)' <= activeCount(c.lecturer)
      BY <2>1, <3>1
    <3>3. ASSUME c.op = "assign"
          PROVE  /\ profile'[c.lecturer].active
                 /\ activeCount(c.lecturer)' < profile'[c.lecturer].quota
      <4>1. profile[c.lecturer].active /\ activeCount(c.lecturer) < profile[c.lecturer].quota
        BY <2>2, <2>4, <3>3 DEF LecturerIsReady
      <4>2. profile[c.lecturer].quota \in Nat
        BY <2>1, SupervisorAssumption DEF IInv, TypeOK
      <4> QED BY <3>2, <4>1, <4>2
    <3> QED BY <2>1, <3>3 DEF LecturerIsReady
  <2> QED BY <2>1, <2>3, <2>4
<1> QED BY <1>1, <1>4, <1>5, <1>6

\* The rows and the events of a commit are well typed.
LEMMA RowTypes ==
  ASSUME NEW old \in SupervisorStatus \cup {Null}, NEW new \in SupervisorStatus,
         NEW at \in Time, NEW type \in EventType, NEW l \in Lecturers \cup {Null}
  PROVE  Row(old, new, at) \in HistoryRow /\ Event(type, new, l, at) \in OutboxRow
  BY DEF Row, HistoryRow, Event, OutboxRow

LEMMA WriteTypes ==
  ASSUME TypeOK, NEW r \in Requests, NEW new \in SupervisorStatus, new # "ACCEPTED",
         NEW rows \in Seq(HistoryRow), NEW events \in Seq(OutboxRow),
         Write(r, new, rows, events)
  PROVE  /\ status'  \in [Requests -> (SupervisorStatus \ {"ACCEPTED"}) \cup {"NONE"}]
         /\ history' \in [Requests -> Seq(HistoryRow)]
         /\ outbox'  \in [Requests -> Seq(OutboxRow)]
         /\ status'[r] = new
         /\ \A q \in Requests \ {r} : status'[q] = status[q]
<1>1. history[r] \o rows \in Seq(HistoryRow) /\ outbox[r] \o events \in Seq(OutboxRow)
  BY DEF TypeOK
<1> QED BY <1>1 DEF TypeOK, Write

-----------------------------------------------------------------------------
(* The invariant is inductive: the initial states and the steps that write   *)
(* nothing.                                                                 *)

LEMMA InitIInv == Init => IInv
<1> SUFFICES ASSUME Init PROVE IInv
  OBVIOUS
<1>1. TypeOK
  BY IdleIsACall DEF Init, TypeOK, Time
<1>2. AssignmentsMatchStatus
  BY DEF Init, AssignmentsMatchStatus
<1>3. CallsOK /\ ChecksHold /\ LocksApart
  BY IdleIsACall DEF Init, CallsOK, ChecksHold, LocksApart, TwoLocks, HoldsRequest, HoldsLecturer
<1>4. CountsAreFinite
  <2> SUFFICES ASSUME NEW l \in Lecturers PROVE IsFiniteSet(Supervisions(l))
    BY DEF CountsAreFinite
  <2>1. Supervisions(l) = {}
    BY DEF Init, Supervisions
  <2> QED BY <2>1, FS_EmptySet
<1> QED BY <1>1, <1>2, <1>3, <1>4 DEF IInv

\* A step that only gives a session another call keeps the invariant, if what the
\* call has locked is free for it and what it has checked is so.
LEMMA CallStep ==
  ASSUME IInv, NEW s \in Sessions, NEW c \in Call,
         call' = [call EXCEPT ![s] = c], UNCHANGED <<clock, requestVars, profile>>,
         UNCHANGED progress \/ progress' \in [Students -> Requests \cup {Null}],
         c.op = "assign"  => c.from \in {"VERIFIED", "REJECTED"},
         c.op = "respond" => c.target \in {"ACCEPTED", "REJECTED"},
         c.op = "status"  =>
           \/ c.allowed = {"ACCEPTED"}
           \/ /\ c.allowed \subseteq {"SUBMITTED", "REVISION_REQUIRED"}
              /\ c.target \in {"VERIFIED", "REVISION_REQUIRED", "CANCELLED"}
              /\ \A from \in c.allowed : c.target \in SupervisorTransitions[from],
         c.op \in TwoLocks =>
           /\ "request" \in c.held  => RequestIsReady(c) /\ RequestFree(s, c.request)
           /\ "lecturer" \in c.held =>
                LecturerIsReady(c) /\ \A t \in Sessions \ {s} : ~HoldsLecturer(t, c.lecturer)
  PROVE  IInv'
<1>1. call' \in [Sessions -> Call] /\ call'[s] = c
  BY DEF IInv, TypeOK
<1>2. ASSUME NEW t \in Sessions, t # s
      PROVE  call'[t] = call[t] /\ call[t] \in Call
  BY <1>2 DEF IInv, TypeOK
<1>3. TypeOK' /\ AssignmentsMatchStatus'
  BY <1>1 DEF IInv, TypeOK, AssignmentsMatchStatus, requestVars
<1>4. CallsOK'
  BY <1>1, <1>2 DEF IInv, CallsOK
<1>5. ChecksHold'
  <2>1. ASSUME NEW t \in Sessions, call'[t].op \in TwoLocks
        PROVE  /\ "request" \in call'[t].held  => RequestIsReady(call'[t])
               /\ "lecturer" \in call'[t].held => LecturerIsReady(call'[t])
    BY <1>1, <1>2, <2>1 DEF IInv, ChecksHold
  <2>2. status' = status /\ assignments' = assignments /\ profile' = profile
    BY DEF requestVars
  <2>3. \A l : activeCount(l)' = activeCount(l)
    BY <2>2 DEF activeCount, Supervisions, UsesQuota
  <2> QED BY <2>1, <2>2, <2>3 DEF ChecksHold, RequestIsReady, LecturerIsReady, IsPendingFor
<1>6. LocksApart'
  <2> SUFFICES ASSUME NEW t \in Sessions, NEW u \in Sessions, t # u
               PROVE  /\ \A r \in Requests : ~(HoldsRequest(t, r)' /\ HoldsRequest(u, r)')
                      /\ \A l \in Lecturers : ~(HoldsLecturer(t, l)' /\ HoldsLecturer(u, l)')
    BY DEF LocksApart
  <2>1. CASE t = s
    BY <1>1, <1>2, <2>1 DEF IInv, LocksApart, RequestFree, HoldsRequest, HoldsLecturer
  <2>2. CASE u = s
    BY <1>1, <1>2, <2>2 DEF IInv, LocksApart, RequestFree, HoldsRequest, HoldsLecturer
  <2>3. CASE t # s /\ u # s
    BY <1>2, <2>3 DEF IInv, LocksApart, HoldsRequest, HoldsLecturer
  <2> QED BY <2>1, <2>2, <2>3
<1>7. CountsAreFinite'
  BY DEF IInv, CountsAreFinite, Supervisions, UsesQuota, requestVars
<1> QED BY <1>3, <1>4, <1>5, <1>6, <1>7 DEF IInv

LEMMA BeginSteps ==
  ASSUME IInv, NEW s \in Sessions,
         \/ \E u \in Students, choices \in SUBSET Lecturers :
              CreateSupervisorRequest(s, u, choices)
         \/ \E r \in Requests :
              \/ VerifySupervisorRequest(s, r)
              \/ RequestRevisionSupervisorRequest(s, r)
              \/ CompleteSupervisorRequest(s, r)
              \/ CancelSupervisorRequest(s, r)
              \/ \E l \in Lecturers :
                   \/ AssignSupervisor(s, r, l)
                   \/ ReassignSupervisor(s, r, l)
                   \/ AcceptSupervisorRequest(s, r, l)
                   \/ RejectSupervisorRequest(s, r, l)
  PROVE  IInv'
<1> clock \in Time
  BY DEF IInv, TypeOK
<1>1. ASSUME NEW u \in Students, NEW choices \in SUBSET Lecturers,
             CreateSupervisorRequest(s, u, choices)
      PROVE  IInv'
  <2> DEFINE c == [op |-> "create", student |-> u, wants |-> choices,
                   shares |-> {}, at |-> clock]
  <2>1. c \in Call /\ c.op = "create"
    BY DEF Call
  <2>2. Begin(s, c)
    BY <1>1 DEF CreateSupervisorRequest
  <2> HIDE DEF c
  <2> QED BY <2>1, <2>2, CallStep DEF Begin, TwoLocks
<1>2. ASSUME NEW r \in Requests, NEW target \in {"VERIFIED", "REVISION_REQUIRED", "CANCELLED"},
             NEW allowed \in SUBSET {"SUBMITTED", "REVISION_REQUIRED"},
             \A from \in allowed : target \in SupervisorTransitions[from],
             NEW type \in EventType, changeStatus(s, r, target, allowed, type)
      PROVE  IInv'
  <2> DEFINE c == [op |-> "status", request |-> r, target |-> target,
                   allowed |-> allowed, type |-> type, at |-> clock]
  <2>1. /\ c \in Call /\ c.op = "status" /\ c.allowed = allowed /\ c.target = target
    BY DEF Call, SupervisorStatus
  <2>2. Begin(s, c)
    BY <1>2 DEF changeStatus
  <2> HIDE DEF c
  <2> QED BY <1>2, <2>1, <2>2, CallStep DEF Begin, TwoLocks
<1>3. ASSUME NEW r \in Requests, CompleteSupervisorRequest(s, r)
      PROVE  IInv'
  <2> DEFINE c == [op |-> "status", request |-> r, target |-> "COMPLETED",
                   allowed |-> {"ACCEPTED"}, type |-> "supervisor_request.completed",
                   at |-> clock]
  <2>1. c \in Call /\ c.op = "status" /\ c.allowed = {"ACCEPTED"}
    BY DEF Call, SupervisorStatus, EventType
  <2>2. Begin(s, c)
    BY <1>3 DEF CompleteSupervisorRequest, changeStatus
  <2> HIDE DEF c
  <2> QED BY <2>1, <2>2, CallStep DEF Begin, TwoLocks
<1>4. /\ \A from \in {"SUBMITTED"} : "VERIFIED" \in SupervisorTransitions[from]
      /\ \A from \in {"SUBMITTED"} : "REVISION_REQUIRED" \in SupervisorTransitions[from]
      /\ \A from \in {"SUBMITTED", "REVISION_REQUIRED"} :
           "CANCELLED" \in SupervisorTransitions[from]
  BY DEF SupervisorTransitions, SupervisorStatus
<1>5. ASSUME NEW r \in Requests,
             \/ VerifySupervisorRequest(s, r)
             \/ RequestRevisionSupervisorRequest(s, r)
             \/ CancelSupervisorRequest(s, r)
      PROVE  IInv'
  <2>1. {"supervisor_request.verified", "supervisor_request.revision_required",
         "supervisor_request.cancelled"} \subseteq EventType
    BY DEF EventType
  <2>2. CASE VerifySupervisorRequest(s, r)
    BY <1>2, <1>4, <2>1, <2>2 DEF VerifySupervisorRequest
  <2>3. CASE RequestRevisionSupervisorRequest(s, r)
    BY <1>2, <1>4, <2>1, <2>3 DEF RequestRevisionSupervisorRequest
  <2>4. CASE CancelSupervisorRequest(s, r)
    BY <1>2, <1>4, <2>1, <2>4 DEF CancelSupervisorRequest
  <2> QED BY <1>5, <2>2, <2>3, <2>4
<1>6. ASSUME NEW r \in Requests, NEW l \in Lecturers, NEW from \in {"VERIFIED", "REJECTED"},
             NEW type \in EventType,
             Begin(s, [op |-> "assign", request |-> r, lecturer |-> l, from |-> from,
                       type |-> type, held |-> {}, at |-> clock])
      PROVE  IInv'
  <2> DEFINE c == [op |-> "assign", request |-> r, lecturer |-> l, from |-> from,
                   type |-> type, held |-> {}, at |-> clock]
  <2>1. c \in Call /\ c.op = "assign" /\ c.from = from /\ c.held = {}
    BY DEF Call, SupervisorStatus, Locks
  <2>2. Begin(s, c)
    BY <1>6
  <2> HIDE DEF c
  <2> QED BY <2>1, <2>2, CallStep DEF Begin, TwoLocks
<1>7. ASSUME NEW r \in Requests, NEW l \in Lecturers, NEW target \in {"ACCEPTED", "REJECTED"},
             NEW type \in EventType,
             respondSupervisorAssignment(s, r, l, target, type)
      PROVE  IInv'
  <2> DEFINE c == [op |-> "respond", request |-> r, lecturer |-> l, target |-> target,
                   type |-> type, held |-> {}, at |-> clock]
  <2>1. c \in Call /\ c.op = "respond" /\ c.target = target /\ c.held = {}
    BY DEF Call, SupervisorStatus, Locks
  <2>2. Begin(s, c)
    BY <1>7 DEF respondSupervisorAssignment
  <2> HIDE DEF c
  <2> QED BY <2>1, <2>2, CallStep DEF Begin, TwoLocks
<1>8. ASSUME NEW r \in Requests, NEW l \in Lecturers,
             \/ AssignSupervisor(s, r, l)
             \/ ReassignSupervisor(s, r, l)
             \/ AcceptSupervisorRequest(s, r, l)
             \/ RejectSupervisorRequest(s, r, l)
      PROVE  IInv'
  <2>1. {"supervisor_request.assigned", "supervisor_request.reassigned",
         "supervisor_request.accepted", "supervisor_request.rejected"} \subseteq EventType
    BY DEF EventType
  <2>2. CASE AssignSupervisor(s, r, l) \/ ReassignSupervisor(s, r, l)
    BY <1>6, <2>1, <2>2 DEF AssignSupervisor, ReassignSupervisor
  <2>3. CASE AcceptSupervisorRequest(s, r, l) \/ RejectSupervisorRequest(s, r, l)
    BY <1>7, <2>1, <2>3 DEF AcceptSupervisorRequest, RejectSupervisorRequest
  <2> QED BY <1>8, <2>2, <2>3
<1> QED BY <1>1, <1>3, <1>5, <1>8

\* A rollback forgets the call, a choice takes a key-share lock.
LEMMA RollbackStep ==
  ASSUME IInv, NEW s \in Sessions, Rollback(s)
  PROVE  IInv'
  BY CallStep, IdleIsACall DEF Rollback, Return, TwoLocks

LEMMA InsertChoiceStep ==
  ASSUME IInv, NEW s \in Sessions, NEW l \in Lecturers, InsertChoice(s, l)
  PROVE  IInv'
<1> DEFINE c == [call[s] EXCEPT !.wants = @ \ {l}, !.shares = @ \cup {l}]
<1>1. call[s] \in [op : {"create"}, student : Students, wants : SUBSET Lecturers,
                   shares : SUBSET Lecturers, at : Time]
  BY DEF InsertChoice, IInv, TypeOK, Call, Idle
<1>2. c \in Call /\ c.op = "create"
  BY <1>1 DEF Call
<1>3. call' = [call EXCEPT ![s] = c] /\ UNCHANGED <<clock, requestVars, profile, progress>>
  BY DEF InsertChoice, IInv, TypeOK
<1> HIDE DEF c
<1> QED BY <1>2, <1>3, CallStep DEF TwoLocks

\* The locks are taken when they are free, and what is checked then holds.
LEMMA LockAndCheckStep ==
  ASSUME IInv, NEW s \in Sessions, LockAndCheck(s)
  PROVE  IInv'
<1> DEFINE old  == call[s]
           lock == NextLock(old)
           c    == [old EXCEPT !.held = @ \cup {lock}]
<1>1. /\ old \in Call /\ old.op \in TwoLocks /\ old.held # {"request", "lecturer"}
      /\ \/ old.held = {} /\ lock = "request"
         \/ old.held = {"request"} /\ lock = "lecturer"
      /\ old.request \in Requests /\ old.lecturer \in Lecturers
  BY TwoLockCalls DEF LockAndCheck, IInv, TypeOK
<1>2. /\ c \in Call /\ c.op = old.op /\ c.request = old.request /\ c.lecturer = old.lecturer
      /\ c.held = old.held \cup {lock}
      /\ c.op = "assign" => c.from = old.from
      /\ c.op = "respond" => c.target = old.target
  <2>1. CASE old.op = "assign"
    <3>1. old \in [op : {"assign"}, request : Requests, lecturer : Lecturers,
                   from : SupervisorStatus, type : EventType, held : Locks, at : Time]
      BY <1>1, <2>1 DEF Call, Idle
    <3>2. old.held \cup {lock} \in Locks
      BY <1>1 DEF Locks
    <3> HIDE DEF old, lock
    <3> QED BY <3>1, <3>2 DEF Call
  <2>2. CASE old.op = "respond"
    <3>1. old \in [op : {"respond"}, request : Requests, lecturer : Lecturers,
                   target : SupervisorStatus, type : EventType, held : Locks, at : Time]
      BY <1>1, <2>2 DEF Call, Idle
    <3>2. old.held \cup {lock} \in Locks
      BY <1>1 DEF Locks
    <3> HIDE DEF old, lock
    <3> QED BY <3>1, <3>2 DEF Call
  <2> QED BY <1>1, <2>1, <2>2 DEF TwoLocks
<1>3. call' = [call EXCEPT ![s] = c] /\ UNCHANGED <<clock, requestVars, profile, progress>>
  BY DEF LockAndCheck, IInv, TypeOK
<1>4. /\ RequestIsReady(old) <=> RequestIsReady(c)
      /\ LecturerIsReady(old) <=> LecturerIsReady(c)
  BY <1>1, <1>2 DEF RequestIsReady, LecturerIsReady, TwoLocks
<1>5. /\ c.op = "assign"  => c.from \in {"VERIFIED", "REJECTED"}
      /\ c.op = "respond" => c.target \in {"ACCEPTED", "REJECTED"}
      /\ c.op # "status"
  BY <1>1, <1>2 DEF IInv, CallsOK, TwoLocks
<1>6. CASE old.held = {} /\ lock = "request"
  <2>1. RequestIsReady(old) /\ RequestFree(s, old.request) /\ c.held = {"request"}
    BY <1>2, <1>6 DEF LockAndCheck
  <2>2. "request" \in c.held => RequestIsReady(c) /\ RequestFree(s, c.request)
    BY <1>2, <1>4, <2>1
  <2>3. "lecturer" \notin c.held
    BY <2>1
  <2> HIDE DEF c
  <2> QED BY <1>2, <1>3, <1>5, <2>2, <2>3, CallStep
<1>7. CASE old.held = {"request"} /\ lock = "lecturer"
  <2>1. /\ LecturerIsReady(old) /\ RequestIsReady(old)
        /\ \A t \in Sessions \ {s} : ~HoldsLecturer(t, old.lecturer)
    BY <1>1, <1>7 DEF LockAndCheck, LecturerFree, IInv, ChecksHold
  <2>2. RequestFree(s, old.request)
    BY <1>1, <1>7 DEF RequestFree, IInv, LocksApart, HoldsRequest
  <2>3. /\ RequestIsReady(c) /\ RequestFree(s, c.request) /\ LecturerIsReady(c)
        /\ \A t \in Sessions \ {s} : ~HoldsLecturer(t, c.lecturer)
    BY <1>2, <1>4, <2>1, <2>2
  <2> HIDE DEF c
  <2> QED BY <1>2, <1>3, <1>5, <2>3, CallStep
<1> QED BY <1>1, <1>6, <1>7

\* The thesis progress is begun for a request that exists.
LEMMA InitializeProgressStep ==
  ASSUME IInv, NEW s \in Sessions, InitializeProgress(s)
  PROVE  IInv'
<1>1. call[s].request \in Requests
  BY CallKinds DEF InitializeProgress, IInv, TypeOK
<1>2. progress' \in [Students -> Requests \cup {Null}]
  BY <1>1 DEF InitializeProgress, IInv, TypeOK
<1>3. call' = [call EXCEPT ![s] = Idle] /\ UNCHANGED <<clock, requestVars, profile>>
  BY DEF InitializeProgress, Return
<1> QED BY <1>2, <1>3, CallStep, IdleIsACall DEF TwoLocks

\* The administration changes no lecturer who is locked.
LEMMA AdministrationStep ==
  ASSUME IInv, NEW l \in Lecturers,
         \/ \E q \in Quotas : UpsertLecturer(l, q)
         \/ \E active \in BOOLEAN : SetLecturerStatus(l, active)
  PROVE  IInv'
<1>1. /\ NotForUpdate(l)
      /\ UNCHANGED <<clock, status, student, assignments, history, outbox, progress, call>>
  BY DEF UpsertLecturer, SetLecturerStatus, requestVars
<1>2. /\ profile' \in [Lecturers -> [active : BOOLEAN, quota : Quotas]]
      /\ \A k \in Lecturers \ {l} : profile'[k] = profile[k]
  BY DEF IInv, TypeOK, UpsertLecturer, SetLecturerStatus
<1>3. TypeOK' /\ AssignmentsMatchStatus' /\ CallsOK'
  BY <1>1, <1>2 DEF IInv, TypeOK, AssignmentsMatchStatus, CallsOK
<1>4. LocksApart' /\ CountsAreFinite'
  BY <1>1 DEF IInv, LocksApart, HoldsRequest, HoldsLecturer, CountsAreFinite, Supervisions,
              UsesQuota
<1>5. ChecksHold'
  <2> SUFFICES ASSUME NEW s \in Sessions, call[s].op \in TwoLocks
               PROVE  /\ "request" \in call[s].held  => RequestIsReady(call[s])'
                      /\ "lecturer" \in call[s].held => LecturerIsReady(call[s])'
    BY <1>1 DEF ChecksHold, RequestIsReady, LecturerIsReady
  <2>1. /\ "request" \in call[s].held  => RequestIsReady(call[s])
        /\ "lecturer" \in call[s].held => LecturerIsReady(call[s])
        /\ call[s].lecturer \in Lecturers
    BY TwoLockCalls DEF IInv, TypeOK, ChecksHold
  <2>2. "lecturer" \in call[s].held => call[s].lecturer # l
    BY <1>1 DEF NotForUpdate, HoldsLecturer
  <2>3. activeCount(call[s].lecturer)' = activeCount(call[s].lecturer)
    BY <1>1 DEF activeCount, Supervisions, UsesQuota
  <2> QED BY <1>1, <1>2, <2>1, <2>2, <2>3 DEF RequestIsReady, LecturerIsReady, IsPendingFor
<1> QED BY <1>3, <1>4, <1>5 DEF IInv

-----------------------------------------------------------------------------
(* The commits.                                                             *)

\* No lecturer's supervisions grow in number.
NoCountGrows ==
  \A l \in Lecturers :
    activeCount(l) \in Nat /\ activeCount(l)' \in Nat /\ activeCount(l)' <= activeCount(l)

\* A request without a decision about a supervisor has no assignments.
LEMMA Unassigned ==
  ASSUME AssignmentsMatchStatus, TypeOK, NEW r \in Requests,
         status[r] \notin {"ASSIGNED", "REJECTED", "COMPLETED"}
  PROVE  Len(assignments[r]) = 0 /\ DOMAIN assignments[r] = {}
<1>1. Len(assignments[r]) \in Nat /\ DOMAIN assignments[r] = 1 .. Len(assignments[r])
  BY DEF TypeOK
<1>2. Len(assignments[r]) = 0
  BY <1>1 DEF AssignmentsMatchStatus
<1> QED BY <1>1, <1>2

LEMMA InsertStep ==
  ASSUME IInv, NEW s \in Sessions, NEW r \in Requests, InsertSupervisorRequest(s, r)
  PROVE  IInv' /\ NoCountGrows
<1> DEFINE rows   == <<Row(Null, "SUBMITTED", call[s].at)>>
           events == <<Event("supervisor_request.created", "SUBMITTED", Null, call[s].at)>>
<1>1. /\ call[s].op = "create" /\ status[r] = "NONE"
      /\ Write(r, "SUBMITTED", rows, events)
      /\ call' = [call EXCEPT ![s] = Idle]
      /\ student' = [student EXCEPT ![r] = call[s].student]
      /\ UNCHANGED <<clock, assignments, profile, progress>>
  BY DEF InsertSupervisorRequest, Return, Exists
<1>2. call[s].at \in Time /\ call[s].student \in Students
  BY <1>1, CallKinds DEF IInv, TypeOK
<1>3. rows \in Seq(HistoryRow) /\ events \in Seq(OutboxRow)
  <2>1. /\ Row(Null, "SUBMITTED", call[s].at) \in HistoryRow
        /\ Event("supervisor_request.created", "SUBMITTED", Null, call[s].at) \in OutboxRow
    BY <1>2, RowTypes DEF SupervisorStatus, EventType
  <2> QED BY <2>1
<1> HIDE DEF rows, events
<1>4. /\ status'  \in [Requests -> (SupervisorStatus \ {"ACCEPTED"}) \cup {"NONE"}]
      /\ history' \in [Requests -> Seq(HistoryRow)] /\ outbox' \in [Requests -> Seq(OutboxRow)]
      /\ status'[r] = "SUBMITTED" /\ \A q \in Requests \ {r} : status'[q] = status[q]
  BY <1>1, <1>3, WriteTypes DEF IInv, SupervisorStatus
<1>5. \A l \in Lecturers : \A q \in Requests : \A i \in DOMAIN assignments'[q] :
        UsesQuota(q, i, l)' => i \in DOMAIN assignments[q] /\ UsesQuota(q, i, l)
  BY <1>1, <1>4 DEF UsesQuota
<1>6. \A l \in Lecturers :
        /\ IsFiniteSet(Supervisions(l)')
        /\ activeCount(l) \in Nat /\ activeCount(l)' \in Nat /\ activeCount(l)' <= activeCount(l)
  BY <1>5, CountDoesNotGrow DEF IInv
<1>7. RequestFree(s, r)
  <2> SUFFICES ASSUME NEW t \in Sessions \ {s}, HoldsRequest(t, r) PROVE FALSE
    BY DEF RequestFree
  <2>1. RequestIsReady(call[t]) /\ call[t].request = r
    BY DEF HoldsRequest, IInv, ChecksHold
  <2>2. call[t].op = "assign" => call[t].from # "NONE"
    BY DEF IInv, CallsOK
  <2> QED BY <1>1, <2>1, <2>2 DEF RequestIsReady
<1>8. call' \in [Sessions -> Call] /\ CallsOK' /\ ChecksHold' /\ LocksApart'
  BY <1>1, <1>4, <1>6, <1>7, IdleIsACall, CommitKeepsCalls
<1>9. TypeOK'
  BY <1>1, <1>2, <1>4, <1>8 DEF IInv, TypeOK
<1>10. AssignmentsMatchStatus'
  <2>1. Len(assignments[r]) = 0
    BY <1>1, Unassigned DEF IInv
  <2> QED BY <1>1, <1>4, <2>1 DEF IInv, AssignmentsMatchStatus
<1> QED BY <1>6, <1>8, <1>9, <1>10 DEF IInv, CountsAreFinite, NoCountGrows

\* A plain status change moves a request that nobody supervises.
LEMMA StatusFacts ==
  ASSUME IInv, NEW s \in Sessions, updateSupervisorStatus(s)
  PROVE  LET c == call[s]
         IN  /\ c \in Call /\ c.op = "status" /\ c.request \in Requests
             /\ status[c.request] \in {"SUBMITTED", "REVISION_REQUIRED"}
             /\ c.target \in {"VERIFIED", "REVISION_REQUIRED", "CANCELLED"}
             /\ c.target \in SupervisorTransitions[status[c.request]]
             /\ status' = [status EXCEPT ![c.request] = c.target]
<1>1. /\ call[s] \in Call /\ call[s].op = "status" /\ status[call[s].request] \in call[s].allowed
      /\ status' = [status EXCEPT ![call[s].request] = call[s].target]
  BY DEF updateSupervisorStatus, Write, IInv, TypeOK
<1>2. call[s].request \in Requests
  BY <1>1, CallKinds
<1>3. status[call[s].request] # "ACCEPTED"
  BY <1>2 DEF IInv, TypeOK, SupervisorStatus
<1> QED BY <1>1, <1>2, <1>3 DEF IInv, CallsOK

LEMMA StatusStep ==
  ASSUME IInv, NEW s \in Sessions, updateSupervisorStatus(s)
  PROVE  IInv' /\ NoCountGrows
<1> DEFINE c      == call[s]
           r      == c.request
           rows   == <<Row(status[r], c.target, c.at)>>
           events == <<Event(c.type, c.target, Null, c.at)>>
<1>1. /\ c \in Call /\ c.op = "status" /\ r \in Requests
      /\ status[r] \in {"SUBMITTED", "REVISION_REQUIRED"}
      /\ c.target \in {"VERIFIED", "REVISION_REQUIRED", "CANCELLED"}
  BY StatusFacts
<1>2. /\ Write(r, c.target, rows, events) /\ RequestFree(s, r)
      /\ call' = [call EXCEPT ![s] = Idle]
      /\ UNCHANGED <<clock, student, assignments, profile, progress>>
  BY DEF updateSupervisorStatus, Return
<1>3. rows \in Seq(HistoryRow) /\ events \in Seq(OutboxRow)
  <2>1. c.at \in Time /\ c.type \in EventType /\ c.target \in SupervisorStatus
    BY <1>1, CallKinds
  <2>2. status[r] \in SupervisorStatus
    BY <1>1 DEF SupervisorStatus
  <2>3. /\ Row(status[r], c.target, c.at) \in HistoryRow
        /\ Event(c.type, c.target, Null, c.at) \in OutboxRow
    BY <2>1, <2>2, RowTypes
  <2> QED BY <2>3
<1> HIDE DEF c, r, rows, events
<1>4. /\ status'  \in [Requests -> (SupervisorStatus \ {"ACCEPTED"}) \cup {"NONE"}]
      /\ history' \in [Requests -> Seq(HistoryRow)] /\ outbox' \in [Requests -> Seq(OutboxRow)]
      /\ status'[r] = c.target /\ \A q \in Requests \ {r} : status'[q] = status[q]
  <2>1. c.target \in SupervisorStatus /\ c.target # "ACCEPTED"
    BY <1>1 DEF SupervisorStatus
  <2> QED BY <1>1, <1>2, <1>3, <2>1, WriteTypes DEF IInv
<1>5. \A l \in Lecturers : \A q \in Requests : \A i \in DOMAIN assignments'[q] :
        UsesQuota(q, i, l)' => i \in DOMAIN assignments[q] /\ UsesQuota(q, i, l)
  BY <1>1, <1>2, <1>4 DEF UsesQuota
<1>6. \A l \in Lecturers :
        /\ IsFiniteSet(Supervisions(l)')
        /\ activeCount(l) \in Nat /\ activeCount(l)' \in Nat /\ activeCount(l)' <= activeCount(l)
  BY <1>5, CountDoesNotGrow DEF IInv
<1>7. call' \in [Sessions -> Call] /\ CallsOK' /\ ChecksHold' /\ LocksApart'
  BY <1>1, <1>2, <1>4, <1>6, IdleIsACall, CommitKeepsCalls
<1>8. TypeOK'
  BY <1>2, <1>4, <1>7 DEF IInv, TypeOK
<1>9. AssignmentsMatchStatus'
  <2>1. Len(assignments[r]) = 0
    BY <1>1, Unassigned DEF IInv
  <2> QED BY <1>1, <1>2, <1>4, <2>1 DEF IInv, AssignmentsMatchStatus
<1> QED BY <1>6, <1>7, <1>8, <1>9 DEF IInv, CountsAreFinite, NoCountGrows

\* It is enough to look at the request a commit has written.
LEMMA MatchAfterCommit ==
  ASSUME AssignmentsMatchStatus, NEW r \in Requests,
         \A q \in Requests \ {r} : status'[q] = status[q] /\ assignments'[q] = assignments[q],
         Len(assignments'[r]) \in Nat \ {0},
         \A i \in 1 .. Len(assignments'[r]) - 1 : assignments'[r][i].status = "REJECTED",
         LET last == assignments'[r][Len(assignments'[r])]
         IN  \/ status'[r] = "ASSIGNED"  /\ last.status = "PENDING"
             \/ status'[r] = "REJECTED"  /\ last.status = "REJECTED"
             \/ status'[r] = "COMPLETED" /\ last.status = "ACCEPTED"
  PROVE  AssignmentsMatchStatus'
<1> SUFFICES ASSUME NEW q \in Requests
             PROVE  LET m == Len(assignments'[q])
                    IN  /\ \A i \in 1 .. m - 1 : assignments'[q][i].status = "REJECTED"
                        /\ m = 0 => status'[q] \notin {"ASSIGNED", "REJECTED", "COMPLETED"}
                        /\ m > 0 =>
                             \/ status'[q] = "ASSIGNED"  /\ assignments'[q][m].status = "PENDING"
                             \/ status'[q] = "REJECTED"  /\ assignments'[q][m].status = "REJECTED"
                             \/ status'[q] = "COMPLETED" /\ assignments'[q][m].status = "ACCEPTED"
  BY DEF AssignmentsMatchStatus, Last
<1>1. CASE q = r
  BY <1>1
<1>2. CASE q # r
  <2>1. status'[q] = status[q] /\ assignments'[q] = assignments[q]
    BY <1>2
  <2> QED BY <2>1 DEF AssignmentsMatchStatus, Last
<1> QED BY <1>1, <1>2

\* An assignment is added to a request of which every lecturer so far was rejected.
LEMMA AssignmentFacts ==
  ASSUME IInv, NEW s \in Sessions, CommitAssignment(s)
  PROVE  LET c == call[s]
             r == c.request
             n == Len(assignments[r])
         IN  /\ c \in Call /\ c.op = "assign" /\ r \in Requests /\ c.lecturer \in Lecturers
             /\ c.held = {"request", "lecturer"}
             /\ status[r] \in {"VERIFIED", "REJECTED"}
             /\ activeCount(c.lecturer) < profile[c.lecturer].quota
             /\ n \in Nat /\ DOMAIN assignments[r] = 1 .. n
             /\ \A i \in 1 .. n : assignments[r][i].status = "REJECTED"
             /\ assignments'[r] \in Seq(AssignmentRow)
             /\ Len(assignments'[r]) = n + 1 /\ DOMAIN assignments'[r] = 1 .. n + 1
             /\ \A i \in 1 .. n : assignments'[r][i] = assignments[r][i]
             /\ assignments'[r][n + 1].lecturer = c.lecturer
             /\ assignments'[r][n + 1].status = "PENDING"
             /\ \A q \in Requests \ {r} : assignments'[q] = assignments[q]
<1> DEFINE c == call[s]
           r == c.request
           n == Len(assignments[r])
           a == [lecturer |-> c.lecturer, status |-> "PENDING"]
<1>1. /\ c \in Call /\ c.op = "assign" /\ r \in Requests /\ c.lecturer \in Lecturers
      /\ c.held = {"request", "lecturer"}
  BY CallKinds DEF CommitAssignment, IInv, TypeOK
<1>2. /\ status[r] \in {"VERIFIED", "REJECTED"}
      /\ activeCount(c.lecturer) < profile[c.lecturer].quota
  BY <1>1 DEF IInv, ChecksHold, CallsOK, RequestIsReady, LecturerIsReady, TwoLocks
<1>3. assignments[r] \in Seq(AssignmentRow) /\ n \in Nat /\ DOMAIN assignments[r] = 1 .. n
  BY <1>1 DEF IInv, TypeOK
<1>4. \A i \in 1 .. n : assignments[r][i].status = "REJECTED"
  <2>1. CASE n = 0
    BY <2>1
  <2>2. CASE n # 0
    BY <1>1, <1>2, <1>3, <2>2 DEF IInv, AssignmentsMatchStatus, Last
  <2> QED BY <2>1, <2>2
<1>5. a \in AssignmentRow
  BY <1>1 DEF AssignmentRow
<1>6. /\ assignments'[r] = Append(assignments[r], a)
      /\ \A q \in Requests \ {r} : assignments'[q] = assignments[q]
  BY <1>1 DEF CommitAssignment, IInv, TypeOK
<1> HIDE DEF a
<1>7. /\ assignments'[r] \in Seq(AssignmentRow)
      /\ Len(assignments'[r]) = n + 1 /\ DOMAIN assignments'[r] = 1 .. n + 1
      /\ \A i \in 1 .. n : assignments'[r][i] = assignments[r][i]
      /\ assignments'[r][n + 1] = a
  BY <1>3, <1>5, <1>6
<1> QED BY <1>1, <1>2, <1>3, <1>4, <1>6, <1>7 DEF a

\* So the count of the lecturer grows by one and that of no other.
LEMMA AssignmentCounts ==
  ASSUME IInv, NEW s \in Sessions, CommitAssignment(s), NEW l \in Lecturers
  PROVE  /\ IsFiniteSet(Supervisions(l)')
         /\ activeCount(l) \in Nat /\ activeCount(l)' \in Nat
         /\ l # call[s].lecturer => activeCount(l)' <= activeCount(l)
         /\ activeCount(l)' <= activeCount(l) + 1
<1> DEFINE r == call[s].request
           n == Len(assignments[r]) + 1
<1>1. /\ r \in Requests /\ DOMAIN assignments[r] = 1 .. n - 1
      /\ n \in Nat /\ DOMAIN assignments'[r] = 1 .. n
      /\ \A i \in 1 .. n - 1 : assignments[r][i].status = "REJECTED"
      /\ \A i \in 1 .. n - 1 : assignments'[r][i] = assignments[r][i]
      /\ assignments'[r][n].lecturer = call[s].lecturer
      /\ \A q \in Requests \ {r} : assignments'[q] = assignments[q]
  BY AssignmentFacts
<1>2. \A q \in Requests \ {r} : status'[q] = status[q]
  BY <1>1 DEF CommitAssignment, Write, IInv, TypeOK
<1>3. CountsAreFinite
  BY DEF IInv
<1> HIDE DEF r, n
<1>4. \A q \in Requests : \A i \in DOMAIN assignments'[q] : UsesQuota(q, i, l)' =>
        \/ i \in DOMAIN assignments[q] /\ UsesQuota(q, i, l)
        \/ q = r /\ i = n /\ l = call[s].lecturer
  <2> SUFFICES ASSUME NEW q \in Requests, NEW i \in DOMAIN assignments'[q],
                      UsesQuota(q, i, l)'
               PROVE  \/ i \in DOMAIN assignments[q] /\ UsesQuota(q, i, l)
                      \/ q = r /\ i = n /\ l = call[s].lecturer
    OBVIOUS
  <2>1. CASE q # r
    BY <1>1, <1>2, <2>1 DEF UsesQuota
  <2>2. CASE q = r
    <3>1. i \in 1 .. n
      BY <1>1, <2>2
    <3>2. ~(i \in 1 .. n - 1)
      BY <1>1, <2>2 DEF UsesQuota
    <3>3. i = n
      BY <1>1, <3>1, <3>2
    <3> QED BY <1>1, <2>2, <3>3 DEF UsesQuota
  <2> QED BY <2>1, <2>2
<1>5. /\ IsFiniteSet(Supervisions(l)')
      /\ activeCount(l) \in Nat /\ activeCount(l)' \in Nat
      /\ activeCount(l)' <= activeCount(l) + 1
  <2>1. \A q \in Requests : \A i \in DOMAIN assignments'[q] : UsesQuota(q, i, l)' =>
          \/ i \in DOMAIN assignments[q] /\ UsesQuota(q, i, l)
          \/ q = r /\ i = n
    BY <1>4
  <2> QED BY <1>1, <1>3, <2>1, CountGrowsByOne
<1>6. ASSUME l # call[s].lecturer PROVE activeCount(l)' <= activeCount(l)
  <2>1. \A q \in Requests : \A i \in DOMAIN assignments'[q] : UsesQuota(q, i, l)' =>
          i \in DOMAIN assignments[q] /\ UsesQuota(q, i, l)
    BY <1>4, <1>6
  <2> QED BY <1>3, <2>1, CountDoesNotGrow
<1> QED BY <1>5, <1>6

LEMMA AssignmentStep ==
  ASSUME IInv, NEW s \in Sessions, CommitAssignment(s)
  PROVE  IInv'
<1> DEFINE c      == call[s]
           r      == c.request
           n      == Len(assignments[r])
           rows   == <<Row(status[r], "ASSIGNED", c.at)>>
           events == <<Event(c.type, "ASSIGNED", c.lecturer, c.at)>>
<1>1. /\ c \in Call /\ c.op = "assign" /\ r \in Requests /\ c.lecturer \in Lecturers
      /\ c.held = {"request", "lecturer"}
      /\ status[r] \in {"VERIFIED", "REJECTED"}
  BY AssignmentFacts
<1>2. /\ Write(r, "ASSIGNED", rows, events)
      /\ call' = [call EXCEPT ![s] = Idle]
      /\ UNCHANGED <<clock, student, profile, progress>>
      /\ DOMAIN assignments' = Requests
  BY DEF CommitAssignment, Return, IInv, TypeOK
<1>3. rows \in Seq(HistoryRow) /\ events \in Seq(OutboxRow)
  <2>1. /\ c.at \in Time /\ c.type \in EventType /\ "ASSIGNED" \in SupervisorStatus
        /\ status[r] \in SupervisorStatus
    BY <1>1, CallKinds DEF SupervisorStatus
  <2>2. /\ Row(status[r], "ASSIGNED", c.at) \in HistoryRow
        /\ Event(c.type, "ASSIGNED", c.lecturer, c.at) \in OutboxRow
    BY <1>1, <2>1, RowTypes
  <2> QED BY <2>2
<1>4. RequestFree(s, r) /\ \A t \in Sessions \ {s} : ~HoldsLecturer(t, c.lecturer)
  BY <1>1 DEF RequestFree, IInv, LocksApart, HoldsRequest, HoldsLecturer, TwoLocks
<1>5. /\ n \in Nat /\ \A i \in 1 .. n : assignments[r][i].status = "REJECTED"
      /\ assignments'[r] \in Seq(AssignmentRow) /\ Len(assignments'[r]) = n + 1
      /\ \A i \in 1 .. n : assignments'[r][i] = assignments[r][i]
      /\ assignments'[r][n + 1].status = "PENDING"
      /\ \A q \in Requests \ {r} : assignments'[q] = assignments[q]
  BY AssignmentFacts
<1> HIDE DEF c, r, n, rows, events
<1>6. /\ status'  \in [Requests -> (SupervisorStatus \ {"ACCEPTED"}) \cup {"NONE"}]
      /\ history' \in [Requests -> Seq(HistoryRow)] /\ outbox' \in [Requests -> Seq(OutboxRow)]
      /\ status'[r] = "ASSIGNED" /\ \A q \in Requests \ {r} : status'[q] = status[q]
  BY <1>1, <1>2, <1>3, WriteTypes DEF IInv, SupervisorStatus
<1>7. \A l \in Lecturers :
        /\ IsFiniteSet(Supervisions(l)')
        /\ activeCount(l) \in Nat /\ activeCount(l)' \in Nat
        /\ l # c.lecturer => activeCount(l)' <= activeCount(l)
  BY AssignmentCounts DEF c
<1>8. call' \in [Sessions -> Call] /\ CallsOK' /\ ChecksHold' /\ LocksApart'
  <2>1. \A l \in Lecturers :
          \/ \A t \in Sessions \ {s} : ~HoldsLecturer(t, l)
          \/ /\ activeCount(l) \in Nat /\ activeCount(l)' \in Nat
             /\ activeCount(l)' <= activeCount(l)
    BY <1>4, <1>7
  <2>2. \A q \in Requests \ {r} : status'[q] = status[q] /\ assignments'[q] = assignments[q]
    BY <1>5, <1>6
  <2>3. RequestFree(s, r) /\ r \in Requests /\ profile' = profile
    BY <1>1, <1>2, <1>4
  <2> QED BY <1>2, <2>1, <2>2, <2>3, IdleIsACall, CommitKeepsCalls
<1>9. assignments' \in [Requests -> Seq(AssignmentRow)]
  <2>1. \A q \in Requests : assignments'[q] \in Seq(AssignmentRow)
    BY <1>5 DEF IInv, TypeOK
  <2>2. assignments' = [q \in Requests |-> assignments'[q]]
    BY <1>1 DEF CommitAssignment, IInv, TypeOK
  <2> QED BY <2>1, <2>2
<1>10. TypeOK'
  BY <1>2, <1>6, <1>8, <1>9 DEF IInv, TypeOK
<1>11. AssignmentsMatchStatus'
  <2> DEFINE m == Len(assignments'[r])
  <2>1. m \in Nat \ {0} /\ m - 1 = n /\ m = n + 1
    BY <1>5
  <2>2. \A i \in 1 .. m - 1 : assignments'[r][i].status = "REJECTED"
    BY <1>5, <2>1
  <2>3. status'[r] = "ASSIGNED" /\ assignments'[r][m].status = "PENDING"
    BY <1>5, <1>6, <2>1
  <2>4. \A q \in Requests \ {r} : status'[q] = status[q] /\ assignments'[q] = assignments[q]
    BY <1>5, <1>6
  <2>5. r \in Requests /\ AssignmentsMatchStatus
    BY <1>1 DEF IInv
  <2> QED BY <2>1, <2>2, <2>3, <2>4, <2>5, MatchAfterCommit
<1> QED BY <1>7, <1>8, <1>10, <1>11 DEF IInv, CountsAreFinite

LEMMA FunctionIsSeq ==
  ASSUME NEW S, NEW n \in Nat, NEW f \in [1 .. n -> S]
  PROVE  f \in Seq(S) /\ Len(f) = n /\ DOMAIN f = 1 .. n
<1>1. f \in Seq(S)
  BY SeqDef
<1>2. Len(f) \in Nat /\ DOMAIN f = 1 .. Len(f)
  BY <1>1, LenProperties
<1>3. Len(f) = n
  <2>1. 1 .. Len(f) = 1 .. n
    BY <1>2
  <2>2. Len(f) <= n
    BY <1>2, <2>1
  <2>3. n <= Len(f)
    BY <1>2, <2>1
  <2> QED BY <1>2, <2>2, <2>3
<1> QED BY <1>1, <1>2, <1>3

\* The pending assignment a lecturer answers is the last one of the request, and
\* the answer changes no other.
LEMMA AnswerFacts ==
  ASSUME IInv, NEW s \in Sessions, call[s].op = "respond",
         call[s].held = {"request", "lecturer"}, NEW answer \in {"ACCEPTED", "REJECTED"},
         Answer(call[s].request, call[s].lecturer, answer)
  PROVE  LET c == call[s]
             r == c.request
             n == Len(assignments[r])
         IN  /\ c \in Call /\ r \in Requests /\ c.lecturer \in Lecturers
             /\ status[r] = "ASSIGNED"
             /\ n \in Nat \ {0} /\ DOMAIN assignments[r] = 1 .. n
             /\ \A i \in 1 .. n - 1 : assignments[r][i].status = "REJECTED"
             /\ assignments[r][n].lecturer = c.lecturer /\ assignments[r][n].status = "PENDING"
             /\ assignments' \in [Requests -> Seq(AssignmentRow)]
             /\ Len(assignments'[r]) = n /\ DOMAIN assignments'[r] = 1 .. n
             /\ \A i \in 1 .. n - 1 : assignments'[r][i] = assignments[r][i]
             /\ assignments'[r][n].lecturer = c.lecturer /\ assignments'[r][n].status = answer
             /\ \A q \in Requests \ {r} : assignments'[q] = assignments[q]
<1> DEFINE c   == call[s]
           r   == c.request
           n   == Len(assignments[r])
           ask == [lecturer |-> c.lecturer, status |-> "PENDING"]
           say == [lecturer |-> c.lecturer, status |-> answer]
           new == [i \in 1 .. n |-> IF assignments[r][i] = ask THEN say ELSE assignments[r][i]]
<1>1. c \in Call /\ r \in Requests /\ c.lecturer \in Lecturers
  BY CallKinds DEF IInv, TypeOK
<1>2. status[r] = "ASSIGNED" /\ IsPendingFor(r, c.lecturer)
  BY <1>1 DEF IInv, ChecksHold, RequestIsReady, TwoLocks
<1>3. assignments[r] \in Seq(AssignmentRow) /\ n \in Nat /\ DOMAIN assignments[r] = 1 .. n
  BY <1>1 DEF IInv, TypeOK
<1>4. PICK k \in 1 .. n : assignments[r][k] = ask
  BY <1>2, <1>3 DEF IsPendingFor
<1>5. n \in Nat \ {0} /\ \A i \in 1 .. n - 1 : assignments[r][i].status = "REJECTED"
  BY <1>1, <1>3, <1>4 DEF IInv, AssignmentsMatchStatus
<1>6. ask.status = "PENDING" /\ ask.lecturer = c.lecturer
      /\ say.status = answer /\ say.lecturer = c.lecturer
  OBVIOUS
<1>7. say \in AssignmentRow
  BY <1>1 DEF AssignmentRow
<1>8. assignments' = [assignments EXCEPT ![r] = new]
  BY <1>1, <1>3 DEF Answer, IInv, TypeOK
<1>9. assignments \in [Requests -> Seq(AssignmentRow)]
  BY DEF IInv, TypeOK
<1> HIDE DEF ask, say
<1>10. \A i \in 1 .. n : new[i] \in AssignmentRow
  <2>1. \A i \in 1 .. n : assignments[r][i] \in AssignmentRow
    BY <1>3
  <2> QED BY <1>7, <2>1
<1>11. new \in Seq(AssignmentRow) /\ Len(new) = n /\ DOMAIN new = 1 .. n
  <2>1. new \in [1 .. n -> AssignmentRow]
    BY <1>10
  <2> HIDE DEF new
  <2> QED BY <1>3, <2>1, FunctionIsSeq
<1>12. k = n
  <2>1. ~(k \in 1 .. n - 1)
    BY <1>4, <1>5, <1>6
  <2> QED BY <1>3, <1>4, <2>1
<1>13. new[n] = say
  BY <1>4, <1>5, <1>12
<1>14. \A i \in 1 .. n - 1 : new[i] = assignments[r][i]
  BY <1>3, <1>5, <1>6
<1> HIDE DEF new, n, r, c
<1>15. /\ assignments' \in [Requests -> Seq(AssignmentRow)] /\ assignments'[r] = new
       /\ \A q \in Requests \ {r} : assignments'[q] = assignments[q]
  BY <1>1, <1>8, <1>9, <1>11
<1>16. assignments[r][n].lecturer = c.lecturer /\ assignments[r][n].status = "PENDING"
  BY <1>4, <1>6, <1>12
<1> QED
  BY <1>1, <1>2, <1>3, <1>5, <1>6, <1>11, <1>13, <1>14, <1>15, <1>16 DEF n, r, c

\* An answer frees places and takes none.
LEMMA AnswerCounts ==
  ASSUME IInv, NEW s \in Sessions, call[s].op = "respond",
         call[s].held = {"request", "lecturer"}, NEW answer \in {"ACCEPTED", "REJECTED"},
         Answer(call[s].request, call[s].lecturer, answer),
         \A q \in Requests \ {call[s].request} : status'[q] = status[q],
         NEW l \in Lecturers
  PROVE  /\ IsFiniteSet(Supervisions(l)')
         /\ activeCount(l) \in Nat /\ activeCount(l)' \in Nat
         /\ activeCount(l)' <= activeCount(l)
<1> DEFINE r == call[s].request
           n == Len(assignments[r])
<1>1. /\ r \in Requests /\ status[r] = "ASSIGNED"
      /\ n \in Nat \ {0} /\ DOMAIN assignments[r] = 1 .. n /\ DOMAIN assignments'[r] = 1 .. n
      /\ \A i \in 1 .. n - 1 : assignments[r][i].status = "REJECTED"
      /\ \A i \in 1 .. n - 1 : assignments'[r][i] = assignments[r][i]
      /\ assignments[r][n].status = "PENDING"
      /\ assignments'[r][n].lecturer = assignments[r][n].lecturer
      /\ \A q \in Requests \ {r} : assignments'[q] = assignments[q]
  BY AnswerFacts
<1>2. \A q \in Requests \ {r} : status'[q] = status[q]
  OBVIOUS
<1> HIDE DEF r, n
<1>3. \A q \in Requests : \A i \in DOMAIN assignments'[q] :
        UsesQuota(q, i, l)' => i \in DOMAIN assignments[q] /\ UsesQuota(q, i, l)
  <2> SUFFICES ASSUME NEW q \in Requests, NEW i \in DOMAIN assignments'[q], UsesQuota(q, i, l)'
               PROVE  i \in DOMAIN assignments[q] /\ UsesQuota(q, i, l)
    OBVIOUS
  <2>1. CASE q # r
    BY <1>1, <1>2, <2>1 DEF UsesQuota
  <2>2. CASE q = r
    <3>1. i \in 1 .. n /\ ~(i \in 1 .. n - 1)
      BY <1>1, <2>2 DEF UsesQuota
    <3>2. i = n
      BY <1>1, <3>1
    <3> QED BY <1>1, <2>2, <3>2 DEF UsesQuota
  <2> QED BY <2>1, <2>2
<1>4. CountsAreFinite
  BY DEF IInv
<1> QED BY <1>3, <1>4, CountDoesNotGrow

\* Both answers: what is left of the session is a call without locks.
LEMMA AnswerStep ==
  ASSUME IInv, NEW s \in Sessions, call[s].op = "respond",
         call[s].held = {"request", "lecturer"},
         NEW answer, NEW new,
         \/ answer = "ACCEPTED" /\ new = "COMPLETED"
         \/ answer = "REJECTED" /\ new = "REJECTED",
         Answer(call[s].request, call[s].lecturer, answer),
         NEW rows \in Seq(HistoryRow), NEW events \in Seq(OutboxRow),
         Write(call[s].request, new, rows, events),
         NEW e \in Call, e.op \in {"idle", "progress"}, call' = [call EXCEPT ![s] = e],
         UNCHANGED <<clock, student, profile, progress>>
  PROVE  IInv' /\ NoCountGrows
<1> DEFINE c   == call[s]
           r   == c.request
           n   == Len(assignments[r])
<1>1. /\ r \in Requests /\ c.lecturer \in Lecturers
      /\ n \in Nat \ {0} /\ assignments' \in [Requests -> Seq(AssignmentRow)]
      /\ Len(assignments'[r]) = n
      /\ \A i \in 1 .. n - 1 : assignments[r][i].status = "REJECTED"
      /\ \A i \in 1 .. n - 1 : assignments'[r][i] = assignments[r][i]
      /\ assignments'[r][n].status = answer
      /\ \A q \in Requests \ {r} : assignments'[q] = assignments[q]
  BY AnswerFacts
<1>2. new \in SupervisorStatus /\ new # "ACCEPTED"
  BY DEF SupervisorStatus
<1>3. /\ status'  \in [Requests -> (SupervisorStatus \ {"ACCEPTED"}) \cup {"NONE"}]
      /\ history' \in [Requests -> Seq(HistoryRow)] /\ outbox' \in [Requests -> Seq(OutboxRow)]
      /\ status'[r] = new /\ \A q \in Requests \ {r} : status'[q] = status[q]
  BY <1>1, <1>2, WriteTypes DEF IInv
<1>4. \A l \in Lecturers :
        /\ IsFiniteSet(Supervisions(l)')
        /\ activeCount(l) \in Nat /\ activeCount(l)' \in Nat /\ activeCount(l)' <= activeCount(l)
  BY <1>3, AnswerCounts
<1>5. RequestFree(s, r)
  BY <1>1 DEF RequestFree, IInv, LocksApart, HoldsRequest, TwoLocks
<1>6. call' \in [Sessions -> Call] /\ CallsOK' /\ ChecksHold' /\ LocksApart'
  <2>1. \A l \in Lecturers :
          \/ \A t \in Sessions \ {s} : ~HoldsLecturer(t, l)
          \/ /\ activeCount(l) \in Nat /\ activeCount(l)' \in Nat
             /\ activeCount(l)' <= activeCount(l)
    BY <1>4
  <2>2. \A q \in Requests \ {r} : status'[q] = status[q] /\ assignments'[q] = assignments[q]
    BY <1>1, <1>3
  <2>3. r \in Requests /\ profile' = profile
    BY <1>1
  <2> HIDE DEF r
  <2> QED BY <1>5, <2>1, <2>2, <2>3, CommitKeepsCalls
<1>7. TypeOK'
  BY <1>1, <1>3, <1>6 DEF IInv, TypeOK
<1>8. AssignmentsMatchStatus'
  <2> DEFINE m == Len(assignments'[r])
  <2>1. m \in Nat \ {0} /\ m = n
    BY <1>1
  <2>2. \A i \in 1 .. m - 1 : assignments'[r][i].status = "REJECTED"
    BY <1>1, <2>1
  <2>3. \/ status'[r] = "REJECTED"  /\ assignments'[r][m].status = "REJECTED"
        \/ status'[r] = "COMPLETED" /\ assignments'[r][m].status = "ACCEPTED"
    BY <1>1, <1>3, <2>1
  <2>4. \A q \in Requests \ {r} : status'[q] = status[q] /\ assignments'[q] = assignments[q]
    BY <1>1, <1>3
  <2>5. r \in Requests /\ AssignmentsMatchStatus
    BY <1>1 DEF IInv
  <2> HIDE DEF r
  <2> QED BY <2>1, <2>2, <2>3, <2>4, <2>5, MatchAfterCommit
<1> QED BY <1>4, <1>6, <1>7, <1>8 DEF IInv, CountsAreFinite, NoCountGrows

LEMMA RejectionStep ==
  ASSUME IInv, NEW s \in Sessions, CommitRejection(s)
  PROVE  IInv' /\ NoCountGrows
<1> DEFINE c      == call[s]
           rows   == <<Row(status[c.request], "REJECTED", c.at)>>
           events == <<Event(c.type, "REJECTED", c.lecturer, c.at)>>
<1>1. /\ c.op = "respond" /\ c.held = {"request", "lecturer"}
      /\ Answer(c.request, c.lecturer, "REJECTED")
      /\ Write(c.request, "REJECTED", rows, events)
      /\ call' = [call EXCEPT ![s] = Idle]
      /\ UNCHANGED <<clock, student, profile, progress>>
  BY DEF CommitRejection, Return
<1>2. /\ c.at \in Time /\ c.type \in EventType /\ c.lecturer \in Lecturers
      /\ status[c.request] \in SupervisorStatus
  <2>1. status[c.request] = "ASSIGNED"
    BY <1>1, AnswerFacts
  <2> QED BY <1>1, <2>1, CallKinds DEF IInv, TypeOK, SupervisorStatus
<1>3. rows \in Seq(HistoryRow) /\ events \in Seq(OutboxRow)
  <2>1. /\ Row(status[c.request], "REJECTED", c.at) \in HistoryRow
        /\ Event(c.type, "REJECTED", c.lecturer, c.at) \in OutboxRow
    BY <1>2, RowTypes DEF SupervisorStatus
  <2> QED BY <2>1
<1> HIDE DEF rows, events
<1> QED BY <1>1, <1>3, IdleIsACall, AnswerStep

LEMMA AcceptanceStep ==
  ASSUME IInv, NEW s \in Sessions, CommitAcceptance(s)
  PROVE  IInv' /\ NoCountGrows
<1> DEFINE c      == call[s]
           e      == [op |-> "progress", request |-> c.request]
           rows   == <<Row(status[c.request], "ACCEPTED", c.at),
                       Row("ACCEPTED", "COMPLETED", c.at)>>
           events == <<Event(c.type, "ACCEPTED", c.lecturer, c.at),
                       Event("supervisor_request.completed", "COMPLETED", c.lecturer, c.at)>>
<1>1. /\ c.op = "respond" /\ c.held = {"request", "lecturer"}
      /\ Answer(c.request, c.lecturer, "ACCEPTED")
      /\ Write(c.request, "COMPLETED", rows, events)
      /\ call' = [call EXCEPT ![s] = e]
      /\ UNCHANGED <<clock, student, profile, progress>>
  BY DEF CommitAcceptance
<1>2. /\ c.at \in Time /\ c.type \in EventType /\ c.lecturer \in Lecturers
      /\ c.request \in Requests /\ status[c.request] \in SupervisorStatus
  <2>1. status[c.request] = "ASSIGNED"
    BY <1>1, AnswerFacts
  <2> QED BY <1>1, <2>1, CallKinds DEF IInv, TypeOK, SupervisorStatus
<1>3. rows \in Seq(HistoryRow) /\ events \in Seq(OutboxRow)
  <2>1. /\ Row(status[c.request], "ACCEPTED", c.at) \in HistoryRow
        /\ Row("ACCEPTED", "COMPLETED", c.at) \in HistoryRow
        /\ Event(c.type, "ACCEPTED", c.lecturer, c.at) \in OutboxRow
        /\ Event("supervisor_request.completed", "COMPLETED", c.lecturer, c.at) \in OutboxRow
    BY <1>2, RowTypes DEF SupervisorStatus, EventType
  <2> QED BY <2>1
<1>4. e \in Call /\ e.op \in {"idle", "progress"}
  BY <1>2 DEF Call
<1> HIDE DEF e, rows, events
<1> QED BY <1>1, <1>3, <1>4, AnswerStep

-----------------------------------------------------------------------------
(* Every step.                                                              *)

LEMMA NextIInv == IInv /\ [Next]_vars => IInv'
<1> SUFFICES ASSUME IInv, [Next]_vars PROVE IInv'
  OBVIOUS
<1>1. CASE UNCHANGED vars
  <2>1. UNCHANGED <<clock, status, student, assignments, history, outbox, profile, progress, call>>
    BY <1>1 DEF vars, requestVars
  <2>2. TypeOK' /\ AssignmentsMatchStatus' /\ CallsOK'
    BY <2>1 DEF IInv, TypeOK, AssignmentsMatchStatus, Last, CallsOK
  <2>3. LocksApart' /\ CountsAreFinite'
    BY <2>1 DEF IInv, LocksApart, HoldsRequest, HoldsLecturer, CountsAreFinite, Supervisions,
                UsesQuota
  <2>4. ASSUME NEW c PROVE RequestIsReady(c)' = RequestIsReady(c)
    BY <2>1 DEF RequestIsReady, IsPendingFor
  <2>5. ASSUME NEW c PROVE LecturerIsReady(c)' = LecturerIsReady(c)
    BY <2>1 DEF LecturerIsReady, activeCount, Supervisions, UsesQuota
  <2>6. ChecksHold'
    BY <2>1, <2>4, <2>5 DEF IInv, ChecksHold
  <2> QED BY <2>2, <2>3, <2>6 DEF IInv
<1> QED
  BY <1>1, BeginSteps, InsertChoiceStep, InsertStep, StatusStep, LockAndCheckStep, AssignmentStep,
     RejectionStep, AcceptanceStep, InitializeProgressStep, RollbackStep, AdministrationStep
  DEF Next

\* The steps that write to a request, its assignments or its events are the five
\* commits.
LEMMA WritingSteps ==
  ASSUME [Next]_vars, ~UNCHANGED <<status, assignments, outbox>>
  PROVE  \E s \in Sessions :
           \/ \E r \in Requests : InsertSupervisorRequest(s, r)
           \/ updateSupervisorStatus(s)
           \/ CommitAssignment(s)
           \/ CommitRejection(s)
           \/ CommitAcceptance(s)
<1>1. ~UNCHANGED vars
  BY DEF vars, requestVars
<1>2. ASSUME NEW s \in Sessions, NEW c, Begin(s, c) PROVE FALSE
  BY <1>2 DEF Begin, requestVars
<1>3. ASSUME NEW s \in Sessions,
             \/ \E u \in Students, choices \in SUBSET Lecturers :
                  CreateSupervisorRequest(s, u, choices)
             \/ \E r \in Requests :
                  \/ VerifySupervisorRequest(s, r)
                  \/ RequestRevisionSupervisorRequest(s, r)
                  \/ CompleteSupervisorRequest(s, r)
                  \/ CancelSupervisorRequest(s, r)
                  \/ \E l \in Lecturers :
                       \/ AssignSupervisor(s, r, l)
                       \/ ReassignSupervisor(s, r, l)
                       \/ AcceptSupervisorRequest(s, r, l)
                       \/ RejectSupervisorRequest(s, r, l)
      PROVE  FALSE
  BY <1>2, <1>3 DEF CreateSupervisorRequest, VerifySupervisorRequest,
     RequestRevisionSupervisorRequest, CompleteSupervisorRequest, CancelSupervisorRequest,
     changeStatus, AssignSupervisor, ReassignSupervisor, AcceptSupervisorRequest,
     RejectSupervisorRequest, respondSupervisorAssignment
<1>4. ASSUME NEW s \in Sessions,
             \/ LockAndCheck(s) \/ InitializeProgress(s) \/ Rollback(s)
             \/ \E l \in Lecturers : InsertChoice(s, l)
      PROVE  FALSE
  BY <1>4 DEF LockAndCheck, InitializeProgress, Rollback, InsertChoice, requestVars
<1>5. ASSUME NEW l \in Lecturers,
             \/ \E q \in Quotas : UpsertLecturer(l, q)
             \/ \E active \in BOOLEAN : SetLecturerStatus(l, active)
      PROVE  FALSE
  BY <1>5 DEF UpsertLecturer, SetLecturerStatus, requestVars
<1> QED BY <1>1, <1>3, <1>4, <1>5 DEF Next

\* The invariant the theorems rest on: besides the types, what a session has checked
\* under a row lock stays true until it commits, because the lock is its own.
THEOREM IInvHolds == Spec => []IInv
  BY InitIInv, NextIInv, PTL DEF Spec

\* Every variable keeps its type; in particular ACCEPTED is never a visible status,
\* and a session that has the lecturer's lock has the request's.
THEOREM SupervisorTypeCorrect == Spec => []TypeOK
<1>1. IInv => TypeOK
  BY DEF IInv
<1> QED BY IInvHolds, <1>1, PTL

\* The assignments of a request agree with its status, however many lecturers were
\* asked before: one is pending exactly while it is ASSIGNED, one accepted exactly
\* when it is COMPLETED, and all the earlier ones were rejected.
THEOREM AssignmentsAgree == Spec => []AssignmentsMatchStatus
<1>1. IInv => AssignmentsMatchStatus
  BY DEF IInv
<1> QED BY IInvHolds, <1>1, PTL

\* No set of handlers waits in a circle for row locks, whatever they lock.
THEOREM NobodyWaitsInACircle == Spec => []NoCircularWait
<1>1. IInv => NoCircularWait
  BY NoCircle DEF IInv
<1> QED BY IInvHolds, <1>1, PTL

-----------------------------------------------------------------------------
(* The quota.                                                               *)

\* Only an assignment makes a count grow, and only the count of a lecturer whose
\* lock the session has had since it saw a place left.
LEMMA QuotaStep ==
  ASSUME IInv, [Next]_vars, ~UNCHANGED <<status, assignments>>, NEW l \in Lecturers,
         activeCount(l)' > activeCount(l)
  PROVE  activeCount(l)' <= profile[l].quota
<1>1. PICK s \in Sessions :
        \/ \E r \in Requests : InsertSupervisorRequest(s, r)
        \/ updateSupervisorStatus(s)
        \/ CommitAssignment(s)
        \/ CommitRejection(s)
        \/ CommitAcceptance(s)
  BY WritingSteps
<1>2. ASSUME NoCountGrows PROVE FALSE
  <2>1. activeCount(l) \in Nat /\ activeCount(l)' \in Nat /\ activeCount(l)' <= activeCount(l)
    BY <1>2 DEF NoCountGrows
  <2> QED BY <2>1
<1>3. CASE CommitAssignment(s)
  <2>1. /\ activeCount(l) \in Nat /\ activeCount(l)' \in Nat
        /\ l # call[s].lecturer => activeCount(l)' <= activeCount(l)
        /\ activeCount(l)' <= activeCount(l) + 1
    BY <1>3, AssignmentCounts
  <2>2. l = call[s].lecturer
    BY <2>1
  <2>3. activeCount(l) < profile[l].quota
    BY <1>3, <2>2, AssignmentFacts
  <2>4. profile[l].quota \in Nat
    BY SupervisorAssumption DEF IInv, TypeOK
  <2> QED BY <2>1, <2>3, <2>4
<1> QED BY <1>1, <1>2, <1>3, InsertStep, StatusStep, RejectionStep, AcceptanceStep

\* However many heads of program assign at once, to whatever quotas, a lecturer
\* never gets a supervision more than the quota she has when she gets it.
THEOREM QuotaKept == Spec => NoOverAssignment
<1>1. IInv /\ [Next]_vars =>
        [~UNCHANGED <<status, assignments>> =>
           \A l \in Lecturers :
             activeCount(l)' > activeCount(l) => activeCount(l)' <= profile[l].quota]_vars
  BY QuotaStep
<1> QED BY IInvHolds, <1>1, PTL DEF Spec, NoOverAssignment

-----------------------------------------------------------------------------
(* The lifecycle.                                                           *)

LEMMA LifecycleStep == IInv /\ [Next]_vars => [Lifecycle!Next]_status
<1> SUFFICES ASSUME IInv, [Next]_vars, status' # status
             PROVE  Lifecycle!Next
  OBVIOUS
<1>1. PICK s \in Sessions :
        \/ \E r \in Requests : InsertSupervisorRequest(s, r)
        \/ updateSupervisorStatus(s)
        \/ CommitAssignment(s)
        \/ CommitRejection(s)
        \/ CommitAcceptance(s)
  BY WritingSteps
<1>2. CASE \E r \in Requests : InsertSupervisorRequest(s, r)
  BY <1>2 DEF InsertSupervisorRequest, Write, Exists, Lifecycle!Next, Lifecycle!Birth
<1>3. ASSUME NEW r \in Requests, NEW to, status[r] \in DOMAIN VisibleTransitions,
             to \in VisibleTransitions[status[r]], status' = [status EXCEPT ![r] = to]
      PROVE  Lifecycle!Next
  BY <1>3 DEF Lifecycle!Next, Lifecycle!Move
<1>4. /\ DOMAIN VisibleTransitions = SupervisorStatus
      /\ VisibleTransitions["ASSIGNED"] = {"COMPLETED", "REJECTED"}
      /\ \A from \in SupervisorStatus \ {"ASSIGNED"} :
           VisibleTransitions[from] = SupervisorTransitions[from]
      /\ "ASSIGNED" \in SupervisorTransitions["VERIFIED"]
      /\ "ASSIGNED" \in SupervisorTransitions["REJECTED"]
  BY DEF VisibleTransitions, SupervisorTransitions, SupervisorStatus
<1>5. CASE updateSupervisorStatus(s)
  <2>1. /\ call[s].request \in Requests
        /\ status[call[s].request] \in {"SUBMITTED", "REVISION_REQUIRED"}
        /\ call[s].target \in SupervisorTransitions[status[call[s].request]]
        /\ status' = [status EXCEPT ![call[s].request] = call[s].target]
    BY <1>5, StatusFacts
  <2>2. status[call[s].request] \in SupervisorStatus \ {"ASSIGNED"}
    BY <2>1 DEF SupervisorStatus
  <2> QED BY <1>3, <1>4, <2>1, <2>2
<1>6. CASE CommitAssignment(s)
  <2>1. call[s].request \in Requests /\ status[call[s].request] \in {"VERIFIED", "REJECTED"}
    BY <1>6, AssignmentFacts
  <2>2. status' = [status EXCEPT ![call[s].request] = "ASSIGNED"]
    BY <1>6 DEF CommitAssignment, Write
  <2>3. status[call[s].request] \in SupervisorStatus \ {"ASSIGNED"}
    BY <2>1 DEF SupervisorStatus
  <2> QED BY <1>3, <1>4, <2>1, <2>2, <2>3
<1>7. ASSUME NEW answer \in {"ACCEPTED", "REJECTED"},
             call[s].op = "respond", call[s].held = {"request", "lecturer"},
             Answer(call[s].request, call[s].lecturer, answer)
      PROVE  /\ call[s].request \in Requests /\ status[call[s].request] = "ASSIGNED"
             /\ "ASSIGNED" \in DOMAIN VisibleTransitions
  BY <1>4, <1>7, AnswerFacts DEF SupervisorStatus
<1>8. CASE CommitRejection(s)
  <2>1. /\ call[s].op = "respond" /\ call[s].held = {"request", "lecturer"}
        /\ Answer(call[s].request, call[s].lecturer, "REJECTED")
        /\ status' = [status EXCEPT ![call[s].request] = "REJECTED"]
    BY <1>8 DEF CommitRejection, Write
  <2> QED BY <1>3, <1>4, <1>7, <2>1
<1>9. CASE CommitAcceptance(s)
  <2>1. /\ call[s].op = "respond" /\ call[s].held = {"request", "lecturer"}
        /\ Answer(call[s].request, call[s].lecturer, "ACCEPTED")
        /\ status' = [status EXCEPT ![call[s].request] = "COMPLETED"]
    BY <1>9 DEF CommitAcceptance, Write
  <2> QED BY <1>3, <1>4, <1>7, <2>1
<1> QED BY <1>1, <1>2, <1>5, <1>6, <1>8, <1>9

\* Through any interleaving of the handlers and their rollbacks a request is born
\* SUBMITTED and moves along the table, acceptance and completion in one move,
\* and never leaves COMPLETED or CANCELLED.
THEOREM SupervisionFollowsLifecycle == Spec => FollowsLifecycle
<1>1. Init => Lifecycle!Init
  BY DEF Init, Lifecycle!Init
<1> QED BY IInvHolds, LifecycleStep, <1>1, PTL DEF Spec, FollowsLifecycle, Lifecycle!Spec

-----------------------------------------------------------------------------
(* The trail a request leaves: its history and its events.                  *)

EventName == [
  SUBMITTED         |-> "supervisor_request.created",
  VERIFIED          |-> "supervisor_request.verified",
  REVISION_REQUIRED |-> "supervisor_request.revision_required",
  CANCELLED         |-> "supervisor_request.cancelled",
  ACCEPTED          |-> "supervisor_request.accepted",
  REJECTED          |-> "supervisor_request.rejected",
  COMPLETED         |-> "supervisor_request.completed"]

\* A second assignment is announced as such.
NameOf(old, new) ==
  IF new # "ASSIGNED" THEN EventName[new]
  ELSE IF old = "VERIFIED" THEN "supervisor_request.assigned"
  ELSE "supervisor_request.reassigned"

\* An unbroken walk along the table, from the creation to the present status.
PathOf(h, st) ==
  /\ h # <<>> /\ h[1].old = Null /\ h[1].new = "SUBMITTED" /\ Last(h).new = st
  /\ \A i \in 2 .. Len(h) :
       /\ h[i].old = h[i - 1].new
       /\ CanTransition(SupervisorTransitions, h[i].old, h[i].new)

\* Every row has its event.
Tells(e, row) == e.status = row.new /\ e.at = row.at /\ e.type = NameOf(row.old, row.new)
Told(o, h)    == Len(o) = Len(h) /\ \A i \in 1 .. Len(h) : Tells(o[i], h[i])

TrailOf(h, o, st) ==
  IF st = "NONE" THEN h = <<>> /\ o = <<>> ELSE PathOf(h, st) /\ Told(o, h)

\* The last event names the lecturer of the last assignment, if there is one.
Decided == {"ASSIGNED", "REJECTED", "COMPLETED"}
NamesLecturer(r) ==
  Last(outbox[r]).lecturer = IF status[r] \in Decided THEN Last(assignments[r]).lecturer
                             ELSE Null

Trail ==
  \A r \in Requests :
    /\ TrailOf(history[r], outbox[r], status[r])
    /\ Exists(r) => NamesLecturer(r)

\* A call announces what it is going to write.
CallsAnnounce ==
  \A s \in Sessions :
    /\ call[s].op \in {"status", "respond"} => call[s].type = EventName[call[s].target]
    /\ call[s].op = "assign" => call[s].type = NameOf(call[s].from, "ASSIGNED")

LEMMA TrailBegins ==
  ASSUME NEW row \in HistoryRow, row.old = Null, row.new = "SUBMITTED",
         NEW e \in OutboxRow, Tells(e, row)
  PROVE  TrailOf(<<row>>, <<e>>, "SUBMITTED")
BY DEF TrailOf, PathOf, Told, Last

LEMMA PathGrows ==
  ASSUME NEW h \in Seq(HistoryRow), NEW st, PathOf(h, st), NEW row \in HistoryRow,
         row.old = st, CanTransition(SupervisorTransitions, st, row.new)
  PROVE  PathOf(Append(h, row), row.new)
<1> DEFINE n == Len(h)
           g == Append(h, row)
<1>1. /\ g \in Seq(HistoryRow) /\ n \in Nat /\ Len(g) = n + 1
      /\ g[n + 1] = row /\ \A i \in 1 .. n : g[i] = h[i]
  BY AppendProperties
<1>2. /\ h # <<>> /\ h[1].old = Null /\ h[1].new = "SUBMITTED" /\ h[n].new = st
      /\ \A i \in 2 .. n : /\ h[i].old = h[i - 1].new
                           /\ CanTransition(SupervisorTransitions, h[i].old, h[i].new)
  BY DEF PathOf, Last
<1>3. n > 0
  BY <1>2
<1> HIDE DEF g, n
<1>4. g # <<>> /\ g[1] = h[1] /\ Last(g) = row
  BY <1>1, <1>3 DEF Last
<1>5. ASSUME NEW i \in 2 .. n + 1
      PROVE  g[i].old = g[i - 1].new /\ CanTransition(SupervisorTransitions, g[i].old, g[i].new)
  <2>1. CASE i = n + 1
    <3>1. g[i] = row /\ i - 1 = n /\ g[n] = h[n]
      BY <1>1, <1>3, <2>1
    <3> QED BY <3>1, <1>2
  <2>2. CASE i # n + 1
    <3>1. i \in 2 .. n /\ i - 1 \in 1 .. n /\ i \in 1 .. n
      BY <1>1, <2>2
    <3> QED BY <3>1, <1>1, <1>2
  <2> QED BY <2>1, <2>2
<1>6. PathOf(g, row.new)
  BY <1>1, <1>2, <1>4, <1>5 DEF PathOf
<1> QED BY <1>6 DEF g

LEMMA ToldGrows ==
  ASSUME NEW h \in Seq(HistoryRow), NEW o \in Seq(OutboxRow), Told(o, h),
         NEW row \in HistoryRow, NEW e \in OutboxRow, Tells(e, row)
  PROVE  Told(Append(o, e), Append(h, row))
<1> DEFINE n == Len(h)
           g == Append(h, row)
           p == Append(o, e)
<1>1. /\ n \in Nat /\ Len(g) = n + 1 /\ g[n + 1] = row /\ \A i \in 1 .. n : g[i] = h[i]
  BY AppendProperties
<1>2. Len(o) = n
  BY DEF Told
<1>3. /\ Len(p) = Len(o) + 1 /\ p[Len(o) + 1] = e /\ \A i \in 1 .. Len(o) : p[i] = o[i]
  BY AppendProperties
<1>4. \A i \in 1 .. n : Tells(o[i], h[i])
  BY DEF Told
<1> HIDE DEF n, g, p
<1>5. ASSUME NEW i \in 1 .. n + 1 PROVE Tells(p[i], g[i])
  <2>1. CASE i = n + 1
    BY <1>1, <1>2, <1>3, <2>1
  <2>2. CASE i # n + 1
    <3>1. i \in 1 .. n
      BY <1>1, <2>2
    <3> QED BY <3>1, <1>1, <1>2, <1>3, <1>4
  <2> QED BY <2>1, <2>2
<1>6. Told(p, g)
  BY <1>1, <1>2, <1>3, <1>5 DEF Told
<1> QED BY <1>6 DEF p, g

LEMMA TrailGrows ==
  ASSUME NEW h \in Seq(HistoryRow), NEW o \in Seq(OutboxRow), NEW st, st # "NONE",
         TrailOf(h, o, st), NEW row \in HistoryRow, NEW e \in OutboxRow, Tells(e, row),
         row.old = st, CanTransition(SupervisorTransitions, st, row.new)
  PROVE  /\ TrailOf(Append(h, row), Append(o, e), row.new)
         /\ Append(h, row) \in Seq(HistoryRow) /\ Append(o, e) \in Seq(OutboxRow)
         /\ Last(Append(o, e)) = e
<1>1. PathOf(h, st) /\ Told(o, h)
  BY DEF TrailOf
<1>2. PathOf(Append(h, row), row.new) /\ Told(Append(o, e), Append(h, row))
  BY <1>1, PathGrows, ToldGrows
<1>3. row.new # "NONE"
  BY DEF HistoryRow, SupervisorStatus
<1>4. /\ Append(h, row) \in Seq(HistoryRow) /\ Append(o, e) \in Seq(OutboxRow)
      /\ Len(Append(o, e)) = Len(o) + 1 /\ Append(o, e)[Len(o) + 1] = e
  BY AppendProperties
<1> QED BY <1>2, <1>3, <1>4 DEF TrailOf, Last

\* One row more, or two in one transaction.
LEMMA JoinOne ==
  ASSUME NEW S, NEW s \in Seq(S), NEW x \in S
  PROVE  s \o <<x>> = Append(s, x)
BY AppendIsConcat

LEMMA JoinTwo ==
  ASSUME NEW S, NEW s \in Seq(S), NEW x \in S, NEW y \in S
  PROVE  s \o <<x, y>> = Append(Append(s, x), y)
<1>1. <<x>> \in Seq(S) /\ <<y>> \in Seq(S) /\ <<x, y>> = Append(<<x>>, y)
  OBVIOUS
<1>2. <<x, y>> = <<x>> \o <<y>>
  BY <1>1, AppendIsConcat
<1>3. Append(s, x) \in Seq(S) /\ Append(s, x) = s \o <<x>>
  BY AppendIsConcat, AppendProperties
<1>4. Append(Append(s, x), y) = (s \o <<x>>) \o <<y>>
  BY <1>3, AppendIsConcat
<1> QED BY <1>1, <1>2, <1>4, ConcatAssociative

\* What a write does to the trail of the request written, and to the others.
LEMMA OneRowWritten ==
  ASSUME TypeOK, Trail, NEW r \in Requests, Exists(r),
         NEW new \in SupervisorStatus, NEW row \in HistoryRow, NEW e \in OutboxRow,
         Tells(e, row), row.old = status[r], row.new = new,
         CanTransition(SupervisorTransitions, status[r], new),
         Write(r, new, <<row>>, <<e>>)
  PROVE  /\ TrailOf(history'[r], outbox'[r], status'[r]) /\ Last(outbox'[r]) = e
         /\ status'[r] = new
<1>1. history[r] \in Seq(HistoryRow) /\ outbox[r] \in Seq(OutboxRow)
  BY DEF TypeOK
<1>2. /\ history'[r] = history[r] \o <<row>> /\ outbox'[r] = outbox[r] \o <<e>>
      /\ status'[r] = new
  BY DEF Write, TypeOK
<1>3. history'[r] = Append(history[r], row) /\ outbox'[r] = Append(outbox[r], e)
  BY <1>1, <1>2, JoinOne
<1>4. TrailOf(history[r], outbox[r], status[r]) /\ status[r] # "NONE"
  BY DEF Trail, Exists
<1> DEFINE h  == history[r]
           o  == outbox[r]
           st == status[r]
<1>5. /\ h \in Seq(HistoryRow) /\ o \in Seq(OutboxRow) /\ st # "NONE" /\ TrailOf(h, o, st)
      /\ row.old = st /\ CanTransition(SupervisorTransitions, st, row.new)
  BY <1>1, <1>4
<1> HIDE DEF h, o, st
<1>6. TrailOf(Append(h, row), Append(o, e), row.new) /\ Last(Append(o, e)) = e
  BY <1>5, TrailGrows
<1> QED BY <1>2, <1>3, <1>6 DEF h, o

LEMMA TwoRowsWritten ==
  ASSUME TypeOK, Trail, NEW r \in Requests, Exists(r), NEW mid \in SupervisorStatus,
         NEW new \in SupervisorStatus,
         NEW row \in HistoryRow, NEW e \in OutboxRow, Tells(e, row),
         NEW row2 \in HistoryRow, NEW e2 \in OutboxRow, Tells(e2, row2),
         row.old = status[r], row.new = mid, row2.old = mid, row2.new = new,
         CanTransition(SupervisorTransitions, status[r], mid),
         CanTransition(SupervisorTransitions, mid, new),
         Write(r, new, <<row, row2>>, <<e, e2>>)
  PROVE  /\ TrailOf(history'[r], outbox'[r], status'[r]) /\ Last(outbox'[r]) = e2
         /\ status'[r] = new
<1>1. history[r] \in Seq(HistoryRow) /\ outbox[r] \in Seq(OutboxRow)
  BY DEF TypeOK
<1>2. /\ history'[r] = history[r] \o <<row, row2>> /\ outbox'[r] = outbox[r] \o <<e, e2>>
      /\ status'[r] = new
  BY DEF Write, TypeOK
<1>3. /\ history'[r] = Append(Append(history[r], row), row2)
      /\ outbox'[r] = Append(Append(outbox[r], e), e2)
  <2>1. history[r] \o <<row, row2>> = Append(Append(history[r], row), row2)
    BY <1>1, JoinTwo
  <2>2. outbox[r] \o <<e, e2>> = Append(Append(outbox[r], e), e2)
    BY <1>1, JoinTwo
  <2> QED BY <1>2, <2>1, <2>2
<1>4. TrailOf(history[r], outbox[r], status[r]) /\ status[r] # "NONE"
  BY DEF Trail, Exists
<1> DEFINE h == Append(history[r], row)
           o == Append(outbox[r], e)
<1>5. TrailOf(h, o, mid) /\ h \in Seq(HistoryRow) /\ o \in Seq(OutboxRow)
  <2> DEFINE h0 == history[r]
             o0 == outbox[r]
             st == status[r]
  <2>1. /\ h0 \in Seq(HistoryRow) /\ o0 \in Seq(OutboxRow) /\ st # "NONE" /\ TrailOf(h0, o0, st)
        /\ row.old = st /\ CanTransition(SupervisorTransitions, st, row.new)
    BY <1>1, <1>4
  <2> HIDE DEF h0, o0, st
  <2>2. /\ TrailOf(Append(h0, row), Append(o0, e), row.new)
        /\ Append(h0, row) \in Seq(HistoryRow) /\ Append(o0, e) \in Seq(OutboxRow)
    BY <2>1, TrailGrows
  <2>3. TrailOf(Append(h0, row), Append(o0, e), mid)
    BY <2>2
  <2> QED BY <2>2, <2>3 DEF h0, o0
<1>6. mid # "NONE"
  BY DEF SupervisorStatus
<1> HIDE DEF h, o
<1>7. TrailOf(Append(h, row2), Append(o, e2), new) /\ Last(Append(o, e2)) = e2
  BY <1>5, <1>6, TrailGrows
<1> QED BY <1>2, <1>3, <1>7 DEF h, o

LEMMA FirstRowWritten ==
  ASSUME TypeOK, Trail, NEW r \in Requests, ~Exists(r),
         NEW row \in HistoryRow, NEW e \in OutboxRow, Tells(e, row),
         row.old = Null, row.new = "SUBMITTED",
         Write(r, "SUBMITTED", <<row>>, <<e>>)
  PROVE  /\ TrailOf(history'[r], outbox'[r], status'[r]) /\ Last(outbox'[r]) = e
         /\ status'[r] = "SUBMITTED"
<1>1. history[r] = <<>> /\ outbox[r] = <<>>
  BY DEF Trail, TrailOf, Exists
<1>2. history'[r] = <<>> \o <<row>> /\ outbox'[r] = <<>> \o <<e>> /\ status'[r] = "SUBMITTED"
  BY <1>1 DEF Write, TypeOK
<1>3. <<row>> \in Seq(HistoryRow) /\ <<e>> \in Seq(OutboxRow)
  OBVIOUS
<1>4. history'[r] = <<row>> /\ outbox'[r] = <<e>>
  BY <1>2, <1>3, ConcatEmptySeq
<1> QED BY <1>2, <1>4, TrailBegins DEF Last

LEMMA TrailElsewhere ==
  ASSUME TypeOK, Trail, NEW r \in Requests, NEW new, NEW rows, NEW events,
         Write(r, new, rows, events),
         \A q \in Requests \ {r} : assignments'[q] = assignments[q],
         TrailOf(history'[r], outbox'[r], status'[r]),
         Last(outbox'[r]).lecturer = IF status'[r] \in Decided THEN Last(assignments'[r]).lecturer
                                     ELSE Null
  PROVE  Trail'
<1>1. \A q \in Requests \ {r} :
        status'[q] = status[q] /\ history'[q] = history[q] /\ outbox'[q] = outbox[q]
  BY DEF Write, TypeOK
<1>2. ASSUME NEW q \in Requests
      PROVE  TrailOf(history[q], outbox[q], status[q])' /\ (Exists(q)' => NamesLecturer(q)')
  <2>1. CASE q = r
    BY <2>1 DEF NamesLecturer
  <2>2. CASE q # r
    <3>1. /\ status'[q] = status[q] /\ history'[q] = history[q] /\ outbox'[q] = outbox[q]
          /\ assignments'[q] = assignments[q]
      BY <1>1, <2>2
    <3>2. TrailOf(history[q], outbox[q], status[q]) /\ (Exists(q) => NamesLecturer(q))
      BY DEF Trail
    <3> QED BY <3>1, <3>2 DEF Exists, NamesLecturer, Last
  <2> QED BY <2>1, <2>2
<1> QED BY <1>2 DEF Trail

LEMMA InsertTrail ==
  ASSUME IInv, Trail, NEW s \in Sessions, NEW r \in Requests, InsertSupervisorRequest(s, r)
  PROVE  Trail'
<1> DEFINE row == Row(Null, "SUBMITTED", call[s].at)
           e   == Event("supervisor_request.created", "SUBMITTED", Null, call[s].at)
<1>1. /\ call[s].op = "create" /\ ~Exists(r) /\ assignments' = assignments
      /\ Write(r, "SUBMITTED", <<row>>, <<e>>)
  BY DEF InsertSupervisorRequest
<1>2. call[s].at \in Time
  BY <1>1, CallKinds DEF IInv, TypeOK
<1>3. row \in HistoryRow /\ e \in OutboxRow
  BY <1>2, RowTypes DEF SupervisorStatus, EventType
<1>4. row.old = Null /\ row.new = "SUBMITTED" /\ Tells(e, row) /\ e.lecturer = Null
  BY DEF Row, Event, Tells, NameOf, EventName
<1> HIDE DEF row, e
<1>5. /\ TrailOf(history'[r], outbox'[r], status'[r]) /\ Last(outbox'[r]) = e
      /\ status'[r] = "SUBMITTED" /\ TypeOK
  BY <1>1, <1>3, <1>4, FirstRowWritten DEF IInv
<1>6. Last(outbox'[r]).lecturer = IF status'[r] \in Decided THEN Last(assignments'[r]).lecturer
                                  ELSE Null
  BY <1>4, <1>5 DEF Decided
<1> QED BY <1>1, <1>5, <1>6, TrailElsewhere

LEMMA StatusTrail ==
  ASSUME IInv, Trail, CallsAnnounce, NEW s \in Sessions, updateSupervisorStatus(s)
  PROVE  Trail'
<1> DEFINE c   == call[s]
           r   == c.request
           row == Row(status[r], c.target, c.at)
           e   == Event(c.type, c.target, Null, c.at)
<1>1. /\ c \in Call /\ c.op = "status" /\ r \in Requests
      /\ status[r] \in {"SUBMITTED", "REVISION_REQUIRED"}
      /\ c.target \in {"VERIFIED", "REVISION_REQUIRED", "CANCELLED"}
      /\ c.target \in SupervisorTransitions[status[r]]
  BY StatusFacts
<1>2. Write(r, c.target, <<row>>, <<e>>) /\ assignments' = assignments
  BY DEF updateSupervisorStatus
<1>3. c.at \in Time /\ c.type \in EventType /\ c.type = EventName[c.target]
  BY <1>1, CallKinds DEF CallsAnnounce
<1>4. /\ status[r] \in SupervisorStatus /\ c.target \in SupervisorStatus /\ Exists(r)
      /\ CanTransition(SupervisorTransitions, status[r], c.target)
  BY <1>1 DEF SupervisorStatus, Exists, CanTransition, SupervisorTransitions
<1>5. row \in HistoryRow /\ e \in OutboxRow
  BY <1>3, <1>4, RowTypes
<1>6. row.old = status[r] /\ row.new = c.target /\ Tells(e, row) /\ e.lecturer = Null
  BY <1>1, <1>3 DEF Row, Event, Tells, NameOf
<1>7. c.target \notin Decided
  BY <1>1 DEF Decided
<1> HIDE DEF row, e, r, c
<1>8. /\ TrailOf(history'[r], outbox'[r], status'[r]) /\ Last(outbox'[r]) = e
      /\ status'[r] = c.target /\ TypeOK
  BY <1>1, <1>2, <1>4, <1>5, <1>6, OneRowWritten DEF IInv
<1>9. Last(outbox'[r]).lecturer = IF status'[r] \in Decided THEN Last(assignments'[r]).lecturer
                                  ELSE Null
  BY <1>6, <1>7, <1>8
<1> QED BY <1>1, <1>2, <1>8, <1>9, TrailElsewhere

LEMMA AssignmentTrail ==
  ASSUME IInv, Trail, CallsAnnounce, NEW s \in Sessions, CommitAssignment(s)
  PROVE  Trail'
<1> DEFINE c   == call[s]
           r   == c.request
           row == Row(status[r], "ASSIGNED", c.at)
           e   == Event(c.type, "ASSIGNED", c.lecturer, c.at)
           n   == Len(assignments[r])
<1>1. /\ c \in Call /\ c.op = "assign" /\ r \in Requests /\ c.lecturer \in Lecturers
      /\ status[r] \in {"VERIFIED", "REJECTED"}
      /\ c.held = {"request", "lecturer"}
      /\ Len(assignments'[r]) = n + 1 /\ assignments'[r][n + 1].lecturer = c.lecturer
      /\ \A q \in Requests \ {r} : assignments'[q] = assignments[q]
  BY AssignmentFacts
<1>2. Write(r, "ASSIGNED", <<row>>, <<e>>)
  BY DEF CommitAssignment
<1>3. c.at \in Time /\ c.type \in EventType /\ c.type = NameOf(c.from, "ASSIGNED")
  BY <1>1, CallKinds DEF CallsAnnounce
<1>4. status[r] = c.from
  BY <1>1 DEF IInv, ChecksHold, RequestIsReady, TwoLocks
<1>5. /\ status[r] \in SupervisorStatus /\ "ASSIGNED" \in SupervisorStatus /\ Exists(r)
      /\ CanTransition(SupervisorTransitions, status[r], "ASSIGNED")
  BY <1>1 DEF SupervisorStatus, Exists, CanTransition, SupervisorTransitions
<1>6. row \in HistoryRow /\ e \in OutboxRow
  BY <1>1, <1>3, <1>5, RowTypes
<1>7. row.old = status[r] /\ row.new = "ASSIGNED" /\ Tells(e, row) /\ e.lecturer = c.lecturer
  BY <1>3, <1>4 DEF Row, Event, Tells
<1>8. Last(assignments'[r]).lecturer = c.lecturer
  BY <1>1 DEF Last
<1> HIDE DEF row, e, r, c, n
<1>9. /\ TrailOf(history'[r], outbox'[r], status'[r]) /\ Last(outbox'[r]) = e
      /\ status'[r] = "ASSIGNED" /\ TypeOK
  BY <1>1, <1>2, <1>5, <1>6, <1>7, OneRowWritten DEF IInv
<1>10. Last(outbox'[r]).lecturer = IF status'[r] \in Decided THEN Last(assignments'[r]).lecturer
                                  ELSE Null
  BY <1>7, <1>8, <1>9 DEF Decided
<1> QED BY <1>1, <1>2, <1>9, <1>10, TrailElsewhere

\* What both answers have in common.
LEMMA AnswerTrailFacts ==
  ASSUME IInv, CallsAnnounce, NEW s \in Sessions, call[s].op = "respond",
         call[s].held = {"request", "lecturer"}, NEW answer \in {"ACCEPTED", "REJECTED"},
         call[s].target = answer, Answer(call[s].request, call[s].lecturer, answer)
  PROVE  LET c == call[s]
             r == c.request
         IN  /\ r \in Requests /\ c.lecturer \in Lecturers /\ status[r] = "ASSIGNED"
             /\ c.at \in Time /\ c.type \in EventType /\ c.type = EventName[answer]
             /\ Last(assignments'[r]).lecturer = c.lecturer
             /\ \A q \in Requests \ {r} : assignments'[q] = assignments[q]
<1>1. /\ call[s] \in Call /\ call[s].request \in Requests /\ call[s].lecturer \in Lecturers
      /\ status[call[s].request] = "ASSIGNED"
      /\ Last(assignments'[call[s].request]).lecturer = call[s].lecturer
      /\ \A q \in Requests \ {call[s].request} : assignments'[q] = assignments[q]
  BY AnswerFacts DEF Last
<1>2. call[s].at \in Time /\ call[s].type \in EventType
  BY <1>1, CallKinds
<1>3. call[s].type = EventName[answer]
  BY DEF CallsAnnounce
<1> QED BY <1>1, <1>2, <1>3

LEMMA RejectionTrail ==
  ASSUME IInv, Trail, CallsAnnounce, NEW s \in Sessions, CommitRejection(s)
  PROVE  Trail'
<1> DEFINE c   == call[s]
           r   == c.request
           row == Row(status[r], "REJECTED", c.at)
           e   == Event(c.type, "REJECTED", c.lecturer, c.at)
<1>1. /\ Write(r, "REJECTED", <<row>>, <<e>>)
      /\ c.op = "respond" /\ c.held = {"request", "lecturer"} /\ c.target = "REJECTED"
      /\ Answer(r, c.lecturer, "REJECTED")
  BY DEF CommitRejection
<1>2. /\ r \in Requests /\ c.lecturer \in Lecturers /\ status[r] = "ASSIGNED"
      /\ c.at \in Time /\ c.type \in EventType /\ c.type = EventName["REJECTED"]
      /\ Last(assignments'[r]).lecturer = c.lecturer
      /\ \A q \in Requests \ {r} : assignments'[q] = assignments[q]
  BY <1>1, AnswerTrailFacts
<1>3. /\ status[r] \in SupervisorStatus /\ "REJECTED" \in SupervisorStatus /\ Exists(r)
      /\ CanTransition(SupervisorTransitions, status[r], "REJECTED")
  BY <1>2 DEF SupervisorStatus, Exists, CanTransition, SupervisorTransitions
<1>4. row \in HistoryRow /\ e \in OutboxRow
  BY <1>2, <1>3, RowTypes
<1>5. row.old = status[r] /\ row.new = "REJECTED" /\ Tells(e, row) /\ e.lecturer = c.lecturer
  BY <1>2 DEF Row, Event, Tells, NameOf
<1> HIDE DEF row, e, r, c
<1>6. /\ TrailOf(history'[r], outbox'[r], status'[r]) /\ Last(outbox'[r]) = e
      /\ status'[r] = "REJECTED" /\ TypeOK
  BY <1>1, <1>2, <1>3, <1>4, <1>5, OneRowWritten DEF IInv
<1>7. Last(outbox'[r]).lecturer = IF status'[r] \in Decided THEN Last(assignments'[r]).lecturer
                                  ELSE Null
  BY <1>2, <1>5, <1>6 DEF Decided
<1> QED BY <1>1, <1>2, <1>6, <1>7, TrailElsewhere

LEMMA AcceptanceTrail ==
  ASSUME IInv, Trail, CallsAnnounce, NEW s \in Sessions, CommitAcceptance(s)
  PROVE  Trail'
<1> DEFINE c    == call[s]
           r    == c.request
           row  == Row(status[r], "ACCEPTED", c.at)
           row2 == Row("ACCEPTED", "COMPLETED", c.at)
           e    == Event(c.type, "ACCEPTED", c.lecturer, c.at)
           e2   == Event("supervisor_request.completed", "COMPLETED", c.lecturer, c.at)
<1>1. /\ Write(r, "COMPLETED", <<row, row2>>, <<e, e2>>)
      /\ c.op = "respond" /\ c.held = {"request", "lecturer"} /\ c.target = "ACCEPTED"
      /\ Answer(r, c.lecturer, "ACCEPTED")
  BY DEF CommitAcceptance
<1>2. /\ r \in Requests /\ c.lecturer \in Lecturers /\ status[r] = "ASSIGNED"
      /\ c.at \in Time /\ c.type \in EventType /\ c.type = EventName["ACCEPTED"]
      /\ Last(assignments'[r]).lecturer = c.lecturer
      /\ \A q \in Requests \ {r} : assignments'[q] = assignments[q]
  BY <1>1, AnswerTrailFacts
<1>3. /\ status[r] \in SupervisorStatus /\ Exists(r)
      /\ "ACCEPTED" \in SupervisorStatus /\ "COMPLETED" \in SupervisorStatus
      /\ CanTransition(SupervisorTransitions, status[r], "ACCEPTED")
      /\ CanTransition(SupervisorTransitions, "ACCEPTED", "COMPLETED")
  BY <1>2 DEF SupervisorStatus, Exists, CanTransition, SupervisorTransitions
<1>4. row \in HistoryRow /\ e \in OutboxRow /\ row2 \in HistoryRow /\ e2 \in OutboxRow
  BY <1>2, <1>3, RowTypes DEF EventType
<1>5. /\ row.old = status[r] /\ row.new = "ACCEPTED" /\ Tells(e, row)
      /\ row2.old = "ACCEPTED" /\ row2.new = "COMPLETED" /\ Tells(e2, row2)
      /\ e2.lecturer = c.lecturer
  BY <1>2 DEF Row, Event, Tells, NameOf, EventName
<1> HIDE DEF row, row2, e, e2, r, c
<1>6. /\ TrailOf(history'[r], outbox'[r], status'[r]) /\ Last(outbox'[r]) = e2
      /\ status'[r] = "COMPLETED" /\ TypeOK
  BY <1>1, <1>2, <1>3, <1>4, <1>5, TwoRowsWritten DEF IInv
<1>7. Last(outbox'[r]).lecturer = IF status'[r] \in Decided THEN Last(assignments'[r]).lecturer
                                  ELSE Null
  BY <1>2, <1>5, <1>6 DEF Decided
<1> QED BY <1>1, <1>2, <1>6, <1>7, TrailElsewhere

\* Announcements are part of what a handler begins with, and stay with the call.
Announces(c) ==
  /\ c.op \in {"status", "respond"} => c.type = EventName[c.target]
  /\ c.op = "assign" => c.type = NameOf(c.from, "ASSIGNED")

LEMMA AnnounceStep ==
  ASSUME TypeOK, CallsAnnounce, NEW s \in Sessions, NEW c, Announces(c),
         call' = [call EXCEPT ![s] = c]
  PROVE  CallsAnnounce'
BY DEF TypeOK, CallsAnnounce, Announces

LEMMA NextAnnounces ==
  ASSUME IInv, CallsAnnounce, [Next]_vars
  PROVE  CallsAnnounce'
<1>0. TypeOK
  BY DEF IInv
<1>1. CASE UNCHANGED call
  BY <1>1 DEF CallsAnnounce
<1>2. ASSUME NEW s \in Sessions, NEW c, Announces(c), Begin(s, c) PROVE CallsAnnounce'
  BY <1>0, <1>2, AnnounceStep DEF Begin
<1>3. ASSUME NEW s \in Sessions, Return(s) PROVE CallsAnnounce'
  <2>1. Announces(Idle) /\ call' = [call EXCEPT ![s] = Idle]
    BY <1>3, IdleIsACall DEF Announces, Return
  <2> HIDE DEF Idle
  <2> QED BY <1>0, <2>1, AnnounceStep
<1>4. ASSUME NEW s \in Sessions,
             \/ \E r \in Requests : InsertSupervisorRequest(s, r)
             \/ updateSupervisorStatus(s) \/ CommitAssignment(s) \/ CommitRejection(s)
             \/ InitializeProgress(s) \/ Rollback(s)
      PROVE  CallsAnnounce'
  BY <1>3, <1>4 DEF InsertSupervisorRequest, updateSupervisorStatus, CommitAssignment,
     CommitRejection, InitializeProgress, Rollback
<1>5. ASSUME NEW s \in Sessions, CommitAcceptance(s) PROVE CallsAnnounce'
  <2> DEFINE c == [op |-> "progress", request |-> call[s].request]
  <2>1. Announces(c) /\ call' = [call EXCEPT ![s] = c]
    BY <1>5 DEF Announces, CommitAcceptance
  <2> HIDE DEF c
  <2> QED BY <1>0, <2>1, AnnounceStep
<1>6. ASSUME NEW s \in Sessions, NEW l \in Lecturers, InsertChoice(s, l) PROVE CallsAnnounce'
  BY <1>0, <1>6 DEF InsertChoice, TypeOK, CallsAnnounce
<1>7. ASSUME NEW s \in Sessions, LockAndCheck(s) PROVE CallsAnnounce'
  BY <1>0, <1>7 DEF LockAndCheck, TypeOK, CallsAnnounce
<1>8. ASSUME NEW s \in Sessions, NEW u \in Students, NEW choices \in SUBSET Lecturers,
             CreateSupervisorRequest(s, u, choices)
      PROVE  CallsAnnounce'
  BY <1>2, <1>8 DEF CreateSupervisorRequest, Announces
<1>9. ASSUME NEW s \in Sessions, NEW r \in Requests,
             \/ VerifySupervisorRequest(s, r)
             \/ RequestRevisionSupervisorRequest(s, r)
             \/ CompleteSupervisorRequest(s, r)
             \/ CancelSupervisorRequest(s, r)
      PROVE  CallsAnnounce'
  BY <1>2, <1>9 DEF VerifySupervisorRequest, RequestRevisionSupervisorRequest,
     CompleteSupervisorRequest, CancelSupervisorRequest, changeStatus, Announces, EventName
<1>10. ASSUME NEW s \in Sessions, NEW r \in Requests, NEW l \in Lecturers,
              \/ AssignSupervisor(s, r, l)
              \/ ReassignSupervisor(s, r, l)
              \/ AcceptSupervisorRequest(s, r, l)
              \/ RejectSupervisorRequest(s, r, l)
       PROVE  CallsAnnounce'
  BY <1>2, <1>10 DEF AssignSupervisor, ReassignSupervisor, AcceptSupervisorRequest,
     RejectSupervisorRequest, respondSupervisorAssignment, Announces, EventName, NameOf
<1>11. ASSUME NEW l \in Lecturers,
              \/ \E q \in Quotas : UpsertLecturer(l, q)
              \/ \E active \in BOOLEAN : SetLecturerStatus(l, active)
       PROVE  CallsAnnounce'
  BY <1>1, <1>11 DEF UpsertLecturer, SetLecturerStatus
<1> QED BY <1>1, <1>4, <1>5, <1>6, <1>7, <1>8, <1>9, <1>10, <1>11 DEF Next, vars

\* The history is written by the same five commits as the status and the events.
LEMMA HistoryWritten ==
  ASSUME [Next]_vars, UNCHANGED <<status, assignments, outbox>>
  PROVE  UNCHANGED history \/ \E s \in Sessions :
           \/ \E r \in Requests : InsertSupervisorRequest(s, r)
           \/ updateSupervisorStatus(s)
           \/ CommitAssignment(s)
           \/ CommitRejection(s)
           \/ CommitAcceptance(s)
<1>1. ASSUME NEW s \in Sessions, NEW c, Begin(s, c) PROVE UNCHANGED history
  BY <1>1 DEF Begin, requestVars
<1> QED
  BY <1>1 DEF Next, vars, CreateSupervisorRequest, VerifySupervisorRequest,
     RequestRevisionSupervisorRequest, CompleteSupervisorRequest, CancelSupervisorRequest,
     changeStatus, AssignSupervisor, ReassignSupervisor, AcceptSupervisorRequest,
     RejectSupervisorRequest, respondSupervisorAssignment, LockAndCheck, InitializeProgress,
     Rollback, InsertChoice, UpsertLecturer, SetLecturerStatus, requestVars

LEMMA TrailNext ==
  ASSUME IInv, Trail, CallsAnnounce, [Next]_vars
  PROVE  Trail'
<1>1. CASE UNCHANGED <<status, assignments, outbox, history>>
  BY <1>1 DEF Trail, Exists, NamesLecturer, Last
<1>2. CASE \E s \in Sessions :
             \/ \E r \in Requests : InsertSupervisorRequest(s, r)
             \/ updateSupervisorStatus(s)
             \/ CommitAssignment(s)
             \/ CommitRejection(s)
             \/ CommitAcceptance(s)
  BY <1>2, InsertTrail, StatusTrail, AssignmentTrail, RejectionTrail, AcceptanceTrail
<1> QED BY <1>1, <1>2, WritingSteps, HistoryWritten

\* However the handlers race and roll back, the history of a request is one unbroken
\* walk along the table from its creation to its status, an acceptance being two of
\* its steps; the outbox tells it row by row, a second assignment by a name of its
\* own; and the last event names the lecturer of the last assignment.
THEOREM SupervisionTrail == Spec => []Trail
<1>1. Init => Trail /\ CallsAnnounce
  BY IdleIsACall DEF Init, Trail, TrailOf, Exists, CallsAnnounce
<1>2. IInv /\ Trail /\ CallsAnnounce /\ [Next]_vars => Trail' /\ CallsAnnounce'
  BY TrailNext, NextAnnounces
<1> QED BY IInvHolds, <1>1, <1>2, PTL DEF Spec

-----------------------------------------------------------------------------
(* The thesis progress, which is begun after the acceptance has committed.  *)

StartsProgress(s, r) == call[s].op = "progress" /\ call[s].request = r

\* A student's progress rows point to a completed request of the student.
ProgressIsEarned ==
  \A u \in Students : progress[u] # Null =>
    /\ progress[u] \in Requests
    /\ status[progress[u]] = "COMPLETED" /\ student[progress[u]] = u

\* A request is accepted once, so that one session at most begins the progress for
\* it, and none once the progress is there.
StartedOnce ==
  /\ \A s \in Sessions : call[s].op = "progress" => status[call[s].request] = "COMPLETED"
  /\ \A s, t \in Sessions : \A r \in Requests :
       StartsProgress(s, r) /\ StartsProgress(t, r) => s = t
  /\ \A r \in Requests : Exists(r) => student[r] \in Students
  /\ \A u \in Students : \A s \in Sessions :
       progress[u] # Null => ~StartsProgress(s, progress[u])

\* A completed request whose attempt is over and left its student without.
LeftWithout(r) ==
  /\ status[r] = "COMPLETED" /\ \A s \in Sessions : ~StartsProgress(s, r)
  /\ progress[student[r]] # r

\* Steps of one session that leave the progress rows alone.
LEMMA ProgressUntouched ==
  ASSUME TypeOK, ProgressIsEarned, StartedOnce, NEW s \in Sessions, NEW c,
         call' = [call EXCEPT ![s] = c], progress' = progress,
         \A r \in Requests : status[r] = "COMPLETED" => status'[r] = "COMPLETED",
         \A r \in Requests : Exists(r) => student'[r] = student[r],
         \A r \in Requests : Exists(r)' => student'[r] \in Students,
         c.op = "progress" => /\ c.request \in Requests
                              /\ status[c.request] # "COMPLETED"
                              /\ status'[c.request] = "COMPLETED"
  PROVE  /\ ProgressIsEarned' /\ StartedOnce'
         /\ \A r \in Requests : LeftWithout(r) => LeftWithout(r)'
<1>1. call'[s] = c /\ \A t \in Sessions \ {s} : call'[t] = call[t]
  BY DEF TypeOK
<1>2. \A t \in Sessions : call[t].op = "progress" => call[t].request \in Requests
  BY CallKinds DEF TypeOK
<1>3. \A t \in Sessions : \A r \in Requests :
        StartsProgress(t, r)' => \/ t # s /\ StartsProgress(t, r)
                                 \/ t = s /\ status[r] # "COMPLETED"
  BY <1>1 DEF StartsProgress
<1>4. \A t \in Sessions : \A r \in Requests : StartsProgress(t, r) => status[r] = "COMPLETED"
  BY DEF StartedOnce, StartsProgress
<1>5. \A r \in Requests : status[r] = "COMPLETED" => Exists(r)
  BY DEF Exists
<1>6. ProgressIsEarned'
  BY <1>5 DEF ProgressIsEarned
<1>7. ASSUME NEW t \in Sessions, call'[t].op = "progress"
      PROVE  status'[call'[t].request] = "COMPLETED"
  BY <1>1, <1>2, <1>7 DEF StartedOnce
<1>8. ASSUME NEW t \in Sessions, NEW t2 \in Sessions, NEW r \in Requests,
             StartsProgress(t, r)', StartsProgress(t2, r)'
      PROVE  t = t2
  BY <1>3, <1>4, <1>8 DEF StartedOnce
<1>9. ASSUME NEW u \in Students, NEW t \in Sessions, progress'[u] # Null
      PROVE  ~StartsProgress(t, progress[u])'
  <2>1. progress[u] \in Requests /\ status[progress[u]] = "COMPLETED"
    BY <1>9 DEF ProgressIsEarned
  <2>2. ~StartsProgress(t, progress[u])
    BY <1>9 DEF StartedOnce
  <2>3. ASSUME NEW r \in Requests, r = progress[u] PROVE ~StartsProgress(t, r)'
    BY <1>3, <2>1, <2>2, <2>3
  <2>4. progress'[u] = progress[u]
    OBVIOUS
  <2> QED BY <2>1, <2>3, <2>4 DEF StartsProgress
<1>10. StartedOnce'
  BY <1>7, <1>8, <1>9 DEF StartedOnce
<1>11. ASSUME NEW r \in Requests, LeftWithout(r) PROVE LeftWithout(r)'
  BY <1>3, <1>5, <1>11 DEF LeftWithout
<1> QED BY <1>6, <1>10, <1>11

LEMMA ProgressBegun ==
  ASSUME IInv, ProgressIsEarned, StartedOnce, NEW s \in Sessions, InitializeProgress(s)
  PROVE  /\ ProgressIsEarned' /\ StartedOnce'
         /\ \A r \in Requests : LeftWithout(r) => LeftWithout(r)'
<1>1. PICK q : q = call[s].request
  OBVIOUS
<1>2. PICK w : w = student[q]
  OBVIOUS
<1>3. q \in Requests /\ StartsProgress(s, q) /\ status[q] = "COMPLETED"
  BY <1>1, CallKinds DEF InitializeProgress, IInv, TypeOK, StartsProgress, StartedOnce
<1>4. w \in Students /\ student[q] = w
  BY <1>2, <1>3 DEF StartedOnce, Exists
<1>5. /\ progress' = [progress EXCEPT ![w] = q]
      /\ call' = [call EXCEPT ![s] = Idle]
      /\ status' = status /\ student' = student
  BY <1>1, <1>2 DEF InitializeProgress, Return, requestVars
<1>6. /\ progress'[w] = q /\ \A u \in Students \ {w} : progress'[u] = progress[u]
      /\ \A t \in Sessions : \A r \in Requests :
           StartsProgress(t, r)' <=> t # s /\ StartsProgress(t, r)
      /\ \A t \in Sessions \ {s} : call'[t] = call[t]
      /\ call'[s].op = "idle"
  BY <1>4, <1>5, IdleIsACall DEF IInv, TypeOK, StartsProgress
<1>7. ProgressIsEarned'
  BY <1>3, <1>4, <1>5, <1>6 DEF ProgressIsEarned
<1>8. \A t \in Sessions : t # s => ~StartsProgress(t, q)
  BY <1>3 DEF StartedOnce
<1>9. ASSUME NEW u \in Students, NEW t \in Sessions, progress'[u] # Null
      PROVE  ~StartsProgress(t, progress[u])'
  <2>1. CASE u = w
    <3>1. ~StartsProgress(t, q)'
      BY <1>3, <1>6, <1>8
    <3> QED BY <1>6, <2>1, <3>1 DEF StartsProgress
  <2>2. CASE u # w
    <3>1. progress'[u] = progress[u] /\ progress[u] \in Requests
      BY <1>6, <1>9, <2>2 DEF ProgressIsEarned
    <3>2. ~StartsProgress(t, progress[u])
      BY <1>9, <3>1 DEF StartedOnce
    <3>3. ASSUME NEW r \in Requests, r = progress[u] PROVE ~StartsProgress(t, r)'
      BY <1>6, <3>2, <3>3
    <3> QED BY <3>1, <3>3 DEF StartsProgress
  <2> QED BY <2>1, <2>2
<1>10. StartedOnce'
  <2>1. \A t \in Sessions : call'[t].op = "progress" => status'[call'[t].request] = "COMPLETED"
    BY <1>5, <1>6 DEF StartedOnce
  <2>2. \A t, t2 \in Sessions : \A r \in Requests :
          StartsProgress(t, r)' /\ StartsProgress(t2, r)' => t = t2
    BY <1>6 DEF StartedOnce
  <2>3. \A r \in Requests : Exists(r)' => student'[r] \in Students
    BY <1>5 DEF StartedOnce, Exists
  <2> QED BY <1>9, <2>1, <2>2, <2>3 DEF StartedOnce
<1>11. ASSUME NEW r \in Requests, LeftWithout(r) PROVE LeftWithout(r)'
  <2>1. r # q /\ student[r] \in Students
    BY <1>3, <1>11 DEF LeftWithout, StartedOnce, Exists
  <2>2. progress'[student[r]] # r
    BY <1>6, <1>11, <2>1 DEF LeftWithout
  <2> QED BY <1>5, <1>6, <1>11, <2>2 DEF LeftWithout
<1> QED BY <1>7, <1>10, <1>11

LEMMA ProgressNext ==
  ASSUME IInv, ProgressIsEarned, StartedOnce, [Next]_vars
  PROVE  /\ ProgressIsEarned' /\ StartedOnce'
         /\ \A r \in Requests : LeftWithout(r) => LeftWithout(r)'
<1> DEFINE Goal == /\ ProgressIsEarned' /\ StartedOnce'
                   /\ \A r \in Requests : LeftWithout(r) => LeftWithout(r)'
<1>0. TypeOK
  BY DEF IInv
<1>1. ASSUME UNCHANGED <<status, student, progress, call>> PROVE Goal
  <2>1. \A s \in Sessions : \A r : StartsProgress(s, r)' <=> StartsProgress(s, r)
    BY <1>1 DEF StartsProgress
  <2>2. ProgressIsEarned' /\ \A r \in Requests : LeftWithout(r) => LeftWithout(r)'
    BY <1>1, <2>1 DEF ProgressIsEarned, LeftWithout
  <2>3. StartedOnce'
    BY <1>1 DEF StartedOnce, Exists, StartsProgress
  <2> QED BY <2>2, <2>3
\* A step that changes nothing but what one session is at.
<1>2. ASSUME NEW s \in Sessions, NEW c, c.op # "progress",
             call' = [call EXCEPT ![s] = c], UNCHANGED <<status, student, progress>>
      PROVE  Goal
  <2>1. \A r \in Requests : status[r] = "COMPLETED" => status'[r] = "COMPLETED"
    BY <1>2
  <2>2. \A r \in Requests : Exists(r) => student'[r] = student[r]
    BY <1>2
  <2>3. \A r \in Requests : Exists(r)' => student'[r] \in Students
    BY <1>2 DEF StartedOnce, Exists
  <2> QED BY <1>0, <1>2, <2>1, <2>2, <2>3, ProgressUntouched
<1>3. ASSUME NEW s \in Sessions, NEW c, c.op # "progress", Begin(s, c) PROVE Goal
  BY <1>2, <1>3 DEF Begin, requestVars
\* A commit that moves one request which is not completed.
<1>4. ASSUME NEW s \in Sessions, NEW r \in Requests, NEW new, NEW c,
             Exists(r), status[r] # "COMPLETED", new # "NONE", call' = [call EXCEPT ![s] = c],
             status' = [status EXCEPT ![r] = new], UNCHANGED <<student, progress>>,
             c.op = "progress" => c.request = r /\ new = "COMPLETED"
      PROVE  Goal
  <2>1. status'[r] = new /\ \A q \in Requests \ {r} : status'[q] = status[q]
    BY <1>0, <1>4 DEF TypeOK
  <2>2. \A q \in Requests : status[q] = "COMPLETED" => status'[q] = "COMPLETED"
    BY <1>4, <2>1
  <2>3. \A q \in Requests : Exists(q) => student'[q] = student[q]
    BY <1>4
  <2>4. \A q \in Requests : Exists(q)' => student'[q] \in Students
    BY <1>4, <2>1 DEF StartedOnce, Exists
  <2>5. c.op = "progress" => /\ c.request \in Requests
                             /\ status[c.request] # "COMPLETED"
                             /\ status'[c.request] = "COMPLETED"
    BY <1>4, <2>1
  <2> QED BY <1>0, <1>4, <2>2, <2>3, <2>4, <2>5, ProgressUntouched
<1>5. Idle.op # "progress"
  BY IdleIsACall
<1>6. ASSUME NEW s \in Sessions, NEW r \in Requests, InsertSupervisorRequest(s, r) PROVE Goal
  <2>1. /\ call[s].op = "create" /\ ~Exists(r) /\ call' = [call EXCEPT ![s] = Idle]
        /\ status' = [status EXCEPT ![r] = "SUBMITTED"] /\ progress' = progress
        /\ student' = [student EXCEPT ![r] = call[s].student]
    BY <1>6 DEF InsertSupervisorRequest, Return, Write
  <2>2. call[s].student \in Students
    BY <1>0, <2>1, CallKinds DEF TypeOK
  <2>3. /\ \A q \in Requests \ {r} : status'[q] = status[q] /\ student'[q] = student[q]
        /\ student'[r] \in Students /\ status[r] = "NONE"
    BY <1>0, <2>1, <2>2 DEF TypeOK, Exists
  <2>4. \A q \in Requests : status[q] = "COMPLETED" => status'[q] = "COMPLETED"
    BY <2>3
  <2>5. \A q \in Requests : Exists(q) => student'[q] = student[q]
    BY <2>1, <2>3
  <2>6. \A q \in Requests : Exists(q)' => student'[q] \in Students
    BY <2>3 DEF StartedOnce, Exists
  <2> HIDE DEF Idle
  <2> QED BY <1>0, <1>5, <2>1, <2>4, <2>5, <2>6, ProgressUntouched
<1>7. ASSUME NEW s \in Sessions, updateSupervisorStatus(s) PROVE Goal
  <2>1. PICK r \in Requests : r = call[s].request
    BY <1>7, StatusFacts
  <2>2. PICK new : new = call[s].target
    OBVIOUS
  <2>3. /\ status[r] \in {"SUBMITTED", "REVISION_REQUIRED"}
        /\ new \in {"VERIFIED", "REVISION_REQUIRED", "CANCELLED"}
        /\ status' = [status EXCEPT ![r] = new]
    BY <1>7, <2>1, <2>2, StatusFacts
  <2>4. call' = [call EXCEPT ![s] = Idle] /\ UNCHANGED <<student, progress>>
    BY <1>7 DEF updateSupervisorStatus, Return
  <2>5. Exists(r) /\ status[r] # "COMPLETED" /\ new # "NONE"
    BY <2>3 DEF Exists
  <2> HIDE DEF Idle
  <2> QED BY <1>4, <1>5, <2>3, <2>4, <2>5
<1>8. ASSUME NEW s \in Sessions, CommitAssignment(s) PROVE Goal
  <2>1. PICK r \in Requests : r = call[s].request
    BY <1>8, AssignmentFacts
  <2>2. status[r] \in {"VERIFIED", "REJECTED"}
    BY <1>8, <2>1, AssignmentFacts
  <2>3. /\ call' = [call EXCEPT ![s] = Idle] /\ UNCHANGED <<student, progress>>
        /\ status' = [status EXCEPT ![r] = "ASSIGNED"]
    BY <1>8, <2>1 DEF CommitAssignment, Return, Write
  <2>4. Exists(r) /\ status[r] # "COMPLETED"
    BY <2>2 DEF Exists
  <2> HIDE DEF Idle
  <2> QED BY <1>4, <1>5, <2>3, <2>4
<1>9. ASSUME NEW s \in Sessions, CommitRejection(s) PROVE Goal
  <2>0. /\ call[s].op = "respond" /\ call[s].held = {"request", "lecturer"}
        /\ Answer(call[s].request, call[s].lecturer, "REJECTED")
    BY <1>9 DEF CommitRejection
  <2>1. PICK r \in Requests : r = call[s].request
    BY <2>0, AnswerFacts
  <2>2. status[r] = "ASSIGNED"
    BY <2>0, <2>1, AnswerFacts
  <2>3. /\ call' = [call EXCEPT ![s] = Idle] /\ UNCHANGED <<student, progress>>
        /\ status' = [status EXCEPT ![r] = "REJECTED"]
    BY <1>9, <2>1 DEF CommitRejection, Return, Write
  <2>4. Exists(r) /\ status[r] # "COMPLETED"
    BY <2>2 DEF Exists
  <2> HIDE DEF Idle
  <2> QED BY <1>4, <1>5, <2>3, <2>4
<1>10. ASSUME NEW s \in Sessions, CommitAcceptance(s) PROVE Goal
  <2>0. /\ call[s].op = "respond" /\ call[s].held = {"request", "lecturer"}
        /\ Answer(call[s].request, call[s].lecturer, "ACCEPTED")
    BY <1>10 DEF CommitAcceptance
  <2>1. PICK r \in Requests : r = call[s].request
    BY <2>0, AnswerFacts
  <2>2. status[r] = "ASSIGNED"
    BY <2>0, <2>1, AnswerFacts
  <2> DEFINE c == [op |-> "progress", request |-> r]
  <2>3. /\ call' = [call EXCEPT ![s] = c] /\ UNCHANGED <<student, progress>>
        /\ status' = [status EXCEPT ![r] = "COMPLETED"]
    BY <1>10, <2>1 DEF CommitAcceptance, Write
  <2>4. Exists(r) /\ status[r] # "COMPLETED" /\ c.request = r
    BY <2>2 DEF Exists
  <2> HIDE DEF c
  <2> QED BY <1>4, <2>3, <2>4
<1>11. ASSUME NEW s \in Sessions, Rollback(s) PROVE Goal
  <2>1. call' = [call EXCEPT ![s] = Idle] /\ UNCHANGED <<status, student, progress>>
    BY <1>11 DEF Rollback, Return, requestVars
  <2> HIDE DEF Idle
  <2> QED BY <1>2, <1>5, <2>1
<1>12. ASSUME NEW s \in Sessions, NEW l \in Lecturers, InsertChoice(s, l) PROVE Goal
  <2> DEFINE c == [call[s] EXCEPT !.wants = @ \ {l}, !.shares = @ \cup {l}]
  <2>1. call[s] \in [op : {"create"}, student : Students, wants : SUBSET Lecturers,
                     shares : SUBSET Lecturers, at : Time]
    BY <1>12 DEF InsertChoice, IInv, TypeOK, Call, Idle
  <2>2. c.op # "progress"
    BY <2>1
  <2>3. call' = [call EXCEPT ![s] = c] /\ UNCHANGED <<status, student, progress>>
    BY <1>0, <1>12 DEF InsertChoice, TypeOK, requestVars
  <2> HIDE DEF c
  <2> QED BY <1>2, <2>2, <2>3
<1>13. ASSUME NEW s \in Sessions, LockAndCheck(s) PROVE Goal
  <2>0. PICK c : c = call'[s]
    OBVIOUS
  <2>1. /\ call' = [call EXCEPT ![s] = c] /\ UNCHANGED <<status, student, progress>>
        /\ call[s].op \in TwoLocks
    BY <1>0, <1>13, <2>0 DEF LockAndCheck, TypeOK, requestVars
  <2>2. c.op \in TwoLocks
    <3> DEFINE old  == call[s]
               more == old.held \cup {NextLock(old)}
    <3>1. c = [old EXCEPT !.held = more]
      BY <1>0, <1>13, <2>0 DEF LockAndCheck, TypeOK
    <3>2. old \in Call
      BY <1>0 DEF TypeOK
    <3>3. CASE old.op = "assign"
      <4>1. old \in [op : {"assign"}, request : Requests, lecturer : Lecturers,
                     from : SupervisorStatus, type : EventType, held : Locks, at : Time]
        BY <3>2, <3>3 DEF Call, Idle
      <4> HIDE DEF old, more
      <4>2. c.op = old.op
        BY <3>1, <4>1
      <4> QED BY <3>3, <4>2 DEF TwoLocks
    <3>4. CASE old.op = "respond"
      <4>1. old \in [op : {"respond"}, request : Requests, lecturer : Lecturers,
                     target : SupervisorStatus, type : EventType, held : Locks, at : Time]
        BY <3>2, <3>4 DEF Call, Idle
      <4> HIDE DEF old, more
      <4>2. c.op = old.op
        BY <3>1, <4>1
      <4> QED BY <3>4, <4>2 DEF TwoLocks
    <3> QED BY <2>1, <3>3, <3>4 DEF TwoLocks
  <2>3. c.op # "progress"
    BY <2>2 DEF TwoLocks
  <2> QED BY <1>2, <2>1, <2>3
<1>14. ASSUME NEW s \in Sessions, NEW u \in Students, NEW choices \in SUBSET Lecturers,
              CreateSupervisorRequest(s, u, choices)
       PROVE  Goal
  <2> DEFINE c == [op |-> "create", student |-> u, wants |-> choices, shares |-> {}, at |-> clock]
  <2>1. c.op # "progress" /\ Begin(s, c)
    BY <1>14 DEF CreateSupervisorRequest
  <2> HIDE DEF c
  <2> QED BY <1>3, <2>1
<1>15. ASSUME NEW s \in Sessions, NEW r \in Requests, NEW target, NEW allowed, NEW type,
              changeStatus(s, r, target, allowed, type)
       PROVE  Goal
  <2> DEFINE c == [op |-> "status", request |-> r, target |-> target,
                   allowed |-> allowed, type |-> type, at |-> clock]
  <2>1. c.op # "progress" /\ Begin(s, c)
    BY <1>15 DEF changeStatus
  <2> HIDE DEF c
  <2> QED BY <1>3, <2>1
<1>16. ASSUME NEW s \in Sessions, NEW r \in Requests,
              \/ VerifySupervisorRequest(s, r)
              \/ RequestRevisionSupervisorRequest(s, r)
              \/ CompleteSupervisorRequest(s, r)
              \/ CancelSupervisorRequest(s, r)
       PROVE  Goal
  <2> HIDE DEF Goal
  <2> QED BY <1>15, <1>16 DEF VerifySupervisorRequest, RequestRevisionSupervisorRequest,
     CompleteSupervisorRequest, CancelSupervisorRequest
<1>17. ASSUME NEW s \in Sessions, NEW r \in Requests, NEW l \in Lecturers, NEW x, NEW type,
              \/ Begin(s, [op |-> "assign", request |-> r, lecturer |-> l, from |-> x,
                           type |-> type, held |-> {}, at |-> clock])
              \/ respondSupervisorAssignment(s, r, l, x, type)
       PROVE  Goal
  <2> DEFINE c == [op |-> "assign", request |-> r, lecturer |-> l, from |-> x,
                   type |-> type, held |-> {}, at |-> clock]
             d == [op |-> "respond", request |-> r, lecturer |-> l, target |-> x,
                   type |-> type, held |-> {}, at |-> clock]
  <2>1. c.op # "progress" /\ d.op # "progress" /\ (Begin(s, c) \/ Begin(s, d))
    BY <1>17 DEF respondSupervisorAssignment
  <2> HIDE DEF c, d
  <2> QED BY <1>3, <2>1
<1>18. ASSUME NEW s \in Sessions, NEW r \in Requests, NEW l \in Lecturers,
              \/ AssignSupervisor(s, r, l)
              \/ ReassignSupervisor(s, r, l)
              \/ AcceptSupervisorRequest(s, r, l)
              \/ RejectSupervisorRequest(s, r, l)
       PROVE  Goal
  <2> HIDE DEF Goal
  <2> QED BY <1>17, <1>18 DEF AssignSupervisor, ReassignSupervisor, AcceptSupervisorRequest,
     RejectSupervisorRequest
<1>19. ASSUME NEW l \in Lecturers,
              \/ \E q \in Quotas : UpsertLecturer(l, q)
              \/ \E active \in BOOLEAN : SetLecturerStatus(l, active)
       PROVE  Goal
  BY <1>1, <1>19 DEF UpsertLecturer, SetLecturerStatus, requestVars
<1>20. ASSUME UNCHANGED vars PROVE Goal
  BY <1>1, <1>20 DEF vars, requestVars
<1>21. ASSUME NEW s \in Sessions, InitializeProgress(s) PROVE Goal
  BY <1>21, ProgressBegun
<1> HIDE DEF Goal
<1>22. Goal
  BY <1>6, <1>7, <1>8, <1>9, <1>10, <1>11, <1>12, <1>13, <1>14, <1>16, <1>18, <1>19, <1>20, <1>21
  DEF Next
<1> QED BY <1>22 DEF Goal

\* The progress of a thesis, begun in a transaction of its own after the acceptance
\* and never taken back, always belongs to a completed request of its student.
THEOREM ProgressBelongsToCompleted == Spec => []ProgressIsEarned
<1>1. Init => ProgressIsEarned /\ StartedOnce
  BY IdleIsACall DEF Init, ProgressIsEarned, StartedOnce, StartsProgress, Exists
<1>2. IInv /\ ProgressIsEarned /\ StartedOnce /\ [Next]_vars
        => ProgressIsEarned' /\ StartedOnce'
  BY ProgressNext
<1> QED BY IInvHolds, <1>1, <1>2, PTL DEF Spec

\* An attempt to begin the progress that failed is the last: once the handler that
\* accepted is through and the student's rows do not point to the request, they
\* never will, whatever anybody calls.
THEOREM FailedStartIsFinal ==
  ASSUME NEW r \in Requests
  PROVE  Spec => [](LeftWithout(r) => []LeftWithout(r))
<1>1. Init => ProgressIsEarned /\ StartedOnce
  BY IdleIsACall DEF Init, ProgressIsEarned, StartedOnce, StartsProgress, Exists
<1>2. IInv /\ ProgressIsEarned /\ StartedOnce /\ [Next]_vars
        => ProgressIsEarned' /\ StartedOnce' /\ (LeftWithout(r) => LeftWithout(r)')
  BY ProgressNext
<1> QED BY IInvHolds, <1>1, <1>2, PTL DEF Spec
=============================================================================
