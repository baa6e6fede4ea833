----------------------- MODULE AcademicRequests_proofs -----------------------
(***************************************************************************)
(* Theorems about AcademicRequests, for any number of requests, students,  *)
(* sessions, titles, any timing parameters and any bound on the clock and  *)
(* on the length of a history: types, histories and the life of a request, *)
(* and what is recorded next to its status.  At the end, about the         *)
(* composition RequestReporting: which requests the dashboards of          *)
(* reporting-service show as they are, although the events are sent in the *)
(* order in which the transactions began.                                  *)
(***************************************************************************)
EXTENDS RequestReporting, TLAPS

-----------------------------------------------------------------------------
(* The inductive invariant behind the type invariant.                      *)

\* A pending call names a request that exists, and a status change is only
\* asked for from statuses the table allows for its target.
CallsOK ==
  \A s \in Sessions :
    /\ call[s].kind \in {"status", "submit", "fields"} => Exists(call[s].request)
    /\ call[s].kind = "status"
         => call[s].allowed \subseteq AllowedFrom(AcademicTransitions, call[s].target)

\* A row that exists has an owner and a title.
RowsOK ==
  \A r \in Requests : Exists(r) => owner[r] \in Students /\ title[r] \in Titles

IInv == TypeOK /\ CallsOK /\ RowsOK

-----------------------------------------------------------------------------
LEMMA EventTypes == \A s : academicRequestEventType(s) \in EventType
  BY DEF academicRequestEventType, EventType

LEMMA IdleIsACall == Idle \in Call /\ Idle.kind = "idle"
  BY DEF Idle, Call

\* What a session holds, by the kind of its call.
LEMMA CallKinds ==
  ASSUME NEW c \in Call
  PROVE  /\ c.kind \in {"idle", "status", "submit", "fields", "create", "scan"}
         /\ c.kind = "status" =>
              /\ c.request \in Requests /\ c.actor \in Actors
              /\ c.target \in AcademicStatus /\ c.at \in Time
         /\ c.kind = "submit" =>
              c.request \in Requests /\ c.actor \in Students /\ c.at \in Time
         /\ c.kind = "fields" =>
              c.request \in Requests /\ c.actor \in Students /\ c.title \in Titles
         /\ c.kind = "create" =>
              c.actor \in Students /\ c.title \in Titles /\ c.at \in Time
         /\ c.kind = "scan" => c.at \in Time
  BY DEF Call, Idle

\* The rows a transition appends are well typed.
LEMMA RecordTypes ==
  ASSUME TypeOK, NEW r \in Requests, NEW content \in Titles,
         NEW old \in AcademicStatus \cup {Null}, NEW new \in AcademicStatus,
         NEW by \in Actors, NEW at \in Time, NEW type \in EventType,
         Record(r, content, old, new, by, at, type)
  PROVE  /\ history' \in [Requests -> Seq(HistoryRow)]
         /\ outbox' \in [Requests -> Seq(OutboxRow)]
<1> DEFINE row == [old |-> old, new |-> new, by |-> by, at |-> at,
                   content |-> content]
           ev  == Event(Len(history[r]) + 1, type, new, at)
<1>1. row \in HistoryRow
  BY DEF HistoryRow
<1>2. ev \in OutboxRow
  <2>1. Len(history[r]) \in Nat
    BY DEF TypeOK
  <2> QED BY <2>1 DEF Event, OutboxRow
<1>3. Append(history[r], row) \in Seq(HistoryRow)
  BY <1>1 DEF TypeOK
<1>4. Append(outbox[r], ev) \in Seq(OutboxRow)
  BY <1>2 DEF TypeOK
<1>5. history' = [history EXCEPT ![r] = Append(@, row)]
  BY DEF Record
<1>6. outbox' = [outbox EXCEPT ![r] = Append(@, ev)]
  BY DEF Record
<1> HIDE DEF row, ev
<1> QED BY <1>3, <1>4, <1>5, <1>6 DEF TypeOK

-----------------------------------------------------------------------------
LEMMA InitIInv == Init => IInv
<1> SUFFICES ASSUME Init PROVE IInv
  OBVIOUS
<1>1. TypeOK
  BY TimingAssumption, IdleIsACall DEF Init, TypeOK, Time, Milestones
<1>2. CallsOK /\ RowsOK
  BY IdleIsACall DEF Init, CallsOK, RowsOK, Exists
<1> QED BY <1>1, <1>2 DEF IInv

\* A handler that begins only fills its session with a well-typed call.
LEMMA BeginIInv ==
  ASSUME IInv, NEW s \in Sessions, NEW c \in Call, Begin(s, c),
         c.kind \in {"status", "submit", "fields"} => Exists(c.request),
         c.kind = "status"
           => c.allowed \subseteq AllowedFrom(AcademicTransitions, c.target)
  PROVE  IInv'
<1>1. call' = [call EXCEPT ![s] = c]
  BY DEF Begin
<1>2. TypeOK'
  BY <1>1 DEF IInv, TypeOK, Begin, rowVars, logVars
<1>3. CallsOK'
  BY <1>1 DEF IInv, TypeOK, CallsOK, Begin, rowVars, logVars, Exists
<1>4. RowsOK'
  BY DEF IInv, RowsOK, Begin, rowVars, Exists
<1> QED BY <1>2, <1>3, <1>4 DEF IInv

\* A transaction that ends leaves its session idle; the others keep calls on
\* rows that still exist.
LEMMA ReturnCalls ==
  ASSUME IInv, NEW s \in Sessions, Return(s),
         \A r \in Requests : Exists(r) => Exists(r)'
  PROVE  call' \in [Sessions -> Call] /\ CallsOK'
<1>1. call' = [call EXCEPT ![s] = Idle]
  BY DEF Return
<1>2. call' \in [Sessions -> Call]
  BY <1>1, IdleIsACall DEF IInv, TypeOK
<1>3. ASSUME NEW t \in Sessions
      PROVE  /\ call'[t].kind \in {"status", "submit", "fields"}
                  => Exists(call[t].request)' /\ call'[t] = call[t]
             /\ call'[t].kind = "status" => call'[t] = call[t]
  <2>1. CASE t = s
    BY <1>1, <2>1, IdleIsACall DEF IInv, TypeOK
  <2>2. CASE t # s
    <3>1. call'[t] = call[t] /\ call[t] \in Call
      BY <1>1, <2>2 DEF IInv, TypeOK
    <3>2. call[t].kind \in {"status", "submit", "fields"}
            => call[t].request \in Requests /\ Exists(call[t].request)
      BY <3>1, CallKinds DEF IInv, CallsOK
    <3> QED BY <3>1, <3>2
  <2> QED BY <2>1, <2>2
<1>4. CallsOK'
  BY <1>3 DEF IInv, CallsOK, Exists
<1> QED BY <1>2, <1>4

-----------------------------------------------------------------------------
(* Every begin step hands its session a call the invariant allows.          *)

LEMMA BeginStepsIInv ==
  ASSUME IInv, NEW s \in Sessions,
         \/ StartScan(s)
         \/ \E u \in Students, t \in Titles : CreateAcademicRequest(s, u, t)
         \/ \E r \in Requests :
              \/ VerifyAcademicRequest(s, r)
              \/ ApproveAcademicRequest(s, r)
              \/ RejectAcademicRequest(s, r)
              \/ CompleteAcademicRequest(s, r)
              \/ RequestRevisionAcademicRequest(s, r)
              \/ \E u \in Students :
                   \/ CancelAcademicRequest(s, r, u)
                   \/ SubmitAcademicRequest(s, r, u)
                   \/ \E t \in Titles : UpdateAcademicRequest(s, r, u, t)
  PROVE  IInv'
<1>0. clock \in Time
  BY DEF IInv, TypeOK
<1>1. ASSUME NEW r \in Requests, NEW actor \in Actors, NEW target \in AcademicStatus,
             NEW allowed \in SUBSET AcademicStatus,
             allowed \subseteq AllowedFrom(AcademicTransitions, target),
             workflowAction(s, r, actor, target, allowed)
      PROVE  IInv'
  <2> DEFINE c == [kind |-> "status", request |-> r, actor |-> actor,
                   target |-> target, allowed |-> allowed, at |-> clock]
  <2>1. c \in Call /\ c.kind = "status"
    BY <1>0 DEF Call
  <2>2. Begin(s, c) /\ Exists(c.request) /\ c.allowed = allowed /\ c.target = target
    BY <1>1 DEF workflowAction
  <2> HIDE DEF c
  <2> QED BY <1>1, <2>1, <2>2, BeginIInv
<1>2. CASE StartScan(s)
  <2> DEFINE c == [kind |-> "scan", at |-> clock]
  <2>1. c \in Call /\ c.kind = "scan"
    BY <1>0 DEF Call
  <2>2. Begin(s, c)
    BY <1>2 DEF StartScan
  <2> HIDE DEF c
  <2> QED BY <2>1, <2>2, BeginIInv
<1>3. CASE \E u \in Students, t \in Titles : CreateAcademicRequest(s, u, t)
  <2>0. PICK u \in Students, t \in Titles : CreateAcademicRequest(s, u, t)
    BY <1>3
  <2> DEFINE c == [kind |-> "create", actor |-> u, title |-> t, at |-> clock]
  <2>1. c \in Call /\ c.kind = "create"
    BY <1>0 DEF Call
  <2>2. Begin(s, c)
    BY <2>0 DEF CreateAcademicRequest
  <2> HIDE DEF c
  <2> QED BY <2>1, <2>2, BeginIInv
<1>4. ASSUME NEW r \in Requests
      PROVE  /\ VerifyAcademicRequest(s, r)          => IInv'
             /\ ApproveAcademicRequest(s, r)         => IInv'
             /\ RejectAcademicRequest(s, r)          => IInv'
             /\ CompleteAcademicRequest(s, r)        => IInv'
             /\ RequestRevisionAcademicRequest(s, r) => IInv'
  <2>0. /\ "ADMIN_PRODI" \in Actors /\ "KAPRODI" \in Actors /\ "TATA_USAHA" \in Actors
        /\ {"VERIFIED", "APPROVED", "REJECTED", "COMPLETED", "REVISION_REQUIRED"}
             \subseteq AcademicStatus
    BY DEF Actors, StaffRoles, AcademicStatus
  <2>1. /\ {"SUBMITTED"} \in SUBSET AcademicStatus
        /\ {"SUBMITTED"} \subseteq AllowedFrom(AcademicTransitions, "VERIFIED")
    BY DEF AllowedFrom, AcademicTransitions, AcademicStatus
  <2>2. /\ {"VERIFIED"} \in SUBSET AcademicStatus
        /\ {"VERIFIED"} \subseteq AllowedFrom(AcademicTransitions, "APPROVED")
        /\ {"VERIFIED"} \subseteq AllowedFrom(AcademicTransitions, "REJECTED")
    BY DEF AllowedFrom, AcademicTransitions, AcademicStatus
  <2>3. /\ {"APPROVED"} \in SUBSET AcademicStatus
        /\ {"APPROVED"} \subseteq AllowedFrom(AcademicTransitions, "COMPLETED")
    BY DEF AllowedFrom, AcademicTransitions, AcademicStatus
  <2>4. AllowedFrom(AcademicTransitions, "REVISION_REQUIRED") \in SUBSET AcademicStatus
    BY DEF AllowedFrom, AcademicTransitions
  <2>5. VerifyAcademicRequest(s, r) => IInv'
    <3> SUFFICES ASSUME workflowAction(s, r, "ADMIN_PRODI", "VERIFIED", {"SUBMITTED"})
                 PROVE  IInv'
      BY DEF VerifyAcademicRequest
    <3> QED BY <2>0, <2>1, <1>1
  <2>6. ApproveAcademicRequest(s, r) => IInv'
    <3> SUFFICES ASSUME workflowAction(s, r, "KAPRODI", "APPROVED", {"VERIFIED"})
                 PROVE  IInv'
      BY DEF ApproveAcademicRequest
    <3> QED BY <2>0, <2>2, <1>1
  <2>7. RejectAcademicRequest(s, r) => IInv'
    <3> SUFFICES ASSUME workflowAction(s, r, "KAPRODI", "REJECTED", {"VERIFIED"})
                 PROVE  IInv'
      BY DEF RejectAcademicRequest
    <3> QED BY <2>0, <2>2, <1>1
  <2>8. CompleteAcademicRequest(s, r) => IInv'
    <3> SUFFICES ASSUME workflowAction(s, r, "TATA_USAHA", "COMPLETED", {"APPROVED"})
                 PROVE  IInv'
      BY DEF CompleteAcademicRequest
    <3> QED BY <2>0, <2>3, <1>1
  <2>9. RequestRevisionAcademicRequest(s, r) => IInv'
    BY <2>0, <2>4, <1>1 DEF RequestRevisionAcademicRequest
  <2> QED BY <2>5, <2>6, <2>7, <2>8, <2>9
<1>5. ASSUME NEW r \in Requests, NEW u \in Students, CancelAcademicRequest(s, r, u)
      PROVE  IInv'
  <2>1. AllowedFrom(AcademicTransitions, "CANCELLED") \in SUBSET AcademicStatus
    BY DEF AllowedFrom, AcademicTransitions
  <2> QED BY <2>1, <1>1, <1>5 DEF CancelAcademicRequest, Actors, AcademicStatus
<1>6. ASSUME NEW r \in Requests, NEW u \in Students, SubmitAcademicRequest(s, r, u)
      PROVE  IInv'
  <2> DEFINE c == [kind |-> "submit", request |-> r, actor |-> u, at |-> clock]
  <2>1. c \in Call /\ c.kind = "submit"
    BY <1>0 DEF Call
  <2>2. Begin(s, c) /\ Exists(c.request)
    BY <1>6 DEF SubmitAcademicRequest, verifyOwnership
  <2> HIDE DEF c
  <2> QED BY <2>1, <2>2, BeginIInv
<1>7. ASSUME NEW r \in Requests, NEW u \in Students, NEW t \in Titles,
             UpdateAcademicRequest(s, r, u, t)
      PROVE  IInv'
  <2> DEFINE c == [kind |-> "fields", request |-> r, actor |-> u, title |-> t]
  <2>1. c \in Call /\ c.kind = "fields"
    BY DEF Call
  <2>2. Begin(s, c) /\ Exists(c.request)
    BY <1>7 DEF UpdateAcademicRequest, verifyOwnership
  <2> HIDE DEF c
  <2> QED BY <2>1, <2>2, BeginIInv
<1> QED BY <1>2, <1>3, <1>4, <1>5, <1>6, <1>7

-----------------------------------------------------------------------------
(* The transactions.                                                        *)

LEMMA InsertIInv ==
  ASSUME IInv, NEW s \in Sessions, NEW r \in Requests, InsertAcademicRequest(s, r)
  PROVE  IInv'
<1> DEFINE c == call[s]
<1>1. /\ c.actor \in Students /\ c.actor \in Actors /\ c.title \in Titles
      /\ c.at \in Time
  BY CallKinds DEF IInv, TypeOK, InsertAcademicRequest, Actors
<1>2. /\ status' = [status EXCEPT ![r] = "SUBMITTED"]
      /\ "SUBMITTED" \in AcademicStatus /\ "SUBMITTED" # "NONE"
  BY DEF InsertAcademicRequest, AcademicStatus
<1>3. \A q \in Requests : Exists(q) => Exists(q)'
  BY <1>2 DEF IInv, TypeOK, Exists
<1>4. call' \in [Sessions -> Call] /\ CallsOK'
  BY <1>3, ReturnCalls DEF InsertAcademicRequest
<1>5. /\ history' \in [Requests -> Seq(HistoryRow)]
      /\ outbox' \in [Requests -> Seq(OutboxRow)]
  <2>1. "academic_request.created" \in EventType
    BY DEF EventType
  <2> QED BY <1>1, <1>2, <2>1, RecordTypes DEF IInv, InsertAcademicRequest
<1>6. /\ status' \in [Requests -> AcademicStatus \cup {"NONE"}]
      /\ owner' \in [Requests -> Students \cup {Null}]
      /\ title' \in [Requests -> Titles \cup {Null}]
      /\ clock' \in Time /\ warnedAt' \in [Requests -> Time \cup {Null}]
      /\ approvals' \in [Requests -> Seq(ApprovalRow)]
  BY <1>1, <1>2 DEF IInv, TypeOK, InsertAcademicRequest
<1>7. stamp' \in [Requests -> [Milestones -> Time \cup {Null}]]
  BY <1>1 DEF IInv, TypeOK, InsertAcademicRequest
<1>8. dueAt' \in [Requests -> Nat \cup {Null}]
  <2>1. c.at + DueIn \in Nat
    BY <1>1, TimingAssumption DEF Time
  <2> QED BY <2>1 DEF IInv, TypeOK, InsertAcademicRequest
<1>9. RowsOK'
  BY <1>1, <1>2 DEF IInv, TypeOK, RowsOK, Exists, InsertAcademicRequest
<1> QED BY <1>4, <1>5, <1>6, <1>7, <1>8, <1>9 DEF IInv, TypeOK

LEMMA StatusIInv ==
  ASSUME IInv, NEW s \in Sessions, UpdateAcademicRequestStatus(s)
  PROVE  IInv'
<1> DEFINE c == call[s]
           r == c.request
<1>1. /\ r \in Requests /\ c.actor \in Actors /\ c.target \in AcademicStatus
      /\ c.at \in Time /\ Exists(r)
  BY CallKinds DEF IInv, TypeOK, CallsOK, UpdateAcademicRequestStatus
<1>2. /\ status' = [status EXCEPT ![r] = c.target]
      /\ "NONE" \notin AcademicStatus
      /\ status[r] \in AcademicStatus
      /\ title[r] \in Titles
  BY <1>1 DEF UpdateAcademicRequestStatus, AcademicStatus, IInv, TypeOK, RowsOK, Exists
<1>3. \A q \in Requests : Exists(q)' <=> Exists(q)
  BY <1>1, <1>2 DEF IInv, TypeOK, Exists
<1>4. call' \in [Sessions -> Call] /\ CallsOK'
  BY <1>3, ReturnCalls DEF UpdateAcademicRequestStatus
<1>5. /\ history' \in [Requests -> Seq(HistoryRow)]
      /\ outbox' \in [Requests -> Seq(OutboxRow)]
  BY <1>1, <1>2, EventTypes, RecordTypes DEF IInv, UpdateAcademicRequestStatus
<1>6. /\ status' \in [Requests -> AcademicStatus \cup {"NONE"}]
      /\ owner' \in [Requests -> Students \cup {Null}]
      /\ title' \in [Requests -> Titles \cup {Null}]
      /\ clock' \in Time /\ warnedAt' \in [Requests -> Time \cup {Null}]
      /\ dueAt' \in [Requests -> Nat \cup {Null}]
  BY <1>1, <1>2 DEF IInv, TypeOK, UpdateAcademicRequestStatus
<1>7. stamp' \in [Requests -> [Milestones -> Time \cup {Null}]]
  <2>1. [m \in Milestones |-> IF m = c.target THEN c.at ELSE stamp[r][m]]
          \in [Milestones -> Time \cup {Null}]
    BY <1>1 DEF IInv, TypeOK
  <2>2. stamp' = [stamp EXCEPT ![r] = [m \in Milestones |->
                    IF m = c.target THEN c.at ELSE stamp[r][m]]]
    BY DEF UpdateAcademicRequestStatus
  <2> QED BY <2>1, <2>2 DEF IInv, TypeOK
<1>8. approvals' \in [Requests -> Seq(ApprovalRow)]
  <2> DEFINE row == [by |-> c.actor, action |-> c.target]
  <2>1. row \in ApprovalRow
    BY <1>1 DEF ApprovalRow
  <2>2. approvals' = [approvals EXCEPT ![r] = Append(@, row)]
    BY DEF UpdateAcademicRequestStatus
  <2> HIDE DEF row
  <2>3. Append(approvals[r], row) \in Seq(ApprovalRow)
    BY <1>1, <2>1 DEF IInv, TypeOK
  <2> QED BY <2>2, <2>3 DEF IInv, TypeOK
<1>9. RowsOK'
  BY <1>3 DEF IInv, RowsOK, UpdateAcademicRequestStatus
<1> QED BY <1>4, <1>5, <1>6, <1>7, <1>8, <1>9 DEF IInv, TypeOK

LEMMA ResubmitIInv ==
  ASSUME IInv, NEW s \in Sessions, ResubmitAcademicRequest(s)
  PROVE  IInv'
<1> DEFINE c == call[s]
           r == c.request
<1>1. /\ r \in Requests /\ c.actor \in Actors /\ c.at \in Time /\ Exists(r)
  BY CallKinds DEF IInv, TypeOK, CallsOK, ResubmitAcademicRequest, Actors
<1>2. /\ status' = [status EXCEPT ![r] = "SUBMITTED"]
      /\ "SUBMITTED" \in AcademicStatus /\ "SUBMITTED" # "NONE"
      /\ status[r] \in AcademicStatus
      /\ title[r] \in Titles
  BY <1>1 DEF ResubmitAcademicRequest, AcademicStatus, IInv, TypeOK, RowsOK, Exists
<1>3. \A q \in Requests : Exists(q)' <=> Exists(q)
  BY <1>1, <1>2 DEF IInv, TypeOK, Exists
<1>4. call' \in [Sessions -> Call] /\ CallsOK'
  BY <1>3, ReturnCalls DEF ResubmitAcademicRequest
<1>5. /\ history' \in [Requests -> Seq(HistoryRow)]
      /\ outbox' \in [Requests -> Seq(OutboxRow)]
  <2>1. "academic_request.submitted" \in EventType
    BY DEF EventType
  <2> QED BY <1>1, <1>2, <2>1, RecordTypes DEF IInv, ResubmitAcademicRequest
<1>6. /\ status' \in [Requests -> AcademicStatus \cup {"NONE"}]
      /\ owner' \in [Requests -> Students \cup {Null}]
      /\ title' \in [Requests -> Titles \cup {Null}]
      /\ clock' \in Time /\ warnedAt' \in [Requests -> Time \cup {Null}]
      /\ dueAt' \in [Requests -> Nat \cup {Null}]
      /\ approvals' \in [Requests -> Seq(ApprovalRow)]
  BY <1>1, <1>2 DEF IInv, TypeOK, ResubmitAcademicRequest
<1>7. stamp' \in [Requests -> [Milestones -> Time \cup {Null}]]
  BY <1>1 DEF IInv, TypeOK, ResubmitAcademicRequest
<1>8. RowsOK'
  BY <1>3 DEF IInv, RowsOK, ResubmitAcademicRequest
<1> QED BY <1>4, <1>5, <1>6, <1>7, <1>8 DEF IInv, TypeOK

LEMMA FieldsIInv ==
  ASSUME IInv, NEW s \in Sessions, UpdateAcademicRequestFields(s)
  PROVE  IInv'
<1>1. call[s].request \in Requests /\ call[s].title \in Titles
  BY CallKinds DEF IInv, TypeOK, UpdateAcademicRequestFields
<1>2. call' \in [Sessions -> Call] /\ CallsOK'
  BY ReturnCalls DEF UpdateAcademicRequestFields, Exists
<1>3. title' = [title EXCEPT ![call[s].request] = call[s].title]
  BY DEF UpdateAcademicRequestFields
<1>4. RowsOK'
  BY <1>1, <1>3 DEF IInv, TypeOK, RowsOK, Exists, UpdateAcademicRequestFields
<1> QED BY <1>1, <1>2, <1>3, <1>4
        DEF IInv, TypeOK, UpdateAcademicRequestFields, logVars

LEMMA ScanIInv ==
  ASSUME IInv, NEW s \in Sessions, NEW items \in SUBSET Requests,
         scanAndEmit(s, items)
  PROVE  IInv'
<1>1. call[s].at \in Time
  BY CallKinds DEF IInv, TypeOK, scanAndEmit
<1>2. call' \in [Sessions -> Call] /\ CallsOK'
  BY ReturnCalls DEF scanAndEmit, Exists
<1>3. warnedAt' \in [Requests -> Time \cup {Null}]
  BY <1>1 DEF IInv, TypeOK, scanAndEmit
<1>4. outbox' \in [Requests -> Seq(OutboxRow)]
  <2> DEFINE ev(r) == Event(0, "academic_request.sla_warning", status[r], call[s].at)
  <2>1. ASSUME NEW r \in items
        PROVE  ev(r) \in OutboxRow
    <3>1. status[r] \in AcademicStatus
      BY <2>1 DEF scanAndEmit, NeedsWarning, Exists, IInv, TypeOK
    <3> QED BY <1>1, <3>1 DEF Event, OutboxRow, EventType
  <2>2. outbox' = [r \in Requests |-> IF r \in items THEN Append(outbox[r], ev(r))
                                      ELSE outbox[r]]
    BY DEF scanAndEmit
  <2> HIDE DEF ev
  <2>3. ASSUME NEW r \in Requests
        PROVE  (IF r \in items THEN Append(outbox[r], ev(r)) ELSE outbox[r])
                 \in Seq(OutboxRow)
    BY <2>1 DEF IInv, TypeOK
  <2> QED BY <2>2, <2>3
<1>5. RowsOK'
  BY DEF IInv, RowsOK, Exists, scanAndEmit
<1> QED BY <1>2, <1>3, <1>4, <1>5 DEF IInv, TypeOK, scanAndEmit

-----------------------------------------------------------------------------
LEMMA NextIInv == IInv /\ [Next]_vars => IInv'
<1> SUFFICES ASSUME IInv, [Next]_vars PROVE IInv'
  OBVIOUS
<1>1. CASE Tick
  <2>1. clock + 1 \in Time
    BY <1>1, TimingAssumption DEF Tick, IInv, TypeOK, Time
  <2> QED BY <1>1, <2>1
          DEF Tick, IInv, TypeOK, CallsOK, RowsOK, Exists, rowVars, logVars
<1>2. CASE UNCHANGED vars
  BY <1>2 DEF vars, IInv, TypeOK, CallsOK, RowsOK, Exists
<1>3. ASSUME NEW s \in Sessions, Rollback(s)
      PROVE  IInv'
  <2>1. call' \in [Sessions -> Call] /\ CallsOK'
    BY <1>3, ReturnCalls DEF Rollback, rowVars, Exists
  <2> QED BY <1>3, <2>1 DEF Rollback, rowVars, logVars, IInv, TypeOK, RowsOK, Exists
<1> QED BY <1>1, <1>2, <1>3, BeginStepsIInv, InsertIInv, StatusIInv, ResubmitIInv,
           FieldsIInv, ScanIInv DEF Next

\* In every reachable state every variable has its type, every pending call
\* names an existing row, and a row that exists has an owner and content.
THEOREM TypeCorrect == Spec => []TypeOK
<1>1. IInv => TypeOK
  BY DEF IInv
<1> QED BY InitIInv, NextIInv, <1>1, PTL DEF Spec

\* The inductive invariant behind it: besides the types, every pending call
\* carries only statuses its target may follow, and rows are complete.
THEOREM IInvHolds == Spec => []IInv
  BY InitIInv, NextIInv, PTL DEF Spec

-----------------------------------------------------------------------------
(* The lifecycle: every commit is one move of one request along the table.  *)

LEMMA LifecycleStep == IInv /\ [Next]_vars => [Lifecycle!Next]_status
<1> SUFFICES ASSUME IInv, [Next]_vars, status' # status
             PROVE  Lifecycle!Next
  OBVIOUS
<1>1. PICK s \in Sessions :
        \/ \E r \in Requests : InsertAcademicRequest(s, r)
        \/ UpdateAcademicRequestStatus(s)
        \/ ResubmitAcademicRequest(s)
  BY DEF Next, vars, rowVars, Tick, StartScan, Begin, VerifyAcademicRequest,
         ApproveAcademicRequest, RejectAcademicRequest, CompleteAcademicRequest,
         RequestRevisionAcademicRequest, CancelAcademicRequest, workflowAction,
         SubmitAcademicRequest, UpdateAcademicRequest, CreateAcademicRequest,
         UpdateAcademicRequestFields, scanAndEmit, Rollback
<1>2. CASE \E r \in Requests : InsertAcademicRequest(s, r)
  BY <1>2 DEF InsertAcademicRequest, Exists, Lifecycle!Next, Lifecycle!Birth
<1>3. ASSUME NEW r \in Requests, NEW to \in AcademicStatus,
             status[r] \in AllowedFrom(AcademicTransitions, to),
             status' = [status EXCEPT ![r] = to]
      PROVE  Lifecycle!Next
  BY <1>3 DEF AllowedFrom, Lifecycle!Next, Lifecycle!Move
<1>4. CASE UpdateAcademicRequestStatus(s)
  <2>1. /\ call[s].request \in Requests /\ call[s].target \in AcademicStatus
        /\ call[s].allowed \subseteq AllowedFrom(AcademicTransitions, call[s].target)
    BY <1>4, CallKinds DEF UpdateAcademicRequestStatus, IInv, TypeOK, CallsOK
  <2>2. /\ status[call[s].request] \in call[s].allowed
        /\ status' = [status EXCEPT ![call[s].request] = call[s].target]
    BY <1>4 DEF UpdateAcademicRequestStatus, isStatusAllowed
  <2> QED BY <2>1, <2>2, <1>3
<1>5. CASE ResubmitAcademicRequest(s)
  <2>1. call[s].request \in Requests /\ "SUBMITTED" \in AcademicStatus
    BY <1>5, CallKinds DEF ResubmitAcademicRequest, IInv, TypeOK, AcademicStatus
  <2>2. /\ status[call[s].request] \in AllowedFrom(AcademicTransitions, "SUBMITTED")
        /\ status' = [status EXCEPT ![call[s].request] = "SUBMITTED"]
    BY <1>5 DEF ResubmitAcademicRequest, isStatusAllowed
  <2> QED BY <2>1, <2>2, <1>3
<1> QED BY <1>1, <1>2, <1>4, <1>5

\* Through any interleaving of handlers, rollbacks and worker replicas, the
\* requests implement the lifecycle: born SUBMITTED, moved only along
\* AcademicTransitions, never out of a closed status.
THEOREM WorkflowFollowsLifecycle == Spec => FollowsLifecycle
<1>1. Init => Lifecycle!Init
  BY DEF Init, Lifecycle!Init
<1> QED BY IInvHolds, LifecycleStep, <1>1, PTL
        DEF Spec, FollowsLifecycle, Lifecycle!Spec

-----------------------------------------------------------------------------
(* The history.                                                             *)

\* The part of HistoryIsAPath about one request.
PathOf(r) ==
  IF ~Exists(r)
  THEN history[r] = <<>>
  ELSE /\ history[r] # <<>>
       /\ history[r][1].old = Null
       /\ history[r][1].new = "SUBMITTED"
       /\ Last(history[r]).new = status[r]
       /\ \A i \in 2 .. Len(history[r]) :
            /\ history[r][i].old = history[r][i - 1].new
            /\ CanTransition(AcademicTransitions,
                             history[r][i].old, history[r][i].new)

\* A commit that appends one row from the current status to an allowed one
\* prolongs the path of its request and leaves the others alone.
LEMMA PathGrows ==
  ASSUME IInv, \A q \in Requests : PathOf(q), NEW r \in Requests, Exists(r),
         NEW to \in AcademicStatus,
         status[r] \in AllowedFrom(AcademicTransitions, to),
         status' = [status EXCEPT ![r] = to],
         NEW row, row.old = status[r], row.new = to,
         history' = [history EXCEPT ![r] = Append(@, row)]
  PROVE  \A q \in Requests : PathOf(q)'
<1>1. ASSUME NEW q \in Requests, q # r
      PROVE  PathOf(q)'
  <2>1. history'[q] = history[q] /\ status'[q] = status[q]
    BY <1>1 DEF IInv, TypeOK
  <2>2. PathOf(q)
    BY <1>1
  <2> QED BY <2>1, <2>2 DEF PathOf, Exists, Last
<1>2. PathOf(r)'
  <2> DEFINE h == history[r]
             n == Len(history[r])
  <2>1. h \in Seq(HistoryRow) /\ n \in Nat /\ history'[r] = Append(h, row)
    BY DEF IInv, TypeOK
  <2>2. /\ n > 0 /\ h[1].old = Null /\ h[1].new = "SUBMITTED" /\ h[n].new = status[r]
        /\ \A i \in 2 .. n : /\ h[i].old = h[i - 1].new
                             /\ CanTransition(AcademicTransitions, h[i].old, h[i].new)
    <3>1. /\ h # <<>> /\ h[1].old = Null /\ h[1].new = "SUBMITTED" /\ h[n].new = status[r]
          /\ \A i \in 2 .. n : /\ h[i].old = h[i - 1].new
                               /\ CanTransition(AcademicTransitions, h[i].old, h[i].new)
      BY DEF PathOf, Last
    <3> HIDE DEF h, n
    <3>2. n = Len(h)
      BY DEF h, n
    <3>3. n > 0
      BY <2>1, <3>1, <3>2
    <3> QED BY <3>1, <3>3
  <2>3. /\ Len(history'[r]) = n + 1
        /\ history'[r][n + 1] = row
        /\ \A i \in 1 .. n : history'[r][i] = h[i]
    BY <2>1
  <2>4. status'[r] = to /\ to # "NONE"
    BY DEF IInv, TypeOK, AcademicStatus
  <2>5. CanTransition(AcademicTransitions, row.old, row.new)
    BY DEF AllowedFrom, CanTransition
  <2>6. history'[r] # <<>> /\ history'[r][1] = h[1] /\ Last(history'[r]) = row
    BY <2>1, <2>2, <2>3 DEF Last
  <2> HIDE DEF h, n
  <2>7. ASSUME NEW i \in 2 .. n + 1
        PROVE  /\ history'[r][i].old = history'[r][i - 1].new
               /\ CanTransition(AcademicTransitions, history'[r][i].old, history'[r][i].new)
    <3>0. n \in Nat /\ n > 0
      BY <2>1, <2>2
    <3>1. CASE i = n + 1
      <4>1. history'[r][i] = row /\ i - 1 = n /\ history'[r][n] = h[n]
        BY <3>0, <3>1, <2>3
      <4> QED BY <4>1, <2>2, <2>5
    <3>2. CASE i # n + 1
      <4>1. i \in 2 .. n /\ i - 1 \in 1 .. n /\ i \in 1 .. n
        BY <3>0, <3>2
      <4> QED BY <4>1, <2>2, <2>3
    <3> QED BY <3>1, <3>2
  <2> QED BY <2>2, <2>3, <2>4, <2>6, <2>7 DEF PathOf, Exists
<1> QED BY <1>1, <1>2

LEMMA PathNext == IInv /\ HistoryIsAPath /\ [Next]_vars => HistoryIsAPath'
<1> SUFFICES ASSUME IInv, HistoryIsAPath, [Next]_vars
             PROVE  HistoryIsAPath'
  OBVIOUS
<1>0. \A q \in Requests : PathOf(q)
  BY DEF HistoryIsAPath, PathOf
<1> SUFFICES \A q \in Requests : PathOf(q)'
  BY DEF HistoryIsAPath, PathOf
<1>1. CASE UNCHANGED <<status, history>>
  BY <1>0, <1>1 DEF PathOf, Exists, Last
<1>2. ASSUME NEW s \in Sessions, NEW r \in Requests, InsertAcademicRequest(s, r)
      PROVE  \A q \in Requests : PathOf(q)'
  <2>1. history[r] = <<>>
    BY <1>0, <1>2 DEF PathOf, InsertAcademicRequest
  <2>2. PICK row : row.old = Null /\ row.new = "SUBMITTED"
                   /\ history' = [history EXCEPT ![r] = Append(@, row)]
    <3> DEFINE row == [old |-> Null, new |-> "SUBMITTED", by |-> call[s].actor,
                       at |-> call[s].at, content |-> call[s].title]
    <3> WITNESS row
    <3> QED BY <1>2 DEF InsertAcademicRequest, Record
  <2>3. status' = [status EXCEPT ![r] = "SUBMITTED"]
    BY <1>2 DEF InsertAcademicRequest
  <2>4. history'[r] = <<row>> /\ status'[r] = "SUBMITTED"
    BY <2>1, <2>2, <2>3 DEF IInv, TypeOK
  <2>5. ASSUME NEW q \in Requests, q # r
        PROVE  history'[q] = history[q] /\ status'[q] = status[q]
    BY <2>2, <2>3, <2>5 DEF IInv, TypeOK
  <2>6. PathOf(r)'
    BY <2>2, <2>4 DEF PathOf, Exists, Last
  <2>7. ASSUME NEW q \in Requests, q # r
        PROVE  PathOf(q)'
    BY <1>0, <2>5, <2>7 DEF PathOf, Exists, Last
  <2> QED BY <2>6, <2>7
<1>3. ASSUME NEW s \in Sessions, UpdateAcademicRequestStatus(s)
      PROVE  \A q \in Requests : PathOf(q)'
  <2> DEFINE c == call[s]
             row == [old |-> status[c.request], new |-> c.target, by |-> c.actor,
                     at |-> c.at, content |-> title[c.request]]
  <2>1. /\ c.request \in Requests /\ c.target \in AcademicStatus /\ Exists(c.request)
        /\ c.allowed \subseteq AllowedFrom(AcademicTransitions, c.target)
    BY <1>3, CallKinds DEF UpdateAcademicRequestStatus, IInv, TypeOK, CallsOK
  <2>2. /\ status[c.request] \in c.allowed
        /\ status' = [status EXCEPT ![c.request] = c.target]
        /\ history' = [history EXCEPT ![c.request] = Append(@, row)]
    BY <1>3 DEF UpdateAcademicRequestStatus, isStatusAllowed, Record
  <2>3. row.old = status[c.request] /\ row.new = c.target
    OBVIOUS
  <2> HIDE DEF row, c
  <2> QED BY <1>0, <2>1, <2>2, <2>3, PathGrows
<1>4. ASSUME NEW s \in Sessions, ResubmitAcademicRequest(s)
      PROVE  \A q \in Requests : PathOf(q)'
  <2> DEFINE c == call[s]
             row == [old |-> status[c.request], new |-> "SUBMITTED", by |-> c.actor,
                     at |-> c.at, content |-> title[c.request]]
  <2>1. c.request \in Requests /\ "SUBMITTED" \in AcademicStatus /\ Exists(c.request)
    BY <1>4, CallKinds
       DEF ResubmitAcademicRequest, IInv, TypeOK, CallsOK, AcademicStatus
  <2>2. /\ status[c.request] \in AllowedFrom(AcademicTransitions, "SUBMITTED")
        /\ status' = [status EXCEPT ![c.request] = "SUBMITTED"]
        /\ history' = [history EXCEPT ![c.request] = Append(@, row)]
    BY <1>4 DEF ResubmitAcademicRequest, isStatusAllowed, Record
  <2>3. row.old = status[c.request] /\ row.new = "SUBMITTED"
    OBVIOUS
  <2> HIDE DEF row, c
  <2> QED BY <1>0, <2>1, <2>2, <2>3, PathGrows
<1>5. \/ UNCHANGED <<status, history>>
      \/ \E s \in Sessions :
           \/ \E r \in Requests : InsertAcademicRequest(s, r)
           \/ UpdateAcademicRequestStatus(s)
           \/ ResubmitAcademicRequest(s)
  BY DEF Next, vars, rowVars, logVars, Tick, StartScan, Begin,
         VerifyAcademicRequest, ApproveAcademicRequest, RejectAcademicRequest,
         CompleteAcademicRequest, RequestRevisionAcademicRequest,
         CancelAcademicRequest, workflowAction, SubmitAcademicRequest,
         UpdateAcademicRequest, CreateAcademicRequest,
         UpdateAcademicRequestFields, scanAndEmit, Rollback
<1> QED BY <1>1, <1>2, <1>3, <1>4, <1>5

\* The history of every request is an unbroken walk through the transition
\* table from its creation to the status it has.
THEOREM HistoryUnbroken == Spec => []HistoryIsAPath
<1>1. Init => HistoryIsAPath
  BY DEF Init, HistoryIsAPath, Exists
<1> QED BY IInvHolds, PathNext, <1>1, PTL DEF Spec

-----------------------------------------------------------------------------
(* Ownership.                                                               *)

OwnersMove == {"SUBMITTED", "CANCELLED"}

\* A pending cancellation was asked for by the owner; the ownership read
\* before the transaction cannot go stale, for an owner never changes.
CallersOwn ==
  \A s \in Sessions :
    call[s].kind = "status" /\ call[s].target \in OwnersMove
      => call[s].actor = owner[call[s].request]

LEMMA BeginOwner ==
  ASSUME IInv, OnlyTheOwner, CallersOwn, NEW s \in Sessions, NEW c, Begin(s, c),
         c.kind = "status" /\ c.target \in OwnersMove => c.actor = owner[c.request]
  PROVE  OnlyTheOwner' /\ CallersOwn'
<1>1. OnlyTheOwner'
  BY DEF OnlyTheOwner, Begin, rowVars, logVars
<1>2. call' = [call EXCEPT ![s] = c] /\ owner' = owner
  BY DEF Begin, rowVars
<1>3. ASSUME NEW t \in Sessions, call'[t].kind = "status", call'[t].target \in OwnersMove
      PROVE  call'[t].actor = owner[call'[t].request]
  <2>1. CASE t = s
    BY <1>2, <1>3, <2>1 DEF IInv, TypeOK
  <2>2. CASE t # s
    BY <1>2, <1>3, <2>2 DEF IInv, TypeOK, CallersOwn
  <2> QED BY <2>1, <2>2
<1> QED BY <1>1, <1>2, <1>3 DEF CallersOwn

LEMMA ReturnOwner ==
  ASSUME IInv, CallersOwn, NEW s \in Sessions, Return(s),
         \A r \in Requests : Exists(r) => owner'[r] = owner[r]
  PROVE  CallersOwn'
<1>1. call' = [call EXCEPT ![s] = Idle]
  BY DEF Return
<1>2. ASSUME NEW t \in Sessions, call'[t].kind = "status", call'[t].target \in OwnersMove
      PROVE  call'[t].actor = owner'[call'[t].request]
  <2>1. t # s /\ call'[t] = call[t]
    BY <1>1, <1>2, IdleIsACall DEF IInv, TypeOK
  <2>2. call[t].request \in Requests /\ Exists(call[t].request)
    BY <1>2, <2>1, CallKinds DEF IInv, TypeOK, CallsOK
  <2> QED BY <1>2, <2>1, <2>2 DEF CallersOwn
<1> QED BY <1>2 DEF CallersOwn

\* A commit that appends one row, by the owner if the move is the owner's.
LEMMA RecordOwner ==
  ASSUME IInv, OnlyTheOwner, NEW r \in Requests, NEW row,
         history' = [history EXCEPT ![r] = Append(@, row)],
         \A q \in Requests : history[q] # <<>> => owner'[q] = owner[q],
         row.new \in OwnersMove => row.by = owner'[r]
  PROVE  OnlyTheOwner'
<1> SUFFICES ASSUME NEW q \in Requests, NEW i \in DOMAIN history'[q],
                    history'[q][i].new \in OwnersMove
             PROVE  history'[q][i].by = owner'[q]
  BY DEF OnlyTheOwner, OwnersMove
<1>1. history[q] \in Seq(HistoryRow) /\ history[r] \in Seq(HistoryRow)
  BY DEF IInv, TypeOK
<1>2. CASE i \in DOMAIN history[q] /\ history'[q][i] = history[q][i]
  <2>1. history[q] # <<>>
    BY <1>2
  <2> QED BY <1>2, <2>1 DEF OnlyTheOwner, OwnersMove
<1>3. CASE q # r
  <2>1. history'[q] = history[q]
    BY <1>3 DEF IInv, TypeOK
  <2> QED BY <1>2, <2>1
<1>4. CASE q = r
  <2>1. history'[r] = Append(history[r], row)
    BY DEF IInv, TypeOK
  <2>2. \/ i \in DOMAIN history[r] /\ history'[r][i] = history[r][i]
        \/ history'[r][i] = row
    BY <1>1, <1>4, <2>1
  <2> QED BY <1>2, <1>4, <2>2
<1> QED BY <1>3, <1>4

LEMMA OwnerNext ==
  IInv /\ HistoryIsAPath /\ OnlyTheOwner /\ CallersOwn /\ [Next]_vars
    => OnlyTheOwner' /\ CallersOwn'
<1> SUFFICES ASSUME IInv, HistoryIsAPath, OnlyTheOwner, CallersOwn, [Next]_vars
             PROVE  OnlyTheOwner' /\ CallersOwn'
  OBVIOUS
<1>1. CASE Tick \/ UNCHANGED vars
  BY <1>1 DEF Tick, vars, rowVars, logVars, OnlyTheOwner, CallersOwn
<1>2. ASSUME NEW s \in Sessions, NEW r \in Requests, NEW actor, NEW target, NEW allowed,
             workflowAction(s, r, actor, target, allowed),
             target \in OwnersMove => actor = owner[r]
      PROVE  OnlyTheOwner' /\ CallersOwn'
  BY <1>2, BeginOwner DEF workflowAction
<1>3. ASSUME NEW s \in Sessions,
             \/ StartScan(s)
             \/ \E u \in Students, t \in Titles : CreateAcademicRequest(s, u, t)
             \/ \E r \in Requests, u \in Students :
                  \/ SubmitAcademicRequest(s, r, u)
                  \/ \E t \in Titles : UpdateAcademicRequest(s, r, u, t)
      PROVE  OnlyTheOwner' /\ CallersOwn'
  <2>1. ASSUME NEW c, Begin(s, c), c.kind # "status"
        PROVE  OnlyTheOwner' /\ CallersOwn'
    BY <2>1, BeginOwner
  <2>2. StartScan(s) => OnlyTheOwner' /\ CallersOwn'
    BY <2>1 DEF StartScan
  <2>3. ASSUME NEW u \in Students, NEW t \in Titles
        PROVE  CreateAcademicRequest(s, u, t) => OnlyTheOwner' /\ CallersOwn'
    BY <2>1 DEF CreateAcademicRequest
  <2>4. ASSUME NEW r \in Requests, NEW u \in Students
        PROVE  SubmitAcademicRequest(s, r, u) => OnlyTheOwner' /\ CallersOwn'
    BY <2>1 DEF SubmitAcademicRequest
  <2>5. ASSUME NEW r \in Requests, NEW u \in Students, NEW t \in Titles
        PROVE  UpdateAcademicRequest(s, r, u, t) => OnlyTheOwner' /\ CallersOwn'
    BY <2>1 DEF UpdateAcademicRequest
  <2> QED BY <1>3, <2>2, <2>3, <2>4, <2>5
<1>4. ASSUME NEW s \in Sessions, NEW r \in Requests,
             \/ VerifyAcademicRequest(s, r)
             \/ ApproveAcademicRequest(s, r)
             \/ RejectAcademicRequest(s, r)
             \/ CompleteAcademicRequest(s, r)
             \/ RequestRevisionAcademicRequest(s, r)
      PROVE  OnlyTheOwner' /\ CallersOwn'
  BY <1>2, <1>4 DEF VerifyAcademicRequest, ApproveAcademicRequest,
                    RejectAcademicRequest, CompleteAcademicRequest,
                    RequestRevisionAcademicRequest, OwnersMove
<1>5. ASSUME NEW s \in Sessions, NEW r \in Requests, NEW u \in Students,
             CancelAcademicRequest(s, r, u)
      PROVE  OnlyTheOwner' /\ CallersOwn'
  BY <1>2, <1>5 DEF CancelAcademicRequest, verifyOwnership
<1>6. ASSUME NEW s \in Sessions,
             \/ Rollback(s)
             \/ UpdateAcademicRequestFields(s)
             \/ \E items \in SUBSET Requests : scanAndEmit(s, items)
      PROVE  OnlyTheOwner' /\ CallersOwn'
  <2>1. Return(s) /\ UNCHANGED <<owner, history>>
    BY <1>6 DEF Rollback, UpdateAcademicRequestFields, scanAndEmit, rowVars, logVars
  <2> QED BY <2>1, ReturnOwner DEF OnlyTheOwner
<1>7. ASSUME NEW s \in Sessions, NEW r \in Requests, InsertAcademicRequest(s, r)
      PROVE  OnlyTheOwner' /\ CallersOwn'
  <2> DEFINE row == [old |-> Null, new |-> "SUBMITTED", by |-> call[s].actor,
                     at |-> call[s].at, content |-> call[s].title]
  <2>1. history' = [history EXCEPT ![r] = Append(@, row)]
    BY <1>7 DEF InsertAcademicRequest, Record
  <2>2. ~Exists(r) /\ history[r] = <<>>
    BY <1>7 DEF InsertAcademicRequest, HistoryIsAPath
  <2>3. owner' = [owner EXCEPT ![r] = call[s].actor]
    BY <1>7 DEF InsertAcademicRequest
  <2>4. /\ owner'[r] = call[s].actor
        /\ \A q \in Requests : q # r => owner'[q] = owner[q]
    BY <2>3 DEF IInv, TypeOK
  <2>5. row.by = owner'[r]
    BY <2>4
  <2> HIDE DEF row
  <2>6. OnlyTheOwner'
    BY <2>1, <2>2, <2>4, <2>5, RecordOwner
  <2>7. CallersOwn'
    BY <1>7, <2>2, <2>4, ReturnOwner DEF InsertAcademicRequest
  <2> QED BY <2>6, <2>7
<1>8. ASSUME NEW s \in Sessions, UpdateAcademicRequestStatus(s)
      PROVE  OnlyTheOwner' /\ CallersOwn'
  <2> DEFINE c == call[s]
             row == [old |-> status[c.request], new |-> c.target, by |-> c.actor,
                     at |-> c.at, content |-> title[c.request]]
  <2>1. c.request \in Requests /\ c.kind = "status"
    BY <1>8, CallKinds DEF UpdateAcademicRequestStatus, IInv, TypeOK
  <2>2. history' = [history EXCEPT ![c.request] = Append(@, row)] /\ owner' = owner
    BY <1>8 DEF UpdateAcademicRequestStatus, Record
  <2>3. row.new \in OwnersMove => row.by = owner[c.request]
    BY <2>1 DEF CallersOwn
  <2>4. CallersOwn'
    BY <1>8, <2>2, ReturnOwner DEF UpdateAcademicRequestStatus
  <2> HIDE DEF row, c
  <2> QED BY <2>1, <2>2, <2>3, <2>4, RecordOwner
<1>9. ASSUME NEW s \in Sessions, ResubmitAcademicRequest(s)
      PROVE  OnlyTheOwner' /\ CallersOwn'
  <2> DEFINE c == call[s]
             row == [old |-> status[c.request], new |-> "SUBMITTED", by |-> c.actor,
                     at |-> c.at, content |-> title[c.request]]
  <2>1. c.request \in Requests
    BY <1>9, CallKinds DEF ResubmitAcademicRequest, IInv, TypeOK
  <2>2. history' = [history EXCEPT ![c.request] = Append(@, row)] /\ owner' = owner
    BY <1>9 DEF ResubmitAcademicRequest, Record
  <2>3. row.by = owner[c.request]
    BY <1>9 DEF ResubmitAcademicRequest
  <2>4. CallersOwn'
    BY <1>9, <2>2, ReturnOwner DEF ResubmitAcademicRequest
  <2> HIDE DEF row, c
  <2> QED BY <2>1, <2>2, <2>3, <2>4, RecordOwner
<1> QED BY <1>1, <1>3, <1>4, <1>5, <1>6, <1>7, <1>8, <1>9 DEF Next

\* Only the owner of a request ever submits or cancels it, although ownership
\* is read in a transaction of its own, before the one that acts on it.
THEOREM OwnershipKept == Spec => []OnlyTheOwner
<1>1. Init => OnlyTheOwner /\ CallersOwn
  BY IdleIsACall DEF Init, OnlyTheOwner, CallersOwn
<1> QED BY IInvHolds, HistoryUnbroken, OwnerNext, <1>1, PTL DEF Spec

-----------------------------------------------------------------------------
(* The reminders.                                                           *)

\* An event of a closing kind is only in the outbox of a closed request.
ClosedStays ==
  \A r \in Requests : \A l \in DOMAIN outbox[r] :
    outbox[r][l].status \in Closed => status[r] \in Closed

LEMMA Appended ==
  ASSUME NEW seq \in Seq(OutboxRow), NEW e, NEW i \in DOMAIN Append(seq, e)
  PROVE  /\ i \in Nat
         /\ \/ i \in DOMAIN seq /\ i < Len(seq) + 1 /\ Append(seq, e)[i] = seq[i]
            \/ i = Len(seq) + 1 /\ Append(seq, e)[i] = e
  OBVIOUS

\* No status change starts from a closed status.
LEMMA ClosedIsTerminal ==
  ASSUME NEW to, NEW from \in AllowedFrom(AcademicTransitions, to)
  PROVE  from \notin Closed
  BY DEF AllowedFrom, AcademicTransitions, Closed

\* The event of a transition is no reminder and carries the new status.
LEMMA RecordReminders ==
  ASSUME IInv, WarningsSpaced, NoWarningOnceClosed, ClosedStays,
         NEW r \in Requests, NEW e, ~IsWarning(e), status[r] \notin Closed,
         outbox' = [outbox EXCEPT ![r] = Append(@, e)],
         status' = [status EXCEPT ![r] = e.status], warnedAt' = warnedAt
  PROVE  WarningsSpaced' /\ NoWarningOnceClosed' /\ ClosedStays'
<1> DEFINE old == outbox[r]
           n   == Len(outbox[r]) + 1
<1>0. old \in Seq(OutboxRow) /\ outbox'[r] = Append(old, e) /\ status'[r] = e.status
  BY DEF IInv, TypeOK
<1>1. ASSUME NEW q \in Requests, q # r
      PROVE  outbox'[q] = outbox[q] /\ status'[q] = status[q]
  BY <1>1 DEF IInv, TypeOK
<1>2. ASSUME NEW i \in DOMAIN outbox'[r]
      PROVE  \/ i \in DOMAIN old /\ i < n /\ outbox'[r][i] = old[i]
             \/ i = n /\ outbox'[r][i] = e
  BY <1>0, <1>2, Appended
<1>3. \A i \in DOMAIN old : old[i].status \notin Closed
  BY DEF ClosedStays
<1> HIDE DEF n
<1>4. WarningsSpaced'
  <2> SUFFICES ASSUME NEW q \in Requests
               PROVE  /\ \A k, l \in DOMAIN outbox'[q] :
                           k < l /\ IsWarning(outbox'[q][k]) /\ IsWarning(outbox'[q][l])
                             => outbox'[q][l].at > outbox'[q][k].at + WarnGap
                      /\ \A k \in DOMAIN outbox'[q] : IsWarning(outbox'[q][k])
                           => warnedAt[q] # Null /\ outbox'[q][k].at <= warnedAt[q]
    BY DEF WarningsSpaced, IsWarning
  <2>1. CASE q # r
    BY <1>1, <2>1 DEF WarningsSpaced
  <2>2. CASE q = r
    <3>1. \A i \in DOMAIN outbox'[r] : IsWarning(outbox'[r][i])
            => i \in DOMAIN old /\ outbox'[r][i] = old[i]
      BY <1>2
    <3> QED BY <3>1, <2>2 DEF WarningsSpaced
  <2> QED BY <2>1, <2>2
<1>5. NoWarningOnceClosed'
  <2> SUFFICES ASSUME NEW q \in Requests, NEW k \in DOMAIN outbox'[q],
                      NEW l \in DOMAIN outbox'[q], IsWarning(outbox'[q][k]),
                      outbox'[q][l].status \in Closed
               PROVE  k < l
    BY DEF NoWarningOnceClosed, IsWarning
  <2>1. CASE q # r
    BY <1>1, <2>1 DEF NoWarningOnceClosed
  <2>2. CASE q = r
    <3>1. l = n
      BY <1>2, <1>3, <2>2
    <3>2. k < n
      BY <1>2, <2>2
    <3> QED BY <3>1, <3>2
  <2> QED BY <2>1, <2>2
<1>6. ClosedStays'
  <2> SUFFICES ASSUME NEW q \in Requests, NEW l \in DOMAIN outbox'[q],
                      outbox'[q][l].status \in Closed
               PROVE  status'[q] \in Closed
    BY DEF ClosedStays
  <2>1. CASE q # r
    BY <1>1, <2>1 DEF ClosedStays
  <2>2. CASE q = r
    BY <1>0, <1>2, <1>3, <2>2
  <2> QED BY <2>1, <2>2
<1> QED BY <1>4, <1>5, <1>6

\* A scan warns only open requests whose last warning is older than the gap.
LEMMA ScanReminders ==
  ASSUME IInv, WarningsSpaced, NoWarningOnceClosed, ClosedStays,
         NEW s \in Sessions, NEW items \in SUBSET Requests, scanAndEmit(s, items)
  PROVE  WarningsSpaced' /\ NoWarningOnceClosed' /\ ClosedStays'
<1> DEFINE now   == call[s].at
           ev(r) == Event(0, "academic_request.sla_warning", status[r], now)
<1>0. now \in Nat /\ status' = status
  BY CallKinds DEF scanAndEmit, IInv, TypeOK, Time
<1>1. ASSUME NEW q \in Requests, q \notin items
      PROVE  outbox'[q] = outbox[q] /\ warnedAt'[q] = warnedAt[q]
  BY <1>1 DEF scanAndEmit
<1>2. ASSUME NEW q \in items
      PROVE  /\ outbox[q] \in Seq(OutboxRow)
             /\ outbox'[q] = Append(outbox[q], ev(q)) /\ warnedAt'[q] = now
             /\ status[q] \notin Closed
             /\ warnedAt[q] # Null => warnedAt[q] \in Nat /\ warnedAt[q] < now - WarnGap
  BY <1>2 DEF scanAndEmit, NeedsWarning, IInv, TypeOK, Time
<1>3. ASSUME NEW q \in items, NEW i \in DOMAIN outbox'[q]
      PROVE  \/ i \in DOMAIN outbox[q] /\ i < Len(outbox[q]) + 1
                /\ outbox'[q][i] = outbox[q][i]
             \/ i = Len(outbox[q]) + 1 /\ outbox'[q][i] = ev(q)
  BY <1>2, <1>3, Appended
<1>4. ASSUME NEW q \in Requests
      PROVE  ev(q).at = now /\ ev(q).status = status[q]
  BY DEF Event
<1> HIDE DEF ev
<1>5. ASSUME NEW q \in items, NEW i \in DOMAIN outbox[q], IsWarning(outbox[q][i])
      PROVE  outbox[q][i].at \in Nat /\ now > outbox[q][i].at + WarnGap
  <2>1. outbox[q][i] \in OutboxRow
    BY <1>2, <1>5
  <2>2. outbox[q][i].at \in Nat
    BY <2>1 DEF OutboxRow, Time
  <2>3. warnedAt[q] # Null /\ outbox[q][i].at <= warnedAt[q]
    BY <1>5 DEF WarningsSpaced
  <2>4. warnedAt[q] \in Nat /\ warnedAt[q] < now - WarnGap
    BY <1>2, <2>3
  <2>5. now \in Nat /\ WarnGap \in Nat
    BY <1>0, TimingAssumption
  <2> HIDE DEF now
  <2> QED BY <2>2, <2>3, <2>4, <2>5
<1>6. WarningsSpaced'
  <2> SUFFICES ASSUME NEW q \in Requests
               PROVE  /\ \A k, l \in DOMAIN outbox'[q] :
                           k < l /\ IsWarning(outbox'[q][k]) /\ IsWarning(outbox'[q][l])
                             => outbox'[q][l].at > outbox'[q][k].at + WarnGap
                      /\ \A k \in DOMAIN outbox'[q] : IsWarning(outbox'[q][k])
                           => warnedAt'[q] # Null /\ outbox'[q][k].at <= warnedAt'[q]
    BY DEF WarningsSpaced, IsWarning
  <2>1. CASE q \notin items
    BY <1>1, <2>1 DEF WarningsSpaced
  <2>2. CASE q \in items
    <3>1. ASSUME NEW k \in DOMAIN outbox'[q], NEW l \in DOMAIN outbox'[q], k < l,
                 IsWarning(outbox'[q][k]), IsWarning(outbox'[q][l])
          PROVE  outbox'[q][l].at > outbox'[q][k].at + WarnGap
      <4>1. k \in DOMAIN outbox[q] /\ outbox'[q][k] = outbox[q][k]
        <5>1. l \in Nat /\ k \in Nat /\ l <= Len(outbox[q]) + 1 /\ Len(outbox[q]) \in Nat
          BY <1>2, <2>2
        <5>2. k # Len(outbox[q]) + 1
          BY <3>1, <5>1
        <5> QED BY <1>3, <2>2, <5>2
      <4>2. CASE l \in DOMAIN outbox[q] /\ outbox'[q][l] = outbox[q][l]
        BY <3>1, <4>1, <4>2 DEF WarningsSpaced
      <4>3. CASE outbox'[q][l] = ev(q)
        BY <1>4, <1>5, <2>2, <3>1, <4>1, <4>3
      <4> QED BY <1>3, <2>2, <4>2, <4>3
    <3>2. ASSUME NEW k \in DOMAIN outbox'[q], IsWarning(outbox'[q][k])
          PROVE  warnedAt'[q] # Null /\ outbox'[q][k].at <= warnedAt'[q]
      <4>1. warnedAt'[q] = now /\ now # Null
        BY <1>0, <1>2, <2>2, NamesAssumption
      <4>2. outbox'[q][k].at <= now
        BY <1>0, <1>3, <1>4, <1>5, <2>2, <3>2, TimingAssumption
      <4> QED BY <4>1, <4>2
    <3> QED BY <3>1, <3>2
  <2> QED BY <2>1, <2>2
<1>7. ASSUME NEW q \in items, NEW l \in DOMAIN outbox'[q]
      PROVE  outbox'[q][l].status \notin Closed
  BY <1>2, <1>3, <1>4, <1>7 DEF ClosedStays
<1>8. NoWarningOnceClosed'
  <2> SUFFICES ASSUME NEW q \in Requests, NEW k \in DOMAIN outbox'[q],
                      NEW l \in DOMAIN outbox'[q], IsWarning(outbox'[q][k]),
                      outbox'[q][l].status \in Closed
               PROVE  k < l
    BY DEF NoWarningOnceClosed, IsWarning
  <2>1. q \notin items
    BY <1>7
  <2> QED BY <1>1, <2>1 DEF NoWarningOnceClosed
<1>9. ClosedStays'
  <2> SUFFICES ASSUME NEW q \in Requests, NEW l \in DOMAIN outbox'[q],
                      outbox'[q][l].status \in Closed
               PROVE  status[q] \in Closed
    BY <1>0 DEF ClosedStays
  <2>1. q \notin items
    BY <1>7
  <2> QED BY <1>1, <2>1 DEF ClosedStays
<1> QED BY <1>6, <1>8, <1>9

LEMMA ReminderNext ==
  IInv /\ WarningsSpaced /\ NoWarningOnceClosed /\ ClosedStays /\ [Next]_vars
    => WarningsSpaced' /\ NoWarningOnceClosed' /\ ClosedStays'
<1> SUFFICES ASSUME IInv, WarningsSpaced, NoWarningOnceClosed, ClosedStays, [Next]_vars
             PROVE  WarningsSpaced' /\ NoWarningOnceClosed' /\ ClosedStays'
  OBVIOUS
<1>1. CASE UNCHANGED <<status, outbox, warnedAt>>
  BY <1>1 DEF WarningsSpaced, NoWarningOnceClosed, ClosedStays, IsWarning
<1>2. ASSUME NEW s \in Sessions, NEW r \in Requests, InsertAcademicRequest(s, r)
      PROVE  WarningsSpaced' /\ NoWarningOnceClosed' /\ ClosedStays'
  <2> DEFINE e == Event(Len(history[r]) + 1, "academic_request.created", "SUBMITTED",
                        call[s].at)
  <2>1. e.status = "SUBMITTED" /\ ~IsWarning(e)
    BY DEF Event, IsWarning
  <2>2. /\ outbox' = [outbox EXCEPT ![r] = Append(@, e)]
        /\ status' = [status EXCEPT ![r] = "SUBMITTED"] /\ warnedAt' = warnedAt
        /\ status[r] \notin Closed
    BY <1>2 DEF InsertAcademicRequest, Record, Exists, Closed
  <2> HIDE DEF e
  <2> QED BY <2>1, <2>2, RecordReminders
<1>3. ASSUME NEW s \in Sessions, UpdateAcademicRequestStatus(s)
      PROVE  WarningsSpaced' /\ NoWarningOnceClosed' /\ ClosedStays'
  <2> DEFINE c == call[s]
             e == Event(Len(history[c.request]) + 1, academicRequestEventType(c.target),
                        c.target, c.at)
  <2>1. /\ c.request \in Requests /\ c.target \in AcademicStatus
        /\ c.allowed \subseteq AllowedFrom(AcademicTransitions, c.target)
    BY <1>3, CallKinds DEF UpdateAcademicRequestStatus, IInv, TypeOK, CallsOK
  <2>2. e.status = c.target /\ ~IsWarning(e)
    BY DEF Event, IsWarning, academicRequestEventType
  <2>3. status[c.request] \notin Closed
    BY <1>3, <2>1, ClosedIsTerminal DEF UpdateAcademicRequestStatus, isStatusAllowed
  <2>4. /\ outbox' = [outbox EXCEPT ![c.request] = Append(@, e)]
        /\ status' = [status EXCEPT ![c.request] = c.target] /\ warnedAt' = warnedAt
    BY <1>3 DEF UpdateAcademicRequestStatus, Record
  <2> HIDE DEF e, c
  <2> QED BY <2>1, <2>2, <2>3, <2>4, RecordReminders
<1>4. ASSUME NEW s \in Sessions, ResubmitAcademicRequest(s)
      PROVE  WarningsSpaced' /\ NoWarningOnceClosed' /\ ClosedStays'
  <2> DEFINE c == call[s]
             e == Event(Len(history[c.request]) + 1, "academic_request.submitted",
                        "SUBMITTED", c.at)
  <2>1. c.request \in Requests
    BY <1>4, CallKinds DEF ResubmitAcademicRequest, IInv, TypeOK
  <2>2. e.status = "SUBMITTED" /\ ~IsWarning(e)
    BY DEF Event, IsWarning
  <2>3. status[c.request] \notin Closed
    BY <1>4, ClosedIsTerminal DEF ResubmitAcademicRequest, isStatusAllowed
  <2>4. /\ outbox' = [outbox EXCEPT ![c.request] = Append(@, e)]
        /\ status' = [status EXCEPT ![c.request] = "SUBMITTED"] /\ warnedAt' = warnedAt
    BY <1>4 DEF ResubmitAcademicRequest, Record
  <2> HIDE DEF e, c
  <2> QED BY <2>1, <2>2, <2>3, <2>4, RecordReminders
<1>5. \/ UNCHANGED <<status, outbox, warnedAt>>
      \/ \E s \in Sessions :
           \/ \E r \in Requests : InsertAcademicRequest(s, r)
           \/ UpdateAcademicRequestStatus(s)
           \/ ResubmitAcademicRequest(s)
           \/ \E items \in SUBSET Requests : scanAndEmit(s, items)
  BY DEF Next, vars, rowVars, logVars, Tick, StartScan, Begin,
         VerifyAcademicRequest, ApproveAcademicRequest, RejectAcademicRequest,
         CompleteAcademicRequest, RequestRevisionAcademicRequest,
         CancelAcademicRequest, workflowAction, SubmitAcademicRequest,
         UpdateAcademicRequest, CreateAcademicRequest,
         UpdateAcademicRequestFields, Rollback
<1> QED BY <1>1, <1>2, <1>3, <1>4, <1>5, ScanReminders

LEMMA RemindersHold == Spec => [](WarningsSpaced /\ NoWarningOnceClosed /\ ClosedStays)
<1>1. Init => WarningsSpaced /\ NoWarningOnceClosed /\ ClosedStays
  BY DEF Init, WarningsSpaced, NoWarningOnceClosed, ClosedStays
<1> QED BY IInvHolds, ReminderNext, <1>1, PTL DEF Spec

\* However many replicas of the worker scan at once, two reminders of one
\* request lie further apart than the gap.
THEOREM RemindersApart == Spec => []WarningsSpaced
  BY RemindersHold, PTL

\* No reminder follows the end of its request into the outbox.
THEOREM NoReminderAfterTheEnd == Spec => []NoWarningOnceClosed
  BY RemindersHold, PTL

-----------------------------------------------------------------------------
(***************************************************************************)
(* What is recorded next to the status of a request: the SLA timestamps,   *)
(* the content under review, the approvals ledger and the events.  All of  *)
(* it builds on the inductive invariant and on the history theorem.        *)
(***************************************************************************)

-----------------------------------------------------------------------------
(* The moves of the table and the steps that write.                         *)

LEMMA Moves ==
  ASSUME NEW to, NEW from \in AllowedFrom(AcademicTransitions, to)
  PROVE  \/ to = "SUBMITTED" /\ from \in {"DRAFT", "REVISION_REQUIRED"}
         \/ to = "CANCELLED" /\ from \in {"DRAFT", "SUBMITTED", "REVISION_REQUIRED"}
         \/ to \in {"VERIFIED", "REVISION_REQUIRED"} /\ from = "SUBMITTED"
         \/ to \in {"APPROVED", "REJECTED"} /\ from = "VERIFIED"
         \/ to = "COMPLETED" /\ from = "APPROVED"
  BY DEF AllowedFrom, AcademicTransitions

LEMMA WritingSteps ==
  ASSUME [Next]_vars
  PROVE  \/ UNCHANGED <<status, title, stamp, history, approvals, outbox>>
         \/ \E s \in Sessions :
              \/ \E r \in Requests : InsertAcademicRequest(s, r)
              \/ UpdateAcademicRequestStatus(s)
              \/ ResubmitAcademicRequest(s)
              \/ UpdateAcademicRequestFields(s)
              \/ \E items \in SUBSET Requests : scanAndEmit(s, items)
  BY DEF Next, vars, rowVars, logVars, Tick, StartScan, Begin,
         VerifyAcademicRequest, ApproveAcademicRequest, RejectAcademicRequest,
         CompleteAcademicRequest, RequestRevisionAcademicRequest,
         CancelAcademicRequest, workflowAction, SubmitAcademicRequest,
         UpdateAcademicRequest, CreateAcademicRequest, Rollback

\* What the two commits of a status change have in common.
LEMMA StatusCommit ==
  ASSUME IInv, NEW s \in Sessions, UpdateAcademicRequestStatus(s)
  PROVE  /\ call[s] \in Call /\ call[s].kind = "status" /\ call[s].request \in Requests
         /\ call[s].target \in AcademicStatus /\ call[s].at \in Time /\ call[s].actor \in Actors
         /\ status[call[s].request] \in AllowedFrom(AcademicTransitions, call[s].target)
         /\ Exists(call[s].request)
  BY CallKinds DEF UpdateAcademicRequestStatus, isStatusAllowed, IInv, TypeOK, CallsOK

LEMMA ResubmitCommit ==
  ASSUME IInv, NEW s \in Sessions, ResubmitAcademicRequest(s)
  PROVE  /\ call[s].request \in Requests /\ call[s].at \in Time
         /\ status[call[s].request] \in {"DRAFT", "REVISION_REQUIRED"}
         /\ Exists(call[s].request)
<1>1. /\ call[s].request \in Requests /\ call[s].at \in Time /\ Exists(call[s].request)
      /\ status[call[s].request] \in AllowedFrom(AcademicTransitions, "SUBMITTED")
  BY CallKinds DEF ResubmitAcademicRequest, isStatusAllowed, IInv, TypeOK, CallsOK
<1> QED BY <1>1, Moves

-----------------------------------------------------------------------------
(* The timestamps.                                                          *)

\* The part of StampsMatchStatus about one request.
StampsOf(r) ==
  /\ stamp[r]["SUBMITTED"] # Null <=> Exists(r)
  /\ stamp[r]["VERIFIED"]  # Null
       <=> status[r] \in {"VERIFIED", "APPROVED", "REJECTED", "COMPLETED"}
  /\ stamp[r]["APPROVED"]  # Null <=> status[r] \in {"APPROVED", "COMPLETED"}
  /\ stamp[r]["COMPLETED"] # Null <=> status[r] = "COMPLETED"

LEMMA StampsNext == IInv /\ StampsMatchStatus /\ [Next]_vars => StampsMatchStatus'
<1> SUFFICES ASSUME IInv, StampsMatchStatus, [Next]_vars PROVE StampsMatchStatus'
  OBVIOUS
<1>1. \A q \in Requests : StampsOf(q)
  BY DEF StampsMatchStatus, StampsOf
<1> SUFFICES \A q \in Requests : StampsOf(q)'
  BY DEF StampsMatchStatus, StampsOf
<1>2. CASE UNCHANGED <<status, stamp>>
  BY <1>1, <1>2 DEF StampsOf, Exists
<1>3. \A at \in Time : at # Null
  BY NamesAssumption DEF Time
<1>4. ASSUME NEW r \in Requests, NEW to, NEW at \in Time,
             status[r] \in AllowedFrom(AcademicTransitions, to),
             status' = [status EXCEPT ![r] = to],
             stamp'[r] = [m \in Milestones |-> IF m = to THEN at ELSE stamp[r][m]],
             \A q \in Requests \ {r} : stamp'[q] = stamp[q]
      PROVE  \A q \in Requests : StampsOf(q)'
  <2>1. status'[r] = to /\ \A q \in Requests \ {r} : status'[q] = status[q]
    BY <1>4 DEF IInv, TypeOK
  <2>2. ASSUME NEW m \in Milestones
        PROVE  stamp'[r][m] = IF m = to THEN at ELSE stamp[r][m]
    BY <1>4
  <2>3. {"SUBMITTED", "VERIFIED", "APPROVED", "COMPLETED"} = Milestones
    BY DEF Milestones
  <2>4. at # Null /\ StampsOf(r)
    BY <1>1, <1>3
  <2>5. StampsOf(r)'
    BY <1>4, <2>1, <2>2, <2>3, <2>4, Moves DEF StampsOf, Exists
  <2>6. ASSUME NEW q \in Requests, q # r PROVE StampsOf(q)'
    BY <1>1, <1>4, <2>1, <2>6 DEF StampsOf, Exists
  <2> QED BY <2>5, <2>6
<1>5. ASSUME NEW s \in Sessions, NEW r \in Requests, InsertAcademicRequest(s, r)
      PROVE  \A q \in Requests : StampsOf(q)'
  <2>1. call[s].at # Null
    BY <1>3, <1>5, CallKinds DEF InsertAcademicRequest, IInv, TypeOK
  <2>2. /\ status[r] = "NONE" /\ status'[r] = "SUBMITTED"
        /\ stamp'[r]["SUBMITTED"] = call[s].at
        /\ \A m \in Milestones \ {"SUBMITTED"} : stamp'[r][m] = stamp[r][m]
        /\ \A q \in Requests \ {r} : status'[q] = status[q] /\ stamp'[q] = stamp[q]
    BY <1>5 DEF InsertAcademicRequest, Exists, IInv, TypeOK, Milestones
  <2>3. StampsOf(r)'
    BY <1>1, <2>1, <2>2 DEF StampsOf, Exists, Milestones
  <2>4. ASSUME NEW q \in Requests, q # r PROVE StampsOf(q)'
    BY <1>1, <2>2, <2>4 DEF StampsOf, Exists
  <2> QED BY <2>3, <2>4
<1>6. ASSUME NEW s \in Sessions, UpdateAcademicRequestStatus(s)
      PROVE  \A q \in Requests : StampsOf(q)'
  <2> DEFINE c == call[s]
  <2>1. /\ c.request \in Requests /\ c.at \in Time
        /\ status[c.request] \in AllowedFrom(AcademicTransitions, c.target)
    BY <1>6, StatusCommit
  <2>2. /\ status' = [status EXCEPT ![c.request] = c.target]
        /\ stamp'[c.request] = [m \in Milestones |->
                                  IF m = c.target THEN c.at ELSE stamp[c.request][m]]
        /\ \A q \in Requests \ {c.request} : stamp'[q] = stamp[q]
    BY <1>6, <2>1 DEF UpdateAcademicRequestStatus, IInv, TypeOK
  <2> QED BY <1>4, <2>1, <2>2
<1>7. ASSUME NEW s \in Sessions, ResubmitAcademicRequest(s)
      PROVE  \A q \in Requests : StampsOf(q)'
  <2>1. PICK r \in Requests, at \in Time :
          /\ r = call[s].request /\ at = call[s].at
          /\ status[r] \in {"DRAFT", "REVISION_REQUIRED"}
    BY <1>7, ResubmitCommit
  <2>2. /\ status'[r] = "SUBMITTED"
        /\ stamp'[r]["SUBMITTED"] = at
        /\ \A m \in Milestones \ {"SUBMITTED"} : stamp'[r][m] = stamp[r][m]
        /\ \A q \in Requests \ {r} : status'[q] = status[q] /\ stamp'[q] = stamp[q]
    BY <1>7, <2>1 DEF ResubmitAcademicRequest, IInv, TypeOK, Milestones
  <2>3. StampsOf(r)'
    BY <1>1, <1>3, <2>1, <2>2 DEF StampsOf, Exists, Milestones
  <2>4. ASSUME NEW q \in Requests, q # r PROVE StampsOf(q)'
    BY <1>1, <2>2, <2>4 DEF StampsOf, Exists
  <2> QED BY <2>3, <2>4
<1>8. ASSUME NEW s \in Sessions,
             \/ UpdateAcademicRequestFields(s)
             \/ \E items \in SUBSET Requests : scanAndEmit(s, items)
      PROVE  UNCHANGED <<status, stamp>>
  BY <1>8 DEF UpdateAcademicRequestFields, scanAndEmit
<1> QED BY <1>2, <1>5, <1>6, <1>7, <1>8, WritingSteps

\* The four SLA timestamps tell how far a request has come, whatever the order in
\* which the desks' transactions were begun and committed.
THEOREM StampsTellProgress == Spec => []StampsMatchStatus
<1>1. Init => StampsMatchStatus
  BY DEF Init, StampsMatchStatus, Exists, Milestones
<1> QED BY IInvHolds, StampsNext, <1>1, PTL DEF Spec

-----------------------------------------------------------------------------
(* The content under review.                                                *)

\* No request is ever a DRAFT: nothing of the table leads there.
LEMMA NoDraft ==
  ASSUME IInv, HistoryIsAPath, NEW r \in Requests
  PROVE  status[r] # "DRAFT"
<1> SUFFICES ASSUME status[r] = "DRAFT" PROVE FALSE
  OBVIOUS
<1> DEFINE h == history[r]
           n == Len(history[r])
<1>1. h \in Seq(HistoryRow) /\ n \in Nat
  BY DEF IInv, TypeOK
<1>2. /\ h # <<>> /\ h[1].new = "SUBMITTED" /\ h[n].new = "DRAFT"
      /\ \A i \in 2 .. n : CanTransition(AcademicTransitions, h[i].old, h[i].new)
  BY DEF HistoryIsAPath, Exists, Last
<1>3. n # 0
  BY <1>1, <1>2
<1>4. n \in 2 .. n
  BY <1>1, <1>2, <1>3
<1>5. CanTransition(AcademicTransitions, h[n].old, "DRAFT")
  BY <1>2, <1>4
<1> QED BY <1>5 DEF CanTransition, AcademicTransitions

\* The part of ReviewedAsSubmitted about one request.
ContentOf(r) ==
  /\ \A i \in 2 .. Len(history[r]) :
       history[r][i].old # "REVISION_REQUIRED"
         => history[r][i].content = history[r][i - 1].content
  /\ Exists(r) /\ status[r] # "REVISION_REQUIRED"
       => title[r] = Last(history[r]).content

\* A commit that records the content the row has.
LEMMA ContentRecorded ==
  ASSUME IInv, \A q \in Requests : ContentOf(q), NEW r \in Requests, Exists(r),
         NEW to, status' = [status EXCEPT ![r] = to], title' = title,
         NEW row, row.old = status[r], row.content = title[r],
         history' = [history EXCEPT ![r] = Append(@, row)]
  PROVE  \A q \in Requests : ContentOf(q)'
<1>1. ASSUME NEW q \in Requests, q # r PROVE ContentOf(q)'
  <2>1. history'[q] = history[q] /\ status'[q] = status[q] /\ title'[q] = title[q]
    BY <1>1 DEF IInv, TypeOK
  <2>2. ContentOf(q)
    OBVIOUS
  <2> QED BY <2>1, <2>2 DEF ContentOf, Exists, Last
<1>2. ContentOf(r)'
  <2> DEFINE h == history[r]
             n == Len(history[r])
  <2>1. h \in Seq(HistoryRow) /\ n \in Nat /\ history'[r] = Append(h, row)
    BY DEF IInv, TypeOK
  <2>2. /\ Len(history'[r]) = n + 1 /\ history'[r][n + 1] = row
        /\ \A i \in 1 .. n : history'[r][i] = h[i]
    BY <2>1
  <2>3. /\ \A i \in 2 .. n : h[i].old # "REVISION_REQUIRED" => h[i].content = h[i - 1].content
        /\ status[r] # "REVISION_REQUIRED" => title[r] = h[n].content
    BY DEF ContentOf, Last
  <2> HIDE DEF h, n
  <2>4. ASSUME NEW i \in 2 .. n + 1, history'[r][i].old # "REVISION_REQUIRED"
        PROVE  history'[r][i].content = history'[r][i - 1].content
    <3>1. CASE i = n + 1
      <4>1. history'[r][i] = row /\ history'[r][i - 1] = h[n]
        <5>1. i - 1 = n /\ n \in 1 .. n
          BY <2>1, <3>1
        <5> QED BY <2>2, <3>1, <5>1
      <4> QED BY <2>3, <2>4, <4>1
    <3>2. CASE i # n + 1
      <4>1. i \in 2 .. n /\ i - 1 \in 1 .. n /\ i \in 1 .. n
        BY <2>1, <3>2
      <4>2. history'[r][i] = h[i] /\ history'[r][i - 1] = h[i - 1]
        BY <2>2, <4>1
      <4> QED BY <2>3, <2>4, <4>1, <4>2
    <3> QED BY <3>1, <3>2
  <2>5. title'[r] = Last(history'[r]).content
    BY <2>2 DEF Last
  <2> QED BY <2>2, <2>4, <2>5 DEF ContentOf, Last
<1> QED BY <1>1, <1>2

LEMMA ContentNext ==
  IInv /\ HistoryIsAPath /\ ReviewedAsSubmitted /\ [Next]_vars => ReviewedAsSubmitted'
<1> SUFFICES ASSUME IInv, HistoryIsAPath, ReviewedAsSubmitted, [Next]_vars
             PROVE  ReviewedAsSubmitted'
  OBVIOUS
<1>1. \A q \in Requests : ContentOf(q)
  BY DEF ReviewedAsSubmitted, ContentOf
<1> SUFFICES \A q \in Requests : ContentOf(q)'
  BY DEF ReviewedAsSubmitted, ContentOf
<1>2. CASE UNCHANGED <<status, title, history>>
  BY <1>1, <1>2 DEF ContentOf, Exists, Last
<1>3. ASSUME NEW s \in Sessions, NEW r \in Requests, InsertAcademicRequest(s, r)
      PROVE  \A q \in Requests : ContentOf(q)'
  <2>1. history[r] = <<>>
    BY <1>3 DEF InsertAcademicRequest, HistoryIsAPath
  <2> DEFINE row == [old |-> Null, new |-> "SUBMITTED", by |-> call[s].actor,
                     at |-> call[s].at, content |-> call[s].title]
  <2>2. /\ history' = [history EXCEPT ![r] = Append(@, row)] /\ row.content = call[s].title
        /\ status' = [status EXCEPT ![r] = "SUBMITTED"]
        /\ title' = [title EXCEPT ![r] = call[s].title]
    BY <1>3 DEF InsertAcademicRequest, Record
  <2> HIDE DEF row
  <2>3. history'[r] = <<row>> /\ title'[r] = row.content
    BY <2>1, <2>2 DEF IInv, TypeOK
  <2>4. ContentOf(r)'
    BY <2>3 DEF ContentOf, Last
  <2>5. ASSUME NEW q \in Requests, q # r PROVE ContentOf(q)'
    <3>1. history'[q] = history[q] /\ status'[q] = status[q] /\ title'[q] = title[q]
      BY <2>2, <2>5 DEF IInv, TypeOK
    <3> QED BY <1>1, <3>1 DEF ContentOf, Exists, Last
  <2> QED BY <2>4, <2>5
<1>4. ASSUME NEW s \in Sessions, UpdateAcademicRequestStatus(s)
      PROVE  \A q \in Requests : ContentOf(q)'
  <2> DEFINE c == call[s]
             row == [old |-> status[c.request], new |-> c.target, by |-> c.actor,
                     at |-> c.at, content |-> title[c.request]]
  <2>1. c.request \in Requests /\ Exists(c.request)
    BY <1>4, StatusCommit
  <2>2. /\ status' = [status EXCEPT ![c.request] = c.target] /\ title' = title
        /\ history' = [history EXCEPT ![c.request] = Append(@, row)]
    BY <1>4 DEF UpdateAcademicRequestStatus, Record
  <2>3. row.old = status[c.request] /\ row.content = title[c.request]
    OBVIOUS
  <2> HIDE DEF row, c
  <2> QED BY <1>1, <2>1, <2>2, <2>3, ContentRecorded
<1>5. ASSUME NEW s \in Sessions, ResubmitAcademicRequest(s)
      PROVE  \A q \in Requests : ContentOf(q)'
  <2> DEFINE c == call[s]
             row == [old |-> status[c.request], new |-> "SUBMITTED", by |-> c.actor,
                     at |-> c.at, content |-> title[c.request]]
  <2>1. c.request \in Requests /\ Exists(c.request)
    BY <1>5, ResubmitCommit
  <2>2. /\ status' = [status EXCEPT ![c.request] = "SUBMITTED"] /\ title' = title
        /\ history' = [history EXCEPT ![c.request] = Append(@, row)]
    BY <1>5 DEF ResubmitAcademicRequest, Record
  <2>3. row.old = status[c.request] /\ row.content = title[c.request]
    OBVIOUS
  <2> HIDE DEF row, c
  <2> QED BY <1>1, <2>1, <2>2, <2>3, ContentRecorded
<1>6. ASSUME NEW s \in Sessions, UpdateAcademicRequestFields(s)
      PROVE  \A q \in Requests : ContentOf(q)'
  <2>1. call[s].request \in Requests
    BY <1>6, CallKinds DEF UpdateAcademicRequestFields, IInv, TypeOK
  <2>2. status[call[s].request] = "REVISION_REQUIRED"
    BY <1>6, <2>1, NoDraft DEF UpdateAcademicRequestFields, isStatusAllowed
  <2>3. /\ \A q \in Requests \ {call[s].request} : title'[q] = title[q]
        /\ UNCHANGED <<status, history>>
    BY <1>6, <2>1 DEF UpdateAcademicRequestFields, logVars, IInv, TypeOK
  <2> QED BY <1>1, <2>2, <2>3 DEF ContentOf, Exists, Last
<1>7. ASSUME NEW s \in Sessions, NEW items \in SUBSET Requests, scanAndEmit(s, items)
      PROVE  UNCHANGED <<status, title, history>>
  BY <1>7 DEF scanAndEmit
<1> QED BY <1>2, <1>3, <1>4, <1>5, <1>6, <1>7, WritingSteps

\* What a desk decides about is what the student submitted: an edit that races with
\* the decision changes nothing, however early its ownership was checked.
THEOREM ContentUnderReviewIsFixed == Spec => []ReviewedAsSubmitted
<1>1. Init => ReviewedAsSubmitted
  BY DEF Init, ReviewedAsSubmitted, Exists
<1> QED BY IInvHolds, HistoryUnbroken, ContentNext, <1>1, PTL DEF Spec
-----------------------------------------------------------------------------
(* Which desk asks for what.                                                *)

\* A pending status change is asked for by the desk that may, and never for the
\* status that only creation and resubmission set.
DesksOK ==
  \A s \in Sessions : call[s].kind = "status" =>
    /\ call[s].target # "SUBMITTED"
    /\ call[s].target = "VERIFIED"  => call[s].actor = "ADMIN_PRODI"
    /\ call[s].target = "APPROVED"  => call[s].actor = "KAPRODI"
    /\ call[s].target = "COMPLETED" => call[s].actor = "TATA_USAHA"

LEMMA DesksNext == IInv /\ DesksOK /\ [Next]_vars => DesksOK'
<1> SUFFICES ASSUME IInv, DesksOK, [Next]_vars PROVE DesksOK'
  OBVIOUS
<1>1. CASE Tick \/ UNCHANGED vars
  BY <1>1 DEF Tick, vars, DesksOK
<1>2. ASSUME NEW s \in Sessions, NEW c, call' = [call EXCEPT ![s] = c],
             c.kind = "status" =>
               /\ c.target # "SUBMITTED"
               /\ c.target = "VERIFIED"  => c.actor = "ADMIN_PRODI"
               /\ c.target = "APPROVED"  => c.actor = "KAPRODI"
               /\ c.target = "COMPLETED" => c.actor = "TATA_USAHA"
      PROVE  DesksOK'
  BY <1>2 DEF DesksOK, IInv, TypeOK
<1>3. ASSUME NEW s \in Sessions, NEW r, NEW actor, NEW target, NEW allowed,
             workflowAction(s, r, actor, target, allowed), target # "SUBMITTED",
             target = "VERIFIED"  => actor = "ADMIN_PRODI",
             target = "APPROVED"  => actor = "KAPRODI",
             target = "COMPLETED" => actor = "TATA_USAHA"
      PROVE  DesksOK'
  BY <1>2, <1>3 DEF workflowAction, Begin
<1>4. ASSUME NEW s \in Sessions, NEW r \in Requests,
             \/ VerifyAcademicRequest(s, r)
             \/ ApproveAcademicRequest(s, r)
             \/ RejectAcademicRequest(s, r)
             \/ CompleteAcademicRequest(s, r)
             \/ RequestRevisionAcademicRequest(s, r)
             \/ \E u \in Students : CancelAcademicRequest(s, r, u)
      PROVE  DesksOK'
  BY <1>3, <1>4 DEF VerifyAcademicRequest, ApproveAcademicRequest, RejectAcademicRequest,
     CompleteAcademicRequest, RequestRevisionAcademicRequest, CancelAcademicRequest
<1>5. ASSUME NEW s \in Sessions, NEW c, Begin(s, c), c.kind # "status" PROVE DesksOK'
  BY <1>2, <1>5 DEF Begin
<1>6. ASSUME NEW s \in Sessions,
             \/ StartScan(s)
             \/ \E u \in Students, t \in Titles : CreateAcademicRequest(s, u, t)
             \/ \E r \in Requests, u \in Students :
                  \/ SubmitAcademicRequest(s, r, u)
                  \/ \E t \in Titles : UpdateAcademicRequest(s, r, u, t)
      PROVE  DesksOK'
  <2>1. StartScan(s) => DesksOK'
    BY <1>5 DEF StartScan
  <2>2. ASSUME NEW u \in Students, NEW t \in Titles
        PROVE  CreateAcademicRequest(s, u, t) => DesksOK'
    BY <1>5 DEF CreateAcademicRequest
  <2>3. ASSUME NEW r \in Requests, NEW u \in Students
        PROVE  SubmitAcademicRequest(s, r, u) => DesksOK'
    BY <1>5 DEF SubmitAcademicRequest
  <2>4. ASSUME NEW r \in Requests, NEW u \in Students, NEW t \in Titles
        PROVE  UpdateAcademicRequest(s, r, u, t) => DesksOK'
    BY <1>5 DEF UpdateAcademicRequest
  <2> QED BY <1>6, <2>1, <2>2, <2>3, <2>4
<1>7. ASSUME NEW s \in Sessions, Return(s) PROVE DesksOK'
  BY <1>2, <1>7, IdleIsACall DEF Return
<1>8. ASSUME NEW s \in Sessions,
             \/ Rollback(s)
             \/ UpdateAcademicRequestStatus(s)
             \/ ResubmitAcademicRequest(s)
             \/ UpdateAcademicRequestFields(s)
             \/ \E items \in SUBSET Requests : scanAndEmit(s, items)
             \/ \E r \in Requests : InsertAcademicRequest(s, r)
      PROVE  DesksOK'
  BY <1>7, <1>8 DEF Rollback, UpdateAcademicRequestStatus, ResubmitAcademicRequest,
     UpdateAcademicRequestFields, scanAndEmit, InsertAcademicRequest
<1> QED BY <1>1, <1>4, <1>6, <1>8 DEF Next

LEMMA DesksHold == Spec => []DesksOK
<1>1. Init => DesksOK
  BY IdleIsACall DEF Init, DesksOK
<1> QED BY IInvHolds, DesksNext, <1>1, PTL DEF Spec

-----------------------------------------------------------------------------
(* The approvals ledger.                                                    *)

\* The three decisions of a finished request, and how many of them a status
\* stands for.
Decisions == <<[by |-> "ADMIN_PRODI", action |-> "VERIFIED"],
               [by |-> "KAPRODI",     action |-> "APPROVED"],
               [by |-> "TATA_USAHA",  action |-> "COMPLETED"]>>

Passed(s) == CASE s = "VERIFIED"  -> 1
               [] s = "APPROVED"  -> 2
               [] s = "COMPLETED" -> 3
               [] OTHER           -> 0

\* A ledger that ends with the first k decisions, after requests for revision only.
EndsWith(ledger, k) ==
  /\ Len(ledger) >= k
  /\ \A j \in 1 .. k : ledger[Len(ledger) - k + j] = Decisions[j]
  /\ \A i \in 1 .. Len(ledger) - k : ledger[i].action = "REVISION_REQUIRED"

LedgerOf(r) ==
  status[r] \notin {"REJECTED", "CANCELLED"} => EndsWith(approvals[r], Passed(status[r]))

LedgersOK == \A r \in Requests : LedgerOf(r)

LEMMA OneDecisionMore ==
  ASSUME NEW ledger \in Seq(ApprovalRow), NEW k \in 0 .. 2, EndsWith(ledger, k)
  PROVE  EndsWith(Append(ledger, Decisions[k + 1]), k + 1)
<1> DEFINE n   == Len(ledger)
           d   == Decisions[k + 1]
           new == Append(ledger, d)
<1>1. n \in Nat /\ k \in Nat /\ n >= k
  BY DEF EndsWith
<1>2. Len(new) = n + 1 /\ new[n + 1] = d /\ \A i \in 1 .. n : new[i] = ledger[i]
  OBVIOUS
<1> HIDE DEF n, new
<1>3. (n + 1) - (k + 1) = n - k /\ n + 1 >= k + 1
  BY <1>1
<1>4. ASSUME NEW j \in 1 .. k + 1 PROVE new[n - k + j] = Decisions[j]
  <2>1. CASE j = k + 1
    <3>1. n - k + j = n + 1
      BY <1>1, <2>1
    <3> QED BY <1>2, <2>1, <3>1
  <2>2. CASE j # k + 1
    <3>1. j \in 1 .. k /\ n - k + j \in 1 .. n
      BY <1>1, <2>2
    <3>2. ledger[n - k + j] = Decisions[j]
      BY <3>1 DEF EndsWith, n
    <3> QED BY <1>2, <3>1, <3>2
  <2> QED BY <2>1, <2>2
<1>5. ASSUME NEW i \in 1 .. n - k PROVE new[i].action = "REVISION_REQUIRED"
  <2>1. i \in 1 .. n
    BY <1>1
  <2>2. ledger[i].action = "REVISION_REQUIRED"
    BY DEF EndsWith, n
  <2> QED BY <1>2, <2>1, <2>2
<1>6. EndsWith(new, k + 1)
  BY <1>2, <1>3, <1>4, <1>5 DEF EndsWith
<1> QED BY <1>6 DEF new

LEMMA OneRevisionMore ==
  ASSUME NEW ledger \in Seq(ApprovalRow), NEW row, row.action = "REVISION_REQUIRED",
         EndsWith(ledger, 0)
  PROVE  EndsWith(Append(ledger, row), 0)
<1> DEFINE n   == Len(ledger)
           new == Append(ledger, row)
<1>1. n \in Nat /\ Len(new) = n + 1 /\ new[n + 1] = row /\ \A i \in 1 .. n : new[i] = ledger[i]
  OBVIOUS
<1>2. \A i \in 1 .. n : ledger[i].action = "REVISION_REQUIRED"
  BY <1>1 DEF EndsWith
<1> HIDE DEF n, new
<1>3. ASSUME NEW i \in 1 .. n + 1 PROVE new[i].action = "REVISION_REQUIRED"
  <2>1. i = n + 1 \/ i \in 1 .. n
    BY <1>1
  <2> QED BY <1>1, <1>2, <2>1
<1>4. EndsWith(new, 0)
  BY <1>1, <1>3 DEF EndsWith
<1> QED BY <1>4 DEF new

LEMMA LedgerNext == IInv /\ DesksOK /\ LedgersOK /\ [Next]_vars => LedgersOK'
<1> SUFFICES ASSUME IInv, DesksOK, LedgersOK, [Next]_vars PROVE LedgersOK'
  OBVIOUS
<1>1. CASE UNCHANGED <<status, approvals>>
  BY <1>1 DEF LedgersOK, LedgerOf
<1>2. ASSUME NEW s \in Sessions, UpdateAcademicRequestStatus(s) PROVE LedgersOK'
  <2>1. PICK r \in Requests, to \in AcademicStatus, by \in Actors :
          /\ r = call[s].request /\ to = call[s].target /\ by = call[s].actor
          /\ call[s].kind = "status" /\ status[r] \in AllowedFrom(AcademicTransitions, to)
    BY <1>2, StatusCommit
  <2> DEFINE row == [by |-> by, action |-> to]
  <2>2. /\ status'[r] = to /\ approvals'[r] = Append(approvals[r], row)
        /\ \A q \in Requests \ {r} : status'[q] = status[q] /\ approvals'[q] = approvals[q]
    BY <1>2, <2>1 DEF UpdateAcademicRequestStatus, IInv, TypeOK
  <2>3. approvals[r] \in Seq(ApprovalRow) /\ LedgerOf(r)
    BY DEF IInv, TypeOK, LedgersOK
  <2>4. /\ to # "SUBMITTED"
        /\ to = "VERIFIED"  => row = Decisions[1]
        /\ to = "APPROVED"  => row = Decisions[2]
        /\ to = "COMPLETED" => row = Decisions[3]
        /\ row.action = to
    BY <2>1 DEF DesksOK, Decisions
  <2> HIDE DEF row
  <2>5. CASE to = "VERIFIED"
    <3>1. EndsWith(approvals[r], 0)
      BY <2>1, <2>3, <2>5, Moves DEF LedgerOf, Passed
    <3>2. EndsWith(approvals'[r], 1)
      BY <2>2, <2>3, <2>4, <2>5, <3>1, OneDecisionMore
    <3> QED BY <2>2, <2>5, <3>2 DEF LedgerOf, LedgersOK, Passed
  <2>6. CASE to = "APPROVED"
    <3>1. EndsWith(approvals[r], 1)
      BY <2>1, <2>3, <2>6, Moves DEF LedgerOf, Passed
    <3>2. EndsWith(approvals'[r], 2)
      BY <2>2, <2>3, <2>4, <2>6, <3>1, OneDecisionMore
    <3> QED BY <2>2, <2>6, <3>2 DEF LedgerOf, LedgersOK, Passed
  <2>7. CASE to = "COMPLETED"
    <3>1. EndsWith(approvals[r], 2)
      BY <2>1, <2>3, <2>7, Moves DEF LedgerOf, Passed
    <3>2. EndsWith(approvals'[r], 3)
      BY <2>2, <2>3, <2>4, <2>7, <3>1, OneDecisionMore
    <3> QED BY <2>2, <2>7, <3>2 DEF LedgerOf, LedgersOK, Passed
  <2>8. CASE to = "REVISION_REQUIRED"
    <3>1. EndsWith(approvals[r], 0)
      BY <2>1, <2>3, <2>8, Moves DEF LedgerOf, Passed
    <3>2. EndsWith(approvals'[r], 0)
      BY <2>2, <2>3, <2>4, <2>8, <3>1, OneRevisionMore
    <3> QED BY <2>2, <2>8, <3>2 DEF LedgerOf, LedgersOK, Passed
  <2>9. CASE to \in {"REJECTED", "CANCELLED"}
    BY <2>2, <2>9 DEF LedgerOf, LedgersOK
  <2> QED BY <2>1, <2>4, <2>5, <2>6, <2>7, <2>8, <2>9, Moves
<1>3. ASSUME NEW r \in Requests, status[r] \in {"NONE", "DRAFT", "REVISION_REQUIRED"},
             status' = [status EXCEPT ![r] = "SUBMITTED"], approvals' = approvals
      PROVE  LedgersOK'
  <2>1. status'[r] = "SUBMITTED" /\ \A q \in Requests \ {r} : status'[q] = status[q]
    BY <1>3 DEF IInv, TypeOK
  <2>2. EndsWith(approvals[r], 0)
    BY <1>3 DEF LedgersOK, LedgerOf, Passed
  <2> QED BY <1>3, <2>1, <2>2 DEF LedgersOK, LedgerOf, Passed
<1>4. ASSUME NEW s \in Sessions, NEW r \in Requests, InsertAcademicRequest(s, r)
      PROVE  LedgersOK'
  BY <1>3, <1>4 DEF InsertAcademicRequest, Exists
<1>5. ASSUME NEW s \in Sessions, ResubmitAcademicRequest(s) PROVE LedgersOK'
  <2>1. PICK r \in Requests :
          r = call[s].request /\ status[r] \in {"DRAFT", "REVISION_REQUIRED"}
    BY <1>5, ResubmitCommit
  <2> QED BY <1>3, <1>5, <2>1 DEF ResubmitAcademicRequest
<1>6. ASSUME NEW s \in Sessions,
             \/ UpdateAcademicRequestFields(s)
             \/ \E items \in SUBSET Requests : scanAndEmit(s, items)
      PROVE  UNCHANGED <<status, approvals>>
  BY <1>6 DEF UpdateAcademicRequestFields, scanAndEmit, logVars
<1> QED BY <1>1, <1>2, <1>4, <1>5, <1>6, WritingSteps

LEMMA LedgersTell == IInv /\ LedgersOK => ApprovalChain
<1> SUFFICES ASSUME IInv, LedgersOK, NEW r \in Requests, status[r] = "COMPLETED"
             PROVE  LET ledger == approvals[r]
                        n      == Len(ledger)
                    IN  /\ n >= 3
                        /\ ledger[n - 2] = [by |-> "ADMIN_PRODI", action |-> "VERIFIED"]
                        /\ ledger[n - 1] = [by |-> "KAPRODI",     action |-> "APPROVED"]
                        /\ ledger[n]     = [by |-> "TATA_USAHA",  action |-> "COMPLETED"]
                        /\ \A i \in 1 .. n - 3 : ledger[i].action = "REVISION_REQUIRED"
  BY DEF ApprovalChain
<1> DEFINE ledger == approvals[r]
           n      == Len(ledger)
<1>1. EndsWith(ledger, 3)
  BY DEF LedgersOK, LedgerOf, Passed
<1>2. n \in Nat
  BY DEF IInv, TypeOK
<1>3. /\ n >= 3
      /\ \A j \in 1 .. 3 : ledger[n - 3 + j] = Decisions[j]
      /\ \A i \in 1 .. n - 3 : ledger[i].action = "REVISION_REQUIRED"
  BY <1>1 DEF EndsWith
<1> HIDE DEF n
<1>4. n - 3 + 1 = n - 2 /\ n - 3 + 2 = n - 1 /\ n - 3 + 3 = n
  BY <1>2
<1>5. ledger[n - 2] = Decisions[1] /\ ledger[n - 1] = Decisions[2] /\ ledger[n] = Decisions[3]
  <2>1. 1 \in 1 .. 3 /\ 2 \in 1 .. 3 /\ 3 \in 1 .. 3
    OBVIOUS
  <2> QED BY <1>3, <1>4, <2>1
<1> QED BY <1>3, <1>5 DEF n, Decisions

\* A finished request was verified, approved and completed by the three desks, in this
\* order, and before that only sent back for revision, however often.
THEOREM DesksInOrder == Spec => []ApprovalChain
<1>1. Init => LedgersOK
  BY DEF Init, LedgersOK, LedgerOf, EndsWith, Passed
<1> QED BY IInvHolds, DesksHold, LedgerNext, LedgersTell, <1>1, PTL DEF Spec
-----------------------------------------------------------------------------
(* The events.                                                              *)

\* The status a type of event tells a consumer.
Told(type) ==
  CASE type \in {"academic_request.created", "academic_request.submitted"} -> "SUBMITTED"
    [] type = "academic_request.verified"          -> "VERIFIED"
    [] type = "academic_request.approved"          -> "APPROVED"
    [] type = "academic_request.rejected"          -> "REJECTED"
    [] type = "academic_request.completed"         -> "COMPLETED"
    [] type = "academic_request.revision_required" -> "REVISION_REQUIRED"
    [] type = "academic_request.cancelled"         -> "CANCELLED"
    [] OTHER                                       -> "NONE"

\* An event of a transition tells its status by its type; the others are reminders.
Tells(e) ==
  IF e.n = 0 THEN IsWarning(e) ELSE e.status = Told(e.type) /\ Told(e.type) # "NONE"

\* The events of a request against its history.
Mirrors(h, o) ==
  /\ \A i \in DOMAIN h : \E k \in DOMAIN o :
       /\ o[k].n = i /\ o[k].status = h[i].new /\ o[k].at = h[i].at
       /\ \A l \in DOMAIN o \ {k} : o[l].n # i
  /\ \A k \in DOMAIN o : o[k].n \in DOMAIN h \cup {0} /\ Tells(o[k])

EventsOK == \A r \in Requests : Mirrors(history[r], outbox[r])

\* An event is added, a reminder or that of the history row added with it.
LEMMA MirrorsGrow ==
  ASSUME NEW h \in Seq(HistoryRow), NEW o \in Seq(OutboxRow), Mirrors(h, o),
         NEW e, Tells(e), NEW new \in Seq(HistoryRow),
         \/ new = h /\ e.n = 0
         \/ \E row : /\ new = Append(h, row)
                     /\ e.n = Len(h) + 1 /\ e.status = row.new /\ e.at = row.at
  PROVE  Mirrors(new, Append(o, e))
<1> DEFINE m   == Len(h)
           n   == Len(o)
           out == Append(o, e)
<1>1. /\ m \in Nat /\ DOMAIN h = 1 .. m
      /\ n \in Nat /\ DOMAIN o = 1 .. n /\ DOMAIN out = 1 .. n + 1
      /\ out[n + 1] = e /\ \A k \in 1 .. n : out[k] = o[k]
  OBVIOUS
<1>2. \/ new = h /\ e.n = 0
      \/ /\ DOMAIN new = 1 .. m + 1 /\ \A i \in 1 .. m : new[i] = h[i]
         /\ e.n = m + 1 /\ e.status = new[m + 1].new /\ e.at = new[m + 1].at
  OBVIOUS
<1> HIDE DEF m, n, out
<1>3. DOMAIN h \subseteq DOMAIN new /\ e.n \notin DOMAIN h
  BY <1>1, <1>2
<1>4. ASSUME NEW k \in DOMAIN out
      PROVE  out[k].n \in DOMAIN new \cup {0} /\ Tells(out[k])
  <2>1. CASE k = n + 1
    BY <1>1, <1>2, <2>1
  <2>2. CASE k # n + 1
    <3>1. k \in DOMAIN o /\ out[k] = o[k]
      BY <1>1, <2>2
    <3> QED BY <1>3, <3>1 DEF Mirrors
  <2> QED BY <2>1, <2>2
<1>5. ASSUME NEW i \in DOMAIN h
      PROVE  \E k \in DOMAIN out :
               /\ out[k].n = i /\ out[k].status = new[i].new /\ out[k].at = new[i].at
               /\ \A l \in DOMAIN out \ {k} : out[l].n # i
  <2>1. PICK k \in DOMAIN o :
          /\ o[k].n = i /\ o[k].status = h[i].new /\ o[k].at = h[i].at
          /\ \A l \in DOMAIN o \ {k} : o[l].n # i
    BY DEF Mirrors
  <2>2. k \in DOMAIN out /\ out[k] = o[k] /\ new[i] = h[i]
    BY <1>1, <1>2
  <2>3. ASSUME NEW l \in DOMAIN out, l # k PROVE out[l].n # i
    <3>1. CASE l = n + 1
      BY <1>1, <1>3, <3>1
    <3>2. CASE l # n + 1
      BY <1>1, <2>1, <2>3, <3>2
    <3> QED BY <3>1, <3>2
  <2> QED BY <2>1, <2>2, <2>3
<1>6. ASSUME NEW i \in DOMAIN new, i \notin DOMAIN h
      PROVE  \E k \in DOMAIN out :
               /\ out[k].n = i /\ out[k].status = new[i].new /\ out[k].at = new[i].at
               /\ \A l \in DOMAIN out \ {k} : out[l].n # i
  <2>1. i = m + 1 /\ e.n = i /\ e.status = new[i].new /\ e.at = new[i].at
    BY <1>1, <1>2, <1>6
  <2>2. n + 1 \in DOMAIN out /\ out[n + 1] = e
    BY <1>1
  <2>3. ASSUME NEW l \in DOMAIN out, l # n + 1 PROVE out[l].n # i
    <3>1. l \in DOMAIN o /\ out[l] = o[l]
      BY <1>1, <2>3
    <3>2. out[l].n \in DOMAIN h \cup {0}
      BY <3>1 DEF Mirrors
    <3> QED BY <1>1, <2>1, <3>2
  <2> QED BY <2>1, <2>2, <2>3
<1>7. Mirrors(new, out)
  BY <1>4, <1>5, <1>6 DEF Mirrors
<1> QED BY <1>7 DEF out

\* A transition's two rows.
LEMMA RecordMirrors ==
  ASSUME IInv, IInv', EventsOK, NEW r \in Requests, NEW content, NEW old, NEW new, NEW by,
         NEW at, NEW type, Told(type) = new, new # "NONE",
         Record(r, content, old, new, by, at, type)
  PROVE  EventsOK'
<1> DEFINE row == [old |-> old, new |-> new, by |-> by, at |-> at, content |-> content]
           e   == Event(Len(history[r]) + 1, type, new, at)
<1>1. /\ history[r] \in Seq(HistoryRow) /\ outbox[r] \in Seq(OutboxRow)
      /\ history'[r] \in Seq(HistoryRow) /\ Mirrors(history[r], outbox[r])
      /\ Len(history[r]) \in Nat
  BY DEF IInv, TypeOK, EventsOK
<1>2. /\ history'[r] = Append(history[r], row) /\ outbox'[r] = Append(outbox[r], e)
      /\ \A q \in Requests \ {r} : history'[q] = history[q] /\ outbox'[q] = outbox[q]
  BY DEF Record, IInv, TypeOK
<1>3. e.n = Len(history[r]) + 1 /\ e.status = row.new /\ e.at = row.at /\ e.type = type
  BY DEF Event
<1>4. Tells(e)
  BY <1>1, <1>3 DEF Tells
<1> HIDE DEF row, e
<1>5. Mirrors(history'[r], outbox'[r])
  BY <1>1, <1>2, <1>3, <1>4, MirrorsGrow
<1> QED BY <1>2, <1>5 DEF EventsOK

LEMMA EventsNext == IInv /\ IInv' /\ DesksOK /\ EventsOK /\ [Next]_vars => EventsOK'
<1> SUFFICES ASSUME IInv, IInv', DesksOK, EventsOK, [Next]_vars PROVE EventsOK'
  OBVIOUS
<1>1. CASE UNCHANGED <<history, outbox>>
  BY <1>1 DEF EventsOK
<1>2. ASSUME NEW s \in Sessions, NEW r \in Requests, InsertAcademicRequest(s, r)
      PROVE  EventsOK'
  BY <1>2, RecordMirrors DEF InsertAcademicRequest, Told
<1>3. ASSUME NEW s \in Sessions, UpdateAcademicRequestStatus(s) PROVE EventsOK'
  <2> DEFINE c == call[s]
  <2>1. /\ c.request \in Requests /\ c.kind = "status" /\ c.target # "SUBMITTED"
        /\ status[c.request] \in AllowedFrom(AcademicTransitions, c.target)
    BY <1>3, StatusCommit DEF DesksOK
  <2>2. c.target \in {"VERIFIED", "REVISION_REQUIRED", "APPROVED", "REJECTED", "COMPLETED",
                      "CANCELLED"}
    BY <2>1, Moves
  <2>3. Told(academicRequestEventType(c.target)) = c.target /\ c.target # "NONE"
    BY <2>2 DEF Told, academicRequestEventType
  <2>4. Record(c.request, title[c.request], status[c.request], c.target, c.actor, c.at,
               academicRequestEventType(c.target))
    BY <1>3 DEF UpdateAcademicRequestStatus
  <2> HIDE DEF c
  <2> QED BY <2>1, <2>3, <2>4, RecordMirrors
<1>4. ASSUME NEW s \in Sessions, ResubmitAcademicRequest(s) PROVE EventsOK'
  <2> DEFINE c == call[s]
  <2>1. c.request \in Requests
    BY <1>4, ResubmitCommit
  <2>2. Record(c.request, title[c.request], status[c.request], "SUBMITTED", c.actor, c.at,
               "academic_request.submitted")
    BY <1>4 DEF ResubmitAcademicRequest
  <2> HIDE DEF c
  <2> QED BY <2>1, <2>2, RecordMirrors DEF Told
<1>5. ASSUME NEW s \in Sessions, NEW items \in SUBSET Requests, scanAndEmit(s, items)
      PROVE  EventsOK'
  <2> SUFFICES ASSUME NEW q \in Requests PROVE Mirrors(history'[q], outbox'[q])
    BY DEF EventsOK
  <2>1. /\ history'[q] = history[q] /\ Mirrors(history[q], outbox[q])
        /\ history[q] \in Seq(HistoryRow) /\ outbox[q] \in Seq(OutboxRow)
    BY <1>5 DEF scanAndEmit, EventsOK, IInv, TypeOK
  <2>2. CASE q \notin items
    BY <1>5, <2>1, <2>2 DEF scanAndEmit
  <2>3. CASE q \in items
    <3> DEFINE e == Event(0, "academic_request.sla_warning", status[q], call[s].at)
    <3>1. outbox'[q] = Append(outbox[q], e)
      BY <1>5, <2>3 DEF scanAndEmit
    <3>2. e.n = 0 /\ Tells(e)
      BY DEF Event, Tells, IsWarning
    <3> HIDE DEF e
    <3> QED BY <2>1, <3>1, <3>2, MirrorsGrow
  <2> QED BY <2>2, <2>3
<1>6. ASSUME NEW s \in Sessions, UpdateAcademicRequestFields(s)
      PROVE  UNCHANGED <<history, outbox>>
  BY <1>6 DEF UpdateAcademicRequestFields, logVars
<1> QED BY <1>1, <1>2, <1>3, <1>4, <1>5, <1>6, WritingSteps

LEMMA MirrorsTell == IInv /\ EventsOK => EventsMirrorHistory
<1> SUFFICES ASSUME IInv, EventsOK, NEW r \in Requests
             PROVE  /\ \A i \in DOMAIN history[r] :
                         \E k \in DOMAIN outbox[r] :
                           /\ outbox[r][k].n = i
                           /\ outbox[r][k].status = history[r][i].new
                           /\ outbox[r][k].at = history[r][i].at
                           /\ outbox[r][k].type # "academic_request.updated"
                           /\ \A l \in DOMAIN outbox[r] \ {k} : outbox[r][l].n # i
                    /\ \A k, l \in DOMAIN outbox[r] :
                         /\ outbox[r][k].n \in DOMAIN history[r] \cup {0}
                         /\ outbox[r][k].n = 0
                              => outbox[r][k].type = "academic_request.sla_warning"
                         /\ outbox[r][k].n # 0 /\ outbox[r][k].type = outbox[r][l].type
                              => outbox[r][k].status = outbox[r][l].status
  BY DEF EventsMirrorHistory
<1>1. /\ Mirrors(history[r], outbox[r])
      /\ Told("academic_request.updated") = "NONE"
      /\ Told("academic_request.sla_warning") = "NONE"
      /\ \A i \in DOMAIN history[r] : i # 0
  BY DEF EventsOK, Told, IInv, TypeOK
<1>2. \A k \in DOMAIN outbox[r] : Tells(outbox[r][k])
  BY <1>1 DEF Mirrors
<1>3. \A k \in DOMAIN outbox[r] : outbox[r][k].n # 0
        => /\ outbox[r][k].type # "academic_request.updated"
           /\ outbox[r][k].type # "academic_request.sla_warning"
           /\ outbox[r][k].status = Told(outbox[r][k].type)
  BY <1>1, <1>2 DEF Tells
<1>4. \A k \in DOMAIN outbox[r] : outbox[r][k].n = 0
        => outbox[r][k].type = "academic_request.sla_warning"
  BY <1>2 DEF Tells, IsWarning
<1> QED BY <1>1, <1>3, <1>4 DEF Mirrors

\* Every transition has its event and nothing else does, however the commits of the
\* handlers and of the reminder worker alternate; two statuses never share a type.
THEOREM EventsTellTheHistory == Spec => []EventsMirrorHistory
<1>1. Init => EventsOK
  BY DEF Init, EventsOK, Mirrors
<1> QED BY IInvHolds, DesksHold, EventsNext, MirrorsTell, <1>1, PTL DEF Spec

(***************************************************************************)
(* The requests together with the read model of reporting-service.         *)
(***************************************************************************)
Projection == INSTANCE ReportingProjection_proofs WITH LecturerOf <- NoLecturer

-----------------------------------------------------------------------------
(* The workflow inside the composition.                                     *)

LEMMA SystemSteps ==
  ASSUME [SystemNext]_systemVars
  PROVE  /\ [Next]_vars
         /\ \/ RequestStep
            \/ Reporting!Next /\ UNCHANGED vars
            \/ UNCHANGED systemVars
  BY DEF SystemNext, systemVars, RequestStep, ReportingStep

\* Read model and publisher do not touch the workflow: the composition is an
\* implementation of it, and what is proved of AcademicRequests holds in it.
THEOREM ReportingKeepsWorkflow == SystemSpec => Spec
<1>1. SystemInit => Init
  BY DEF SystemInit
<1>2. [SystemNext]_systemVars => [Next]_vars
  BY SystemSteps
<1> QED BY <1>1, <1>2, PTL DEF SystemSpec, Spec

-----------------------------------------------------------------------------
(* What a step adds to the outbox.                                          *)

Adds(r, at) ==
  \E e \in OutboxRow :
    /\ outbox'[r] = Append(outbox[r], e)
    /\ e.at = at /\ e.status = status'[r] /\ status'[r] # "NONE"

Keeps(r) == outbox'[r] = outbox[r] /\ status'[r] = status[r]

\* A pending transaction, whose NOW() has been fixed.
Began(c) == c # Idle /\ c.kind # "fields"

\* The requests whose outbox the transaction may write to: the reminder scan
\* reads all, an insert makes a row that does not exist yet.
Concerns(c, r) ==
  \/ c.kind = "scan"
  \/ c.kind = "create" /\ ~Exists(r)
  \/ c.kind \in {"status", "submit"} /\ c.request = r

LEMMA EventAdded ==
  ASSUME NEW r \in Requests, outbox \in [Requests -> Seq(OutboxRow)],
         status \in [Requests -> AcademicStatus \cup {"NONE"}],
         NEW n \in Nat, NEW type \in EventType, NEW new \in AcademicStatus, NEW at \in Time,
         outbox' = [outbox EXCEPT ![r] = Append(@, Event(n, type, new, at))],
         status' = [status EXCEPT ![r] = new]
  PROVE  Adds(r, at) /\ \A q \in Requests : q # r => Keeps(q)
<1>1. Event(n, type, new, at) \in OutboxRow
  BY DEF Event, OutboxRow
<1>2. /\ Event(n, type, new, at).at = at /\ Event(n, type, new, at).status = new
      /\ status'[r] = new /\ new # "NONE"
      /\ outbox'[r] = Append(outbox[r], Event(n, type, new, at))
  BY DEF Event, AcademicStatus
<1> QED BY <1>1, <1>2 DEF Adds, Keeps

LEMMA OutboxSteps ==
  ASSUME IInv, [Next]_vars
  PROVE  \/ \A r \in Requests : Keeps(r)
         \/ \E s \in Sessions :
              /\ Began(call[s]) /\ call[s].at \in Time
              /\ call' = [call EXCEPT ![s] = Idle] /\ clock' = clock
              /\ \A r \in Requests :
                   Keeps(r) \/ (Concerns(call[s], r) /\ Adds(r, call[s].at))
<1> DEFINE Writes(s) ==
      /\ Began(call[s]) /\ call[s].at \in Time
      /\ call' = [call EXCEPT ![s] = Idle] /\ clock' = clock
      /\ \A r \in Requests : Keeps(r) \/ (Concerns(call[s], r) /\ Adds(r, call[s].at))
<1>0. /\ outbox \in [Requests -> Seq(OutboxRow)]
      /\ status \in [Requests -> AcademicStatus \cup {"NONE"}]
      /\ \A s \in Sessions : call[s] \in Call
      /\ \A r \in Requests : Len(history[r]) + 1 \in Nat
  BY DEF IInv, TypeOK
<1>1. \A s \in Sessions : call[s].kind \in {"status", "submit", "create", "scan"}
        => Began(call[s]) /\ call[s].at \in Time
  BY <1>0, CallKinds DEF Began, Idle
<1>2. ASSUME NEW s \in Sessions, NEW r \in Requests, InsertAcademicRequest(s, r)
      PROVE  Writes(s)
  <2>1. /\ call[s].kind = "create" /\ ~Exists(r) /\ clock' = clock
        /\ call' = [call EXCEPT ![s] = Idle]
        /\ status' = [status EXCEPT ![r] = "SUBMITTED"]
        /\ outbox' = [outbox EXCEPT ![r] = Append(@, Event(Len(history[r]) + 1,
                        "academic_request.created", "SUBMITTED", call[s].at))]
    BY <1>2 DEF InsertAcademicRequest, Record, Return
  <2>2. "academic_request.created" \in EventType /\ "SUBMITTED" \in AcademicStatus
    BY DEF EventType, AcademicStatus
  <2>3. Adds(r, call[s].at) /\ \A q \in Requests : q # r => Keeps(q)
    BY <1>0, <1>1, <2>1, <2>2, EventAdded
  <2> QED BY <1>1, <2>1, <2>3 DEF Concerns
<1>3. ASSUME NEW s \in Sessions, UpdateAcademicRequestStatus(s)
      PROVE  Writes(s)
  <2>1. PICK r \in Requests : r = call[s].request
    BY <1>0, <1>3, CallKinds DEF UpdateAcademicRequestStatus
  <2>2. /\ call[s].kind = "status" /\ clock' = clock /\ call[s].target \in AcademicStatus
        /\ call' = [call EXCEPT ![s] = Idle]
        /\ status' = [status EXCEPT ![r] = call[s].target]
        /\ outbox' = [outbox EXCEPT ![r] = Append(@, Event(Len(history[r]) + 1,
                        academicRequestEventType(call[s].target), call[s].target,
                        call[s].at))]
    BY <1>0, <1>3, <2>1, CallKinds DEF UpdateAcademicRequestStatus, Record, Return
  <2>3. Adds(r, call[s].at) /\ \A q \in Requests : q # r => Keeps(q)
    BY <1>0, <1>1, <2>2, EventTypes, EventAdded
  <2> QED BY <1>1, <2>1, <2>2, <2>3 DEF Concerns
<1>4. ASSUME NEW s \in Sessions, ResubmitAcademicRequest(s)
      PROVE  Writes(s)
  <2>1. PICK r \in Requests : r = call[s].request
    BY <1>0, <1>4, CallKinds DEF ResubmitAcademicRequest
  <2>2. /\ call[s].kind = "submit" /\ clock' = clock
        /\ call' = [call EXCEPT ![s] = Idle]
        /\ status' = [status EXCEPT ![r] = "SUBMITTED"]
        /\ outbox' = [outbox EXCEPT ![r] = Append(@, Event(Len(history[r]) + 1,
                        "academic_request.submitted", "SUBMITTED", call[s].at))]
    BY <1>4, <2>1 DEF ResubmitAcademicRequest, Record, Return
  <2>3. "academic_request.submitted" \in EventType /\ "SUBMITTED" \in AcademicStatus
    BY DEF EventType, AcademicStatus
  <2>4. Adds(r, call[s].at) /\ \A q \in Requests : q # r => Keeps(q)
    BY <1>0, <1>1, <2>2, <2>3, EventAdded
  <2> QED BY <1>1, <2>1, <2>2, <2>4 DEF Concerns
<1>5. ASSUME NEW s \in Sessions, NEW items \in SUBSET Requests, scanAndEmit(s, items)
      PROVE  Writes(s)
  <2>1. /\ call[s].kind = "scan" /\ clock' = clock /\ status' = status
        /\ call' = [call EXCEPT ![s] = Idle]
        /\ \A r \in items : Exists(r)
        /\ outbox' = [r \in Requests |->
                        IF r \in items
                        THEN Append(outbox[r], Event(0, "academic_request.sla_warning",
                                                     status[r], call[s].at))
                        ELSE outbox[r]]
    BY <1>5 DEF scanAndEmit, NeedsWarning, Return
  <2>2. ASSUME NEW r \in items
        PROVE  Adds(r, call[s].at)
    <3> DEFINE e == Event(0, "academic_request.sla_warning", status[r], call[s].at)
    <3>1. status[r] \in AcademicStatus /\ status[r] # "NONE"
      BY <1>0, <2>1 DEF Exists
    <3>2. e \in OutboxRow /\ e.at = call[s].at /\ e.status = status[r]
      BY <1>1, <2>1, <3>1 DEF Event, OutboxRow, EventType
    <3>3. outbox'[r] = Append(outbox[r], e)
      BY <2>1
    <3> HIDE DEF e
    <3> QED BY <2>1, <3>1, <3>2, <3>3 DEF Adds
  <2>3. \A r \in Requests \ items : Keeps(r)
    BY <2>1 DEF Keeps
  <2> QED BY <1>1, <2>1, <2>2, <2>3 DEF Concerns
<1>6. \/ UNCHANGED <<status, outbox>>
      \/ \E s \in Sessions :
           \/ \E r \in Requests : InsertAcademicRequest(s, r)
           \/ UpdateAcademicRequestStatus(s)
           \/ ResubmitAcademicRequest(s)
           \/ \E items \in SUBSET Requests : scanAndEmit(s, items)
  BY DEF Next, vars, rowVars, logVars, Tick, StartScan, Begin,
         VerifyAcademicRequest, ApproveAcademicRequest, RejectAcademicRequest,
         CompleteAcademicRequest, RequestRevisionAcademicRequest,
         CancelAcademicRequest, workflowAction, SubmitAcademicRequest,
         UpdateAcademicRequest, CreateAcademicRequest,
         UpdateAcademicRequestFields, Rollback
<1>7. ASSUME UNCHANGED <<status, outbox>>
      PROVE  \A r \in Requests : Keeps(r)
  BY <1>7 DEF Keeps
<1> HIDE DEF Writes
<1>8. (\A r \in Requests : Keeps(r)) \/ \E s \in Sessions : Writes(s)
  BY <1>2, <1>3, <1>4, <1>5, <1>6, <1>7
<1> QED BY <1>8 DEF Writes

\* What the next event of a request does to its outbox.
LEMMA AddedEvent ==
  ASSUME IInv, NEW r \in Requests, NEW at, Adds(r, at)
  PROVE  /\ Len(outbox[r]) \in Nat /\ DOMAIN outbox[r] = 1 .. Len(outbox[r])
         /\ Len(outbox'[r]) = Len(outbox[r]) + 1
         /\ DOMAIN outbox'[r] = 1 .. Len(outbox[r]) + 1
         /\ \A k \in DOMAIN outbox[r] : outbox'[r][k] = outbox[r][k]
         /\ outbox'[r][Len(outbox[r]) + 1].at = at
         /\ outbox'[r][Len(outbox[r]) + 1].status = status'[r]
         /\ status'[r] # "NONE"
<1>1. outbox[r] \in Seq(OutboxRow)
  BY DEF IInv, TypeOK
<1>2. PICK e \in OutboxRow : /\ outbox'[r] = Append(outbox[r], e)
                             /\ e.at = at /\ e.status = status'[r] /\ status'[r] # "NONE"
  BY DEF Adds
<1> QED BY <1>1, <1>2

LEMMA StampedRows ==
  ASSUME NEW seq \in Seq(OutboxRow)
  PROVE  /\ Len(seq) \in Nat /\ DOMAIN seq = 1 .. Len(seq)
         /\ \A k \in DOMAIN seq : seq[k].at \in Nat
<1>1. \A e \in OutboxRow : e.at \in Nat
  BY DEF OutboxRow, Time
<1> QED BY <1>1

LEMMA OutboxStamped ==
  /\ IInv => Projection!Stamped
  /\ IInv' => Projection!Stamped'
  BY StampedRows DEF Projection!Stamped, IInv, TypeOK

LEMMA OutboxOnlyGrows ==
  ASSUME IInv, [Next]_vars
  PROVE  Projection!OnlyAdds
<1> SUFFICES ASSUME NEW r \in Requests
             PROVE  /\ DOMAIN outbox[r] \subseteq DOMAIN outbox'[r]
                    /\ \A k \in DOMAIN outbox[r] : outbox'[r][k] = outbox[r][k]
  BY DEF Projection!OnlyAdds
<1>1. CASE Keeps(r)
  BY <1>1 DEF Keeps
<1>2. ASSUME NEW at, Adds(r, at)
      PROVE  /\ DOMAIN outbox[r] \subseteq DOMAIN outbox'[r]
             /\ \A k \in DOMAIN outbox[r] : outbox'[r][k] = outbox[r][k]
  BY <1>2, AddedEvent
<1> QED BY <1>1, <1>2, OutboxSteps

-----------------------------------------------------------------------------
(* The last event of a request says what the request is.                    *)

LastEventTells ==
  \A r \in Requests :
    /\ ~Exists(r) => DOMAIN outbox[r] = {}
    /\ Exists(r) => /\ Len(outbox[r]) > 0
                    /\ Last(outbox[r]).status = status[r]

LEMMA LastEventNext == IInv /\ LastEventTells /\ [Next]_vars => LastEventTells'
<1> SUFFICES ASSUME IInv, LastEventTells, [Next]_vars, NEW r \in Requests
             PROVE  /\ status'[r] = "NONE" => DOMAIN outbox'[r] = {}
                    /\ status'[r] # "NONE" =>
                         /\ Len(outbox'[r]) > 0
                         /\ outbox'[r][Len(outbox'[r])].status = status'[r]
  BY DEF LastEventTells, Exists, Last
<1>1. CASE Keeps(r)
  BY <1>1 DEF Keeps, LastEventTells, Exists, Last
<1>2. ASSUME NEW at, Adds(r, at)
      PROVE  /\ status'[r] # "NONE" /\ Len(outbox'[r]) > 0
             /\ outbox'[r][Len(outbox'[r])].status = status'[r]
  BY <1>2, AddedEvent
<1> QED BY <1>1, <1>2, OutboxSteps

-----------------------------------------------------------------------------
(* The projection in this composition.                                      *)

SystemInv == IInv /\ LastEventTells /\ Projection!ProjectionInv

LEMMA InitSystem == SystemInit => SystemInv
<1> SUFFICES ASSUME SystemInit PROVE SystemInv
  OBVIOUS
<1>1. IInv
  BY InitIInv DEF SystemInit
<1>2. LastEventTells
  BY DEF SystemInit, Init, LastEventTells, Exists
<1>3. Projection!ProjectionInv
  <2>1. Projection!Init
    BY DEF SystemInit, Reporting!Init, Projection!Init, Reporting!NoSnapshot,
           Projection!NoSnapshot
  <2>2. \A r \in Requests : outbox[r] = <<>>
    BY DEF SystemInit, Init
  <2> QED BY <2>1, <2>2, Projection!InitProjection
<1> QED BY <1>1, <1>2, <1>3 DEF SystemInv

LEMMA SameProjection == Reporting!Next => Projection!Next
  BY DEF Reporting!Next, Reporting!FetchPendingEvents, Reporting!Publish,
         Reporting!UpsertRequestSnapshot, Reporting!Pending, Reporting!Rows,
         Reporting!RowOf, Reporting!Coalesce,
         Projection!Next, Projection!FetchPendingEvents, Projection!Publish,
         Projection!UpsertRequestSnapshot, Projection!Pending, Projection!Rows,
         Projection!RowOf, Projection!Coalesce

LEMMA NextSystem == SystemInv /\ [SystemNext]_systemVars => SystemInv'
<1> SUFFICES ASSUME SystemInv, [SystemNext]_systemVars
             PROVE  SystemInv'
  OBVIOUS
<1>1. [Next]_vars /\ IInv /\ LastEventTells /\ Projection!ProjectionInv
  BY SystemSteps DEF SystemInv
<1>2. IInv' /\ LastEventTells'
  BY <1>1, NextIInv, LastEventNext
<1>3. Projection!Stamped /\ Projection!Stamped'
  BY <1>1, <1>2, OutboxStamped
<1>4. CASE UNCHANGED reportingVars
  <2>1. UNCHANGED Projection!vars
    BY <1>4 DEF reportingVars, Projection!vars
  <2> QED BY <1>1, <1>2, <1>3, <2>1, OutboxOnlyGrows, Projection!ProducerStep DEF SystemInv
<1>5. CASE Reporting!Next /\ UNCHANGED vars
  BY <1>1, <1>2, <1>3, <1>5, SameProjection, Projection!ProjectionStep DEF SystemInv, vars
<1> QED BY <1>4, <1>5, SystemSteps DEF RequestStep, systemVars

LEMMA SystemInvHolds == SystemSpec => []SystemInv
  BY InitSystem, NextSystem, PTL DEF SystemSpec

-----------------------------------------------------------------------------
(* What the dashboards show.                                                *)

LEMMA InOrderIsSorted ==
  ASSUME IInv, NEW r \in Requests, InOrder(r)
  PROVE  Projection!Sorted(r)
<1>1. \A k \in DOMAIN outbox[r] : outbox[r][k].at \in Nat
  BY OutboxStamped DEF Projection!Stamped
<1> QED BY <1>1 DEF InOrder, Projection!Sorted

\* A request is counted under its status as soon as its own events have been
\* projected, unless two of its transactions overtook each other.
THEOREM DashboardsFollowOrder == SystemSpec => []OrderedIsShown
<1>1. SystemInv => OrderedIsShown
  <2> SUFFICES ASSUME SystemInv, NEW r \in Requests, InOrder(r), Reporting!Arrived(r)
               PROVE  Reporting!Shown(r) = status[r]
    BY DEF OrderedIsShown
  <2>1. /\ IInv /\ Projection!ProjectionInv /\ Projection!Stamped /\ Projection!Sorted(r)
        /\ Projection!Arrived(r)
    BY OutboxStamped, InOrderIsSorted
       DEF SystemInv, Reporting!Arrived, Projection!Arrived, Reporting!Pending,
           Projection!Pending, Reporting!Rows, Projection!Rows
  <2>2. CASE ~Exists(r)
    <3>1. DOMAIN outbox[r] = {}
      BY <2>2 DEF SystemInv, LastEventTells
    <3>2. snapshot[r].event = 0
      BY <2>1, <3>1, Projection!NothingIsShown
    <3> QED BY <2>2, <3>2 DEF Reporting!Shown, Exists
  <2>3. CASE Exists(r)
    <3> DEFINE n == Len(outbox[r])
               m == snapshot[r].event
    <3>1. n > 0 /\ outbox[r][n].status = status[r]
      BY <2>3 DEF SystemInv, LastEventTells, Last
    <3>2. m \in DOMAIN outbox[r] /\ outbox[r][m].at = outbox[r][n].at
      BY <2>1, <3>1, Projection!LastIsShown
    <3>3. n \in Nat /\ DOMAIN outbox[r] = 1 .. n /\ outbox[r][n].at \in Nat
      BY <2>1, <3>1 DEF Projection!Stamped
    <3>4. m = n /\ m # 0
      BY <3>1, <3>2, <3>3 DEF InOrder
    <3> QED BY <3>1, <3>4 DEF Reporting!Shown
  <2> QED BY <2>2, <2>3
<1> QED BY <1>1, SystemInvHolds, PTL

\* The snapshot of such a request is only ever replaced by a later event.
THEOREM DashboardsMoveForward == SystemSpec => OrderedNeverGoesBack
<1>1. ASSUME SystemInv, SystemNext, NEW r \in Requests, InOrder(r)
      PROVE  snapshot'[r].event >= snapshot[r].event
  <2>1. /\ IInv /\ Projection!ProjectionInv /\ Projection!Stamped /\ Projection!Sorted(r)
    BY <1>1, OutboxStamped, InOrderIsSorted DEF SystemInv
  <2>2. snapshot[r].event \in Nat
    BY <2>1, Projection!ShownPosition
  <2>3. CASE snapshot'[r] = snapshot[r]
    BY <2>2, <2>3
  <2>4. CASE snapshot'[r] # snapshot[r]
    <3> DEFINE m == snapshot[r].event
               k == snapshot'[r].event
    <3>1. Projection!Next /\ UNCHANGED outbox
      BY <1>1, <2>4, SameProjection
         DEF SystemNext, RequestStep, ReportingStep, reportingVars, vars
    <3>2. /\ k \in DOMAIN outbox[r]
          /\ m # 0 => m \in DOMAIN outbox[r] /\ k # m /\ outbox[r][m].at <= outbox[r][k].at
      BY <2>1, <2>4, <3>1, Projection!SnapshotMoves
    <3>3. /\ Len(outbox[r]) \in Nat /\ DOMAIN outbox[r] = 1 .. Len(outbox[r])
          /\ \A i \in DOMAIN outbox[r] : outbox[r][i].at \in Nat
      BY <2>1 DEF Projection!Stamped
    <3>4. k \in Nat
      BY <3>2, <3>3
    <3>5. CASE m = 0
      BY <3>4, <3>5
    <3>6. CASE m # 0
      <4>1. ~(outbox[r][k].at < outbox[r][m].at)
        BY <3>2, <3>3, <3>6
      <4>2. ~(k < m)
        BY <1>1, <3>2, <3>6, <4>1 DEF InOrder
      <4> QED BY <2>2, <3>4, <4>2
    <3> QED BY <3>5, <3>6
  <2> QED BY <2>3, <2>4
<1>2. SystemInv /\ [SystemNext]_systemVars
        => [\A r \in Requests : InOrder(r) => snapshot'[r].event >= snapshot[r].event]_systemVars
  BY <1>1
<1> QED BY <1>2, SystemInvHolds, PTL DEF SystemSpec, OrderedNeverGoesBack

-----------------------------------------------------------------------------
(* When transactions keep their order.                                      *)

\* No two transactions that may write to the outbox of one request are under
\* way at once.
Apart ==
  \A s, t \in Sessions :
    s # t /\ Began(call[s]) /\ Began(call[t]) =>
      /\ call[s].kind # "scan" /\ call[t].kind # "scan"
      /\ call[s].kind # "create" /\ call[t].kind # "create"
           => call[s].request # call[t].request

\* What has been written to the outbox of a request lies in the past, before
\* every transaction under way that may add to it.
PastOK ==
  /\ \A r \in Requests : \A k \in DOMAIN outbox[r] : outbox[r][k].at <= clock
  /\ \A s \in Sessions : Began(call[s]) =>
       /\ call[s].at <= clock
       /\ \A r \in Requests : Concerns(call[s], r) =>
            \A k \in DOMAIN outbox[r] : outbox[r][k].at < call[s].at
  /\ \A r \in Requests : InOrder(r)

\* A call begins now, ends, or goes on.
LEMMA CallSteps ==
  ASSUME IInv, [Next]_vars, NEW s \in Sessions, call'[s] # call[s], call'[s] # Idle
  PROVE  /\ call[s] = Idle
         /\ Began(call'[s]) => call'[s].at = clock
         /\ UNCHANGED <<clock, outbox, status>>
<1>1. call \in [Sessions -> Call]
  BY DEF IInv, TypeOK
<1>2. ASSUME NEW t \in Sessions, call' = [call EXCEPT ![t] = Idle]
      PROVE  FALSE
  BY <1>1, <1>2
<1>3. ASSUME NEW t \in Sessions, NEW c, Begin(t, c), c.kind = "fields" \/ c.at = clock
      PROVE  /\ call[s] = Idle
             /\ Began(call'[s]) => call'[s].at = clock
             /\ UNCHANGED <<clock, outbox, status>>
  <2>1. t = s /\ call'[s] = c
    BY <1>1, <1>3 DEF Begin
  <2> QED BY <1>3, <2>1 DEF Begin, rowVars, logVars, Began
<1>4. ASSUME NEW t \in Sessions, NEW r, NEW actor, NEW target, NEW allowed,
             workflowAction(t, r, actor, target, allowed)
      PROVE  /\ call[s] = Idle
             /\ Began(call'[s]) => call'[s].at = clock
             /\ UNCHANGED <<clock, outbox, status>>
  BY <1>3, <1>4 DEF workflowAction
<1>5. ASSUME NEW t \in Sessions,
             \/ StartScan(t)
             \/ \E r \in Requests, u \in Students :
                  \/ SubmitAcademicRequest(t, r, u)
                  \/ \E x \in Titles : UpdateAcademicRequest(t, r, u, x)
             \/ \E u \in Students, x \in Titles : CreateAcademicRequest(t, u, x)
      PROVE  /\ call[s] = Idle
             /\ Began(call'[s]) => call'[s].at = clock
             /\ UNCHANGED <<clock, outbox, status>>
  BY <1>3, <1>5 DEF StartScan, SubmitAcademicRequest, UpdateAcademicRequest,
                    CreateAcademicRequest
<1>6. ASSUME NEW t \in Sessions, NEW r \in Requests,
             \/ VerifyAcademicRequest(t, r)
             \/ ApproveAcademicRequest(t, r)
             \/ RejectAcademicRequest(t, r)
             \/ CompleteAcademicRequest(t, r)
             \/ RequestRevisionAcademicRequest(t, r)
             \/ \E u \in Students : CancelAcademicRequest(t, r, u)
      PROVE  /\ call[s] = Idle
             /\ Began(call'[s]) => call'[s].at = clock
             /\ UNCHANGED <<clock, outbox, status>>
  BY <1>4, <1>6 DEF VerifyAcademicRequest, ApproveAcademicRequest, RejectAcademicRequest,
                    CompleteAcademicRequest, RequestRevisionAcademicRequest,
                    CancelAcademicRequest
<1>7. ASSUME NEW t \in Sessions,
             \/ \E r \in Requests : InsertAcademicRequest(t, r)
             \/ UpdateAcademicRequestStatus(t)
             \/ ResubmitAcademicRequest(t)
             \/ UpdateAcademicRequestFields(t)
             \/ \E items \in SUBSET Requests : scanAndEmit(t, items)
             \/ Rollback(t)
      PROVE  FALSE
  BY <1>2, <1>7 DEF InsertAcademicRequest, UpdateAcademicRequestStatus,
                    ResubmitAcademicRequest, UpdateAcademicRequestFields, scanAndEmit,
                    Rollback, Return
<1>8. ~Tick /\ ~UNCHANGED vars
  BY DEF Tick, vars
<1>9. Next
  BY <1>8
<1> QED BY <1>5, <1>6, <1>7, <1>8, <1>9 DEF Next

LEMMA ClockSteps == [Next]_vars => clock' = clock \/ clock' = clock + 1
<1> SUFFICES ASSUME Next, ~Tick
             PROVE  clock' = clock
  BY DEF vars, Tick
<1>1. ASSUME NEW s \in Sessions, NEW c, Begin(s, c)
      PROVE  clock' = clock
  BY <1>1 DEF Begin
<1>2. ASSUME NEW s \in Sessions, NEW r, NEW actor, NEW target, NEW allowed,
             workflowAction(s, r, actor, target, allowed)
      PROVE  clock' = clock
  BY <1>1, <1>2 DEF workflowAction
<1>3. ASSUME NEW s \in Sessions, NEW r \in Requests,
             \/ VerifyAcademicRequest(s, r)
             \/ ApproveAcademicRequest(s, r)
             \/ RejectAcademicRequest(s, r)
             \/ CompleteAcademicRequest(s, r)
             \/ RequestRevisionAcademicRequest(s, r)
             \/ InsertAcademicRequest(s, r)
             \/ \E u \in Students :
                  \/ CancelAcademicRequest(s, r, u)
                  \/ SubmitAcademicRequest(s, r, u)
                  \/ \E x \in Titles : UpdateAcademicRequest(s, r, u, x)
      PROVE  clock' = clock
  BY <1>1, <1>2, <1>3 DEF VerifyAcademicRequest, ApproveAcademicRequest,
       RejectAcademicRequest, CompleteAcademicRequest, RequestRevisionAcademicRequest,
       CancelAcademicRequest, SubmitAcademicRequest, UpdateAcademicRequest,
       InsertAcademicRequest
<1>4. ASSUME NEW s \in Sessions,
             \/ StartScan(s)
             \/ UpdateAcademicRequestStatus(s)
             \/ ResubmitAcademicRequest(s)
             \/ UpdateAcademicRequestFields(s)
             \/ Rollback(s)
             \/ \E items \in SUBSET Requests : scanAndEmit(s, items)
             \/ \E u \in Students, x \in Titles : CreateAcademicRequest(s, u, x)
      PROVE  clock' = clock
  BY <1>1, <1>4 DEF StartScan, UpdateAcademicRequestStatus, ResubmitAcademicRequest,
       UpdateAcademicRequestFields, Rollback, scanAndEmit, CreateAcademicRequest
<1> QED BY <1>3, <1>4 DEF Next

\* A transaction that begins does so after everything that is in the outbox.
LEMMA BeginsLast ==
  ASSUME IInv, PastOK, [SystemNext]_systemVars, NEW s \in Sessions,
         call'[s] # call[s], call'[s] # Idle
  PROVE  \A r \in Requests : \A k \in DOMAIN outbox[r] : outbox[r][k].at < clock
<1>1. call[s] = Idle
  BY SystemSteps, CallSteps
<1>2. FreshInstant
  BY <1>1 DEF SystemNext, systemVars, vars, RequestStep, ReportingStep
<1>3. \A r \in Requests : \A k \in DOMAIN outbox[r] :
        /\ outbox[r][k].at # clock /\ outbox[r][k].at <= clock
        /\ outbox[r][k].at \in Nat
  BY <1>2, OutboxStamped DEF FreshInstant, PastOK, Projection!Stamped
<1>4. clock \in Nat
  BY DEF IInv, TypeOK, Time
<1> QED BY <1>3, <1>4

LEMMA QuietPast ==
  ASSUME IInv, PastOK, [SystemNext]_systemVars, \A r \in Requests : Keeps(r)
  PROVE  PastOK'
<1>1. /\ clock \in Nat /\ clock' \in Nat /\ clock <= clock'
      /\ \A r \in Requests : \A k \in DOMAIN outbox[r] : outbox[r][k].at \in Nat
  BY SystemSteps, ClockSteps, OutboxStamped DEF IInv, TypeOK, Time, Projection!Stamped
<1>2. \A r \in Requests : outbox'[r] = outbox[r] /\ status'[r] = status[r]
  BY DEF Keeps
<1>3. \A r \in Requests : \A k \in DOMAIN outbox'[r] : outbox'[r][k].at <= clock'
  BY <1>1, <1>2 DEF PastOK
<1>4. \A r \in Requests : InOrder(r)'
  BY <1>2 DEF PastOK, InOrder
<1>5. ASSUME NEW s \in Sessions, Began(call'[s])
      PROVE  /\ call'[s].at <= clock'
             /\ \A r \in Requests : Concerns(call[s], r)' =>
                  \A k \in DOMAIN outbox'[r] : outbox'[r][k].at < call'[s].at
  <2>0. \A r \in Requests : Concerns(call[s], r)' <=> Concerns(call'[s], r)
    BY <1>2 DEF Concerns, Exists
  <2>1. CASE call'[s] = call[s]
    <3>1. call[s].at \in Nat
      <4>1. call[s] \in Call
        BY DEF IInv, TypeOK
      <4> QED BY <1>5, <2>1, <4>1 DEF Began, Call, Idle, Time
    <3>2. call[s].at <= clock'
      BY <1>1, <1>5, <2>1, <3>1 DEF PastOK
    <3> QED BY <1>2, <1>5, <2>0, <2>1, <3>2 DEF PastOK
  <2>2. CASE call'[s] # call[s]
    <3>1. call'[s] # Idle
      BY <1>5 DEF Began
    <3>2. call'[s].at = clock
      BY <1>5, <2>2, <3>1, SystemSteps, CallSteps
    <3>3. \A r \in Requests : \A k \in DOMAIN outbox[r] : outbox[r][k].at < clock
      BY <2>2, <3>1, BeginsLast
    <3> QED BY <1>1, <1>2, <3>2, <3>3
  <2> QED BY <2>1, <2>2
<1> QED BY <1>3, <1>4, <1>5 DEF PastOK

\* The transaction that commits is the only one under way that concerns the
\* requests it writes to, so its event is the latest.
LEMMA WritingPast ==
  ASSUME IInv, PastOK, Apart, NEW s \in Sessions, Began(call[s]), call[s].at \in Time,
         call' = [call EXCEPT ![s] = Idle], clock' = clock,
         \A r \in Requests : Keeps(r) \/ (Concerns(call[s], r) /\ Adds(r, call[s].at))
  PROVE  PastOK'
<1>1. /\ clock \in Nat /\ call[s].at \in Nat /\ call[s].at <= clock
      /\ \A r \in Requests : \A k \in DOMAIN outbox[r] : outbox[r][k].at \in Nat
  BY OutboxStamped DEF IInv, TypeOK, Time, Projection!Stamped, PastOK
<1>2. ASSUME NEW r \in Requests, Concerns(call[s], r), Adds(r, call[s].at)
      PROVE  /\ \A k \in DOMAIN outbox'[r] : outbox'[r][k].at <= clock
             /\ InOrder(r)'
  <2> DEFINE n == Len(outbox[r])
  <2>1. /\ n \in Nat /\ DOMAIN outbox[r] = 1 .. n
        /\ DOMAIN outbox'[r] = 1 .. n + 1
        /\ \A k \in DOMAIN outbox[r] : outbox'[r][k] = outbox[r][k]
        /\ outbox'[r][n + 1].at = call[s].at
    BY <1>2, AddedEvent
  <2>2. \A k \in DOMAIN outbox[r] : outbox[r][k].at < call[s].at /\ outbox[r][k].at <= clock
    BY <1>2 DEF PastOK
  <2>3. \A k \in DOMAIN outbox'[r] : k \in DOMAIN outbox[r] \/ k = n + 1
    BY <2>1
  <2>4. \A k \in DOMAIN outbox'[r] : outbox'[r][k].at <= clock
    BY <1>1, <2>1, <2>2, <2>3
  <2>5. ASSUME NEW j \in DOMAIN outbox'[r], NEW k \in DOMAIN outbox'[r], j < k
        PROVE  outbox'[r][j].at < outbox'[r][k].at
    <3>1. j \in DOMAIN outbox[r]
      BY <2>1, <2>5
    <3>2. CASE k \in DOMAIN outbox[r]
      BY <2>1, <2>5, <3>1, <3>2 DEF PastOK, InOrder
    <3>3. CASE k = n + 1
      BY <2>1, <2>2, <3>1, <3>3
    <3> QED BY <2>3, <3>2, <3>3
  <2> QED BY <2>4, <2>5 DEF InOrder
<1>3. ASSUME NEW r \in Requests, Keeps(r)
      PROVE  /\ \A k \in DOMAIN outbox'[r] : outbox'[r][k].at <= clock
             /\ InOrder(r)'
  BY <1>3 DEF Keeps, PastOK, InOrder
<1>4. ASSUME NEW t \in Sessions, Began(call'[t])
      PROVE  /\ call'[t].at <= clock
             /\ \A r \in Requests : Concerns(call[t], r)' =>
                  \A k \in DOMAIN outbox'[r] : outbox'[r][k].at < call'[t].at
  <2>1. t # s /\ call'[t] = call[t] /\ Began(call[t])
    BY <1>4 DEF Began, IInv, TypeOK
  <2>2. ASSUME NEW r \in Requests, Concerns(call[t], r)'
        PROVE  Keeps(r) /\ Concerns(call[t], r)
    <3>1. CASE Keeps(r)
      BY <2>1, <2>2, <3>1 DEF Keeps, Concerns, Exists
    <3>2. CASE Concerns(call[s], r) /\ Adds(r, call[s].at)
      <4>1. Exists(r)'
        BY <3>2 DEF Adds, Exists
      <4>2. call[t].kind = "scan" \/ (call[t].kind \in {"status", "submit"}
                                      /\ call[t].request = r)
        BY <2>1, <2>2, <4>1 DEF Concerns
      <4>3. call[t].kind \in {"status", "submit"} => Exists(call[t].request)
        BY DEF IInv, CallsOK
      <4> QED BY <2>1, <3>2, <4>2, <4>3 DEF Apart, Concerns
    <3> QED BY <3>1, <3>2
  <2> QED BY <2>1, <2>2 DEF PastOK, Keeps
<1> QED BY <1>2, <1>3, <1>4 DEF PastOK

LEMMA PastNext == IInv /\ PastOK /\ Apart /\ [SystemNext]_systemVars => PastOK'
<1> SUFFICES ASSUME IInv, PastOK, Apart, [SystemNext]_systemVars
             PROVE  PastOK'
  OBVIOUS
<1> QED BY SystemSteps, OutboxSteps, QuietPast, WritingPast

LEMMA PastHolds == SystemSpec /\ []Apart => []PastOK
<1>1. SystemInit => PastOK
  BY DEF SystemInit, Init, PastOK, InOrder, Began
<1>2. SystemInv => IInv
  BY DEF SystemInv
<1> QED BY <1>1, <1>2, SystemInvHolds, PastNext, PTL DEF SystemSpec

LEMMA SettledIsArrived ==
  ASSUME Reporting!Settled, NEW r \in Requests
  PROVE  Reporting!Arrived(r)
  BY DEF Reporting!Settled, Reporting!Arrived

\* As long as no two transactions that may write to one outbox overlap, every
\* request is counted under its status once the events have arrived.
THEOREM ApartDashboardsAreRight == SystemSpec /\ []Apart => []DashboardShowsStatus
<1>1. PastOK /\ OrderedIsShown => DashboardShowsStatus
  BY SettledIsArrived DEF PastOK, OrderedIsShown, DashboardShowsStatus
<1> QED BY <1>1, PastHolds, DashboardsFollowOrder, PTL

\* ... and no snapshot is ever replaced by an earlier event.
THEOREM ApartDashboardsMoveForward == SystemSpec /\ []Apart => SnapshotNeverGoesBack
<1>1. PastOK /\ [\A r \in Requests : InOrder(r) => snapshot'[r].event >= snapshot[r].event]_systemVars
        => [\A r \in Requests : snapshot'[r].event >= snapshot[r].event]_systemVars
  BY DEF PastOK
<1> QED BY <1>1, PastHolds, DashboardsMoveForward, PTL
        DEF OrderedNeverGoesBack, SnapshotNeverGoesBack

\* With a single session transactions cannot overlap at all.
COROLLARY DashboardsInSequence ==
  ASSUME \A s, t \in Sessions : s = t
  PROVE  SystemSpec => []DashboardShowsStatus /\ SnapshotNeverGoesBack
<1>1. Apart
  BY DEF Apart
<1> QED BY <1>1, ApartDashboardsAreRight, ApartDashboardsMoveForward, PTL
=============================================================================
