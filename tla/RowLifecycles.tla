--------------------------- MODULE RowLifecycles ---------------------------
(***************************************************************************)
(* What academic-service accepts for a row that a page of the web          *)
(* application displays with its status.  There are five kinds of such     *)
(* rows.  Move(k, from, to) is a call that needs one of the statuses `from'*)
(* and leaves the row in `to'; an edit leaves the status as it is.         *)
(***************************************************************************)
EXTENDS Transitions

FinalDocumentTransitions == [
  SUBMITTED          |-> {"UNDER_REVIEW"},
  UNDER_REVIEW       |-> {"APPROVED", "REVISION_REQUESTED", "REJECTED"},
  REVISION_REQUESTED |-> {"SUBMITTED"},
  APPROVED           |-> {},
  REJECTED           |-> {}]

GuidanceStatus == {"DRAFT", "SUBMITTED", "REVISION_REQUIRED", "APPROVED"}
BookingStatus  == {"PENDING", "APPROVED", "REJECTED", "CANCELLED", "RESCHEDULED"}

RowStatus == [
  academic   |-> AcademicStatus,
  supervisor |-> SupervisorStatus,
  final      |-> DOMAIN FinalDocumentTransitions,
  guidance   |-> GuidanceStatus,
  booking    |-> BookingStatus]

\* The status a row is inserted with.
Created == [
  academic   |-> "SUBMITTED",
  supervisor |-> "SUBMITTED",
  final      |-> "SUBMITTED",
  guidance   |-> "DRAFT",
  booking    |-> "PENDING"]

\* The table of the database the rows of a kind are stored in.
RowTable == [
  academic   |-> "requests",
  supervisor |-> "supervisorRequests",
  final      |-> "finalDocuments",
  guidance   |-> "guidanceLogs",
  booking    |-> "bookings"]

Unchanged == "unchanged"
Move(kind, from, to) == [kind |-> kind, from |-> from, to |-> to]

\* The handlers of academic requests, one by one and in bulk.
AcademicMove(to) == Move("academic", AllowedFrom(AcademicTransitions, to), to)
AcademicMoves == [
  verifyAcademicRequest          |-> AcademicMove("VERIFIED"),
  bulkVerifyAcademicRequests     |-> AcademicMove("VERIFIED"),
  approveAcademicRequest         |-> AcademicMove("APPROVED"),
  bulkApproveAcademicRequests    |-> AcademicMove("APPROVED"),
  rejectAcademicRequest          |-> AcademicMove("REJECTED"),
  bulkRejectAcademicRequests     |-> AcademicMove("REJECTED"),
  completeAcademicRequest        |-> AcademicMove("COMPLETED"),
  requestRevisionAcademicRequest |-> AcademicMove("REVISION_REQUIRED"),
  submitAcademicRequest          |-> AcademicMove("SUBMITTED"),
  cancelAcademicRequest          |-> AcademicMove("CANCELLED"),
  updateAcademicRequest          |-> Move("academic", {"DRAFT", "REVISION_REQUIRED"}, Unchanged)]

\* The handlers of supervisor requests.  Accepting completes the request in the
\* same transaction.
SupervisorMove(to) == Move("supervisor", AllowedFrom(SupervisorTransitions, to), to)
SupervisorMoves == [
  verifySupervisorRequest          |-> SupervisorMove("VERIFIED"),
  requestRevisionSupervisorRequest |-> SupervisorMove("REVISION_REQUIRED"),
  assignSupervisor                 |-> Move("supervisor", {"VERIFIED"}, "ASSIGNED"),
  reassignSupervisor               |-> Move("supervisor", {"REJECTED"}, "ASSIGNED"),
  acceptSupervisorRequest          |-> Move("supervisor", {"ASSIGNED"}, "COMPLETED"),
  rejectSupervisorRequest          |-> Move("supervisor", {"ASSIGNED"}, "REJECTED"),
  cancelSupervisorRequest          |-> SupervisorMove("CANCELLED")]

\* The handlers of final documents.
FinalMove(to) == Move("final", AllowedFrom(FinalDocumentTransitions, to), to)
FinalDocumentMoves == [
  startFinalDocumentReview     |-> FinalMove("UNDER_REVIEW"),
  approveFinalDocument         |-> FinalMove("APPROVED"),
  requestRevisionFinalDocument |-> FinalMove("REVISION_REQUESTED"),
  rejectFinalDocument          |-> FinalMove("REJECTED")]

\* The handlers of guidance logs look at the status only before a deletion.
GuidanceMoves == [
  updateGuidanceLog          |-> Move("guidance", GuidanceStatus, Unchanged),
  submitGuidanceLog          |-> Move("guidance", GuidanceStatus, "SUBMITTED"),
  approveGuidanceLog         |-> Move("guidance", GuidanceStatus, "APPROVED"),
  requestRevisionGuidanceLog |-> Move("guidance", GuidanceStatus, "REVISION_REQUIRED"),
  deleteGuidanceLog          |-> Move("guidance", {"DRAFT"}, Unchanged)]

\* The handlers of consultation bookings.  Accepting a reschedule cancels the
\* booking it replaces.
BookingMoves == [
  approveBooking    |-> Move("booking", {"PENDING"}, "APPROVED"),
  rejectBooking     |-> Move("booking", {"PENDING"}, "REJECTED"),
  rescheduleBooking |-> Move("booking", {"PENDING"}, "RESCHEDULED"),
  cancelBooking     |-> Move("booking", {"PENDING", "RESCHEDULED"}, "CANCELLED"),
  acceptReschedule  |-> Move("booking", {"RESCHEDULED"}, "CANCELLED")]

Moves == [c \in UNION {DOMAIN AcademicMoves, DOMAIN SupervisorMoves, DOMAIN FinalDocumentMoves,
                       DOMAIN GuidanceMoves, DOMAIN BookingMoves} |->
  CASE c \in DOMAIN AcademicMoves      -> AcademicMoves[c]
    [] c \in DOMAIN SupervisorMoves    -> SupervisorMoves[c]
    [] c \in DOMAIN FinalDocumentMoves -> FinalDocumentMoves[c]
    [] c \in DOMAIN GuidanceMoves      -> GuidanceMoves[c]
    [] OTHER                           -> BookingMoves[c]]

\* The requests that name several rows: a row whose status does not fit is
\* reported inside the answer, and the request as a whole succeeds.
BulkCalls == {"bulkVerifyAcademicRequests", "bulkApproveAcademicRequests",
              "bulkRejectAcademicRequests"}

\* The answer of the service to a call about a row, and the row it leaves.
Permits(call, status) == call \in DOMAIN Moves => status \in Moves[call].from
After(call, status) ==
  IF call \notin DOMAIN Moves \/ ~Permits(call, status) \/ Moves[call].to = Unchanged
  THEN status
  ELSE Moves[call].to

\* The statuses a row of a kind can get into; "none" stands for a list without.
Rows(kind) ==
  IF kind = "none" THEN {"none"}
  ELSE {Created[kind]} \cup
         ({Moves[c].to : c \in {d \in DOMAIN Moves : Moves[d].kind = kind}} \ {Unchanged})

\* A status no handler moves a row of this kind out of.
Final(kind, status) ==
  \A c \in DOMAIN Moves :
    Moves[c].kind = kind => After(c, status) = status
=============================================================================
