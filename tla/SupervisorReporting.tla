------------------------ MODULE SupervisorReporting ------------------------
(***************************************************************************)
(* Supervisor requests together with the read model of reporting-service.  *)
(* The acceptance of an assignment commits two events, accepted and        *)
(* completed, with the same created_at.  As in RequestReporting only       *)
(* events of one transaction share theirs.                                 *)
(***************************************************************************)
EXTENDS SupervisorRequests

CONSTANT MaxTime  \* bound on the clock

ASSUME BoundsAssumption == MaxTime \in Nat

VARIABLES published, batch, queue, snapshot

reportingVars == <<published, batch, queue, snapshot>>
systemVars    == <<vars, reportingVars>>

EventLecturer(row) == row.lecturer

Reporting == INSTANCE ReportingProjection WITH LecturerOf <- EventLecturer

SystemInit == Init /\ Reporting!Init

FreshInstant ==
  /\ \A s \in Sessions : call[s].op \notin {"idle", "progress"} => call[s].at # clock
  /\ \A r \in Requests : \A k \in DOMAIN outbox[r] : outbox[r][k].at # clock

RequestStep ==
  /\ Next
  /\ (\E s \in Sessions : call[s] = Idle /\ call'[s] # Idle) => FreshInstant
  /\ UNCHANGED reportingVars

\* The clock of the database.
Tick ==
  /\ clock < MaxTime
  /\ clock' = clock + 1
  /\ UNCHANGED <<requestVars, profile, progress, call, reportingVars>>

ReportingStep == Reporting!Next /\ UNCHANGED vars

SystemSpec == SystemInit /\ [][RequestStep \/ Tick \/ ReportingStep]_systemVars

-----------------------------------------------------------------------------
\* GetLecturerWorkload counts the snapshots of a lecturer in these states.
Counted(r, l) ==
  /\ snapshot[r].lecturer = l
  /\ Reporting!Shown(r) \in {"ASSIGNED", "ACCEPTED", "COMPLETED"}

workload(l) == Cardinality({r \in Requests : Counted(r, l)})

\* The workload reporting-service shows for a lecturer is the number the quota
\* check of academic-service counts, two services that share no table and
\* count by different rules; the order of accepted and completed is no matter.
WorkloadIsQuotaUsed ==
  Reporting!Settled => \A l \in Lecturers : workload(l) = activeCount(l)

\* The transactions on r committed in the order in which they began.
InOrder(r) ==
  \A j, k \in DOMAIN outbox[r] : j < k => outbox[r][j].at <= outbox[r][k].at

\* Handlers that overtake each other are the only thing that misleads the
\* workload, and only about the request they fought for: with its own events
\* projected, a request whose transactions kept their order counts for exactly
\* the lecturer whose quota it uses, whatever happens to other requests.
OrderedIsCounted ==
  \A r \in Requests :
    InOrder(r) /\ Reporting!Arrived(r) =>
      \A l \in Lecturers :
        Counted(r, l) <=> \E i \in DOMAIN assignments[r] : UsesQuota(r, i, l)
=============================================================================
