-------------------------- MODULE RequestReporting --------------------------
(***************************************************************************)
(* Academic requests together with the read model of reporting-service:    *)
(* what the dashboards show, compared with what the requests are.          *)
(*                                                                         *)
(* Two transactions never begin at the same instant: NOW() has microsecond *)
(* resolution, and only events of one transaction share their created_at.  *)
(***************************************************************************)
EXTENDS AcademicRequests

VARIABLES published, batch, queue, snapshot

reportingVars == <<published, batch, queue, snapshot>>
systemVars    == <<vars, reportingVars>>

NoLecturer(row) == Null

Reporting == INSTANCE ReportingProjection WITH LecturerOf <- NoLecturer

SystemInit == Init /\ Reporting!Init

FreshInstant ==
  /\ \A s \in Sessions : call[s] # Idle /\ call[s].kind # "fields" => call[s].at # clock
  /\ \A r \in Requests : \A k \in DOMAIN outbox[r] : outbox[r][k].at # clock

RequestStep ==
  /\ Next
  /\ (\E s \in Sessions : call[s] = Idle /\ call'[s] # Idle) => FreshInstant
  /\ UNCHANGED reportingVars

ReportingStep == Reporting!Next /\ UNCHANGED vars

SystemNext == RequestStep \/ ReportingStep

SystemSpec == SystemInit /\ [][SystemNext]_systemVars

\* The publisher and the consumer keep running; nothing makes anybody create
\* or decide a request.
FairSystemSpec == SystemSpec /\ WF_systemVars(ReportingStep)

-----------------------------------------------------------------------------
\* "The dashboard shows the number of requests per status": with every event
\* projected, each request is counted under the status it has.
DashboardShowsStatus ==
  Reporting!Settled => \A r \in Requests : Reporting!Shown(r) = status[r]

\* The dashboards never go back to an earlier event of a request.
SnapshotNeverGoesBack ==
  [][\A r \in Requests : snapshot'[r].event >= snapshot[r].event]_systemVars

\* The transactions on r committed in the order in which they began.
InOrder(r) ==
  \A j, k \in DOMAIN outbox[r] : j < k => outbox[r][j].at < outbox[r][k].at

\* Handlers that overtake each other are the only thing that misleads the
\* dashboards, and only about the request they fought for: with its own events
\* projected, a request whose transactions kept their order is counted under
\* its status, whatever happens to other requests meanwhile.
OrderedIsShown ==
  \A r \in Requests :
    InOrder(r) /\ Reporting!Arrived(r) => Reporting!Shown(r) = status[r]

\* ... and the dashboards never go back to an earlier event of such a request.
OrderedNeverGoesBack ==
  [][\A r \in Requests :
       InOrder(r) => snapshot'[r].event >= snapshot[r].event]_systemVars

\* A request that has come to an end is eventually counted as such, whatever
\* reminders and resubmissions its events are mixed with, unless its handlers
\* overtake each other.
OrderedEndIsShown ==
  \A r \in Requests : \A end \in Closed :
    status[r] = end ~> Reporting!Shown(r) = end \/ ~InOrder(r)
=============================================================================
