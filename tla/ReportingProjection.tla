------------------------ MODULE ReportingProjection ------------------------
(***************************************************************************)
(* The read model of reporting-service when nothing fails: the outbox      *)
(* publisher of academic-service sends the pending events, the broker      *)
(* keeps their order, and the consumer projects each one onto the snapshot *)
(* of its request.  EventDelivery models the same path with its failures   *)
(* and without the contents; here every event arrives exactly once, so     *)
(* what goes wrong does so without any fault.                              *)
(*                                                                         *)
(* The publisher reads ORDER BY created_at, which is the time at which a   *)
(* transaction began, not the order in which transactions committed, and   *)
(* leaves the order of equal times open.  The upsert replaces the snapshot *)
(* with whatever arrives, it compares no version.                          *)
(*                                                                         *)
(* Less than LIMIT rows are ever pending, so a batch is all of them.       *)
(***************************************************************************)
EXTENDS Naturals, Sequences

CONSTANTS
  Requests,
  LecturerOf(_),  \* the lecturer_id of an event's payload, Null if it has none
  Null

VARIABLES
  outbox,     \* outbox_events of each request, in commit order
  published,  \* the events whose row is PUBLISHED, as <<request, position>>
  batch,      \* the events fetched and not sent yet
  queue,      \* the queue of reporting-service
  snapshot    \* each request's source_event_id (0: no row) and lecturer_id

vars == <<published, batch, queue, snapshot>>

Rows == UNION {{<<r, k>> : k \in DOMAIN outbox[r]} : r \in Requests}

Pending == Rows \ published

RowOf(e) == outbox[e[1]][e[2]]

NoSnapshot == [event |-> 0, lecturer |-> Null]

Init ==
  /\ published = {}
  /\ batch     = {}
  /\ queue     = <<>>
  /\ snapshot  = [r \in Requests |-> NoSnapshot]

FetchPendingEvents ==
  /\ batch = {}
  /\ Pending # {}
  /\ batch' = Pending
  /\ UNCHANGED <<published, queue, snapshot>>

\* Faulty: the batch is sent in any order.
PublishUnordered(e) ==
  /\ e \in batch
  /\ queue'     = Append(queue, e)
  /\ published' = published \cup {e}
  /\ batch'     = batch \ {e}
  /\ UNCHANGED snapshot

\* Publish and MarkAsPublished of the next event of the batch.
Publish(e) ==
  /\ e \in batch
  /\ \A f \in batch : RowOf(e).at <= RowOf(f).at
  /\ queue'     = Append(queue, e)
  /\ published' = published \cup {e}
  /\ batch'     = batch \ {e}
  /\ UNCHANGED snapshot

Coalesce(a, b) == IF a = Null THEN b ELSE a

\* Faulty: ON CONFLICT DO NOTHING.
InsertSnapshotOnce ==
  /\ queue # <<>>
  /\ LET e == Head(queue)
     IN  snapshot' = [snapshot EXCEPT ![e[1]] =
                        IF @ = NoSnapshot
                        THEN [event |-> e[2], lecturer |-> LecturerOf(RowOf(e))]
                        ELSE @]
  /\ queue' = Tail(queue)
  /\ UNCHANGED <<published, batch>>

UpsertRequestSnapshot ==
  /\ queue # <<>>
  /\ LET e == Head(queue)
     IN  snapshot' = [snapshot EXCEPT ![e[1]] =
                        [event |-> e[2],
                         lecturer |-> Coalesce(LecturerOf(RowOf(e)), @.lecturer)]]
  /\ queue' = Tail(queue)
  /\ UNCHANGED <<published, batch>>

Next ==
  \/ FetchPendingEvents
  \/ \E e \in batch : Publish(e)
  \/ UpsertRequestSnapshot

-----------------------------------------------------------------------------
\* The status the dashboards show for a request.
Shown(r) ==
  IF snapshot[r].event = 0 THEN "NONE" ELSE outbox[r][snapshot[r].event].status

\* Every committed event of r has been sent and projected.
Arrived(r) ==
  /\ \A e \in Pending : e[1] # r
  /\ \A i \in DOMAIN queue : queue[i][1] # r

\* Every committed event has been sent and projected.
Settled == Pending = {} /\ queue = <<>>
=============================================================================
