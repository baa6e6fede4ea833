--------------------- MODULE ReportingProjection_proofs ---------------------
(***************************************************************************)
(* What the read model of reporting-service owes to its producer, whoever  *)
(* the producer is: as long as outbox rows are only added, every event of  *)
(* a request whose rows are ordered by created_at is projected after those *)
(* before it.  AcademicRequests_proofs and SupervisorReporting_proofs      *)
(* instantiate the lemmas for the two workflows.                           *)
(***************************************************************************)
EXTENDS ReportingProjection, TLAPS

At(e) == RowOf(e).at

\* What is asked of the producer: its rows are sequences with timestamps ...
Stamped ==
  \A r \in Requests :
    /\ Len(outbox[r]) \in Nat /\ DOMAIN outbox[r] = 1 .. Len(outbox[r])
    /\ \A k \in DOMAIN outbox[r] : outbox[r][k].at \in Nat

\* ... and a step of it leaves the rows there are as they are.
OnlyAdds ==
  \A r \in Requests :
    /\ DOMAIN outbox[r] \subseteq DOMAIN outbox'[r]
    /\ \A k \in DOMAIN outbox[r] : outbox'[r][k] = outbox[r][k]

\* The rows of r were committed in the order of their timestamps.
Sorted(r) ==
  \A j, k \in DOMAIN outbox[r] : j < k => outbox[r][j].at <= outbox[r][k].at

-----------------------------------------------------------------------------
(* The invariant.                                                          *)

Latest(r) == <<r, snapshot[r].event>>

InQueue(e) == \E i \in DOMAIN queue : queue[i] = e

Types ==
  /\ published \subseteq Rows
  /\ batch \subseteq Pending
  /\ queue \in Seq(published)
  /\ DOMAIN snapshot = Requests
  /\ \A r \in Requests :
       snapshot[r] = [event |-> snapshot[r].event, lecturer |-> snapshot[r].lecturer]

\* Every event is projected once: what is published is in the queue, once, or
\* behind the snapshot of its request, which carries its lecturer if it has one.
OnceEach ==
  /\ \A i, j \in DOMAIN queue : queue[i] = queue[j] => i = j
  /\ \A e \in published : InQueue(e) \/ snapshot[e[1]].event # 0
  /\ \A r \in Requests : snapshot[r].event # 0 =>
       /\ Latest(r) \in published /\ ~InQueue(Latest(r))
       /\ LecturerOf(RowOf(Latest(r))) # Null
            => snapshot[r].lecturer = LecturerOf(RowOf(Latest(r)))

\* The events of r pass each of the four stations in the order of created_at.
Ordered(r) ==
  /\ \A e \in published, f \in Pending :
       e[1] = r /\ f[1] = r => At(e) <= At(f)
  /\ \A e \in batch, f \in Pending \ batch :
       e[1] = r /\ f[1] = r => At(e) <= At(f)
  /\ \A i, j \in DOMAIN queue :
       i < j /\ queue[i][1] = r /\ queue[j][1] = r => At(queue[i]) <= At(queue[j])
  /\ snapshot[r].event # 0 =>
       /\ \A i \in DOMAIN queue : queue[i][1] = r => At(Latest(r)) <= At(queue[i])
       /\ \A e \in published : e[1] = r => InQueue(e) \/ At(e) <= At(Latest(r))

ProjectionInv ==
  /\ Types
  /\ OnceEach
  /\ \A r \in Requests : Sorted(r) => Ordered(r)

-----------------------------------------------------------------------------
(* Facts about rows and queues.                                            *)

LEMMA RowParts ==
  ASSUME NEW e \in Rows
  PROVE  e[1] \in Requests /\ e[2] \in DOMAIN outbox[e[1]] /\ e = <<e[1], e[2]>>
<1>1. PICK r \in Requests : \E k \in DOMAIN outbox[r] : e = <<r, k>>
  BY DEF Rows
<1> QED BY <1>1

LEMMA RowStamps ==
  ASSUME Stamped, NEW e \in Rows
  PROVE  At(e) \in Nat
  BY RowParts DEF Stamped, At, RowOf

\* The rows of one request are told apart by their position.
LEMMA SamePlace ==
  ASSUME NEW e \in Rows, NEW f \in Rows, e[1] = f[1], e[2] = f[2]
  PROVE  e = f
  BY RowParts

LEMMA AppendedQueue ==
  ASSUME NEW S, NEW seq \in Seq(S), NEW e
  PROVE  /\ DOMAIN seq \subseteq DOMAIN Append(seq, e)
         /\ Len(seq) + 1 \in DOMAIN Append(seq, e)
         /\ Append(seq, e)[Len(seq) + 1] = e
         /\ \A i \in DOMAIN seq : i \in Nat /\ i < Len(seq) + 1 /\ Append(seq, e)[i] = seq[i]
         /\ \A i \in DOMAIN Append(seq, e) : i \in DOMAIN seq \/ i = Len(seq) + 1
  OBVIOUS

LEMMA ShortenedQueue ==
  ASSUME NEW S, NEW seq \in Seq(S), seq # <<>>
  PROVE  /\ 1 \in DOMAIN seq /\ Head(seq) = seq[1] /\ seq[1] \in S
         /\ Tail(seq) \in Seq(S)
         /\ \A i \in DOMAIN Tail(seq) : i + 1 \in DOMAIN seq /\ Tail(seq)[i] = seq[i + 1]
         /\ \A i \in DOMAIN seq : i # 1 => i - 1 \in DOMAIN Tail(seq) /\ Tail(seq)[i - 1] = seq[i]
         /\ DOMAIN seq \subseteq Nat /\ DOMAIN Tail(seq) \subseteq Nat
  OBVIOUS

-----------------------------------------------------------------------------
(* The initial states.                                                      *)

LEMMA InitProjection ==
  ASSUME Init, \A r \in Requests : outbox[r] = <<>>
  PROVE  ProjectionInv
<1>1. /\ published = {} /\ batch = {} /\ queue = <<>>
      /\ snapshot = [r \in Requests |-> NoSnapshot]
  BY DEF Init
<1>2. Types
  BY <1>1 DEF Types, NoSnapshot
<1>3. OnceEach
  BY <1>1 DEF OnceEach, NoSnapshot
<1>4. ASSUME NEW r \in Requests
      PROVE  Ordered(r)
  <2>1. DOMAIN queue = {} /\ snapshot[r].event = 0
    BY <1>1 DEF NoSnapshot
  <2> QED BY <1>1, <2>1 DEF Ordered
<1> QED BY <1>2, <1>3, <1>4 DEF ProjectionInv

-----------------------------------------------------------------------------
(* The producer adds rows.                                                  *)

\* Rows that are added come after those that are there already.
LEMMA AddedRows ==
  ASSUME Stamped, Stamped', OnlyAdds
  PROVE  /\ Rows \subseteq Rows'
         /\ \A e \in Rows : RowOf(e)' = RowOf(e)
         /\ \A e \in Rows, f \in Rows' \ Rows :
              Sorted(f[1])' /\ e[1] = f[1] => (At(e) <= At(f))'
         /\ \A r \in Requests : Sorted(r)' => Sorted(r)
<1>1. Rows \subseteq Rows'
  BY DEF Rows, OnlyAdds
<1>2. \A e \in Rows : RowOf(e)' = RowOf(e)
  BY RowParts DEF RowOf, OnlyAdds
<1>3. ASSUME NEW e \in Rows, NEW f \in Rows', f \notin Rows, Sorted(f[1])', e[1] = f[1]
      PROVE  (At(e) <= At(f))'
  <2>1. f[1] \in Requests /\ f[2] \in DOMAIN outbox'[f[1]] /\ f = <<f[1], f[2]>>
    <3>1. PICK r \in Requests : \E k \in DOMAIN outbox'[r] : f = <<r, k>>
      BY <1>3 DEF Rows
    <3> QED BY <3>1
  <2>2. e[2] \in DOMAIN outbox[e[1]] /\ e[2] \in DOMAIN outbox'[f[1]]
    BY <1>3, <2>1, RowParts DEF OnlyAdds
  <2>3. f[2] \notin DOMAIN outbox[f[1]]
    BY <1>3, <2>1 DEF Rows
  <2>4. e[2] < f[2]
    <3>1. /\ Len(outbox[f[1]]) \in Nat /\ DOMAIN outbox[f[1]] = 1 .. Len(outbox[f[1]])
          /\ Len(outbox'[f[1]]) \in Nat /\ DOMAIN outbox'[f[1]] = 1 .. Len(outbox'[f[1]])
      BY <2>1 DEF Stamped
    <3>2. e[2] \in 1 .. Len(outbox[f[1]])
      BY <1>3, <2>2, <3>1
    <3> QED BY <2>1, <2>3, <3>1, <3>2
  <2> QED BY <1>3, <2>1, <2>2, <2>4 DEF Sorted, At, RowOf
<1>4. \A r \in Requests : Sorted(r)' => Sorted(r)
  BY DEF Sorted, OnlyAdds
<1> QED BY <1>1, <1>2, <1>3, <1>4

LEMMA ProducerStep ==
  ASSUME ProjectionInv, Stamped, Stamped', OnlyAdds, UNCHANGED vars
  PROVE  ProjectionInv'
<1>1. /\ published' = published /\ batch' = batch /\ queue' = queue
      /\ snapshot' = snapshot
  BY DEF vars
<1>2. Types'
  BY <1>1, AddedRows DEF ProjectionInv, Types, Pending
<1>3. published \subseteq Rows /\ batch \subseteq Rows /\ DOMAIN queue \subseteq Nat
      /\ \A i \in DOMAIN queue : queue[i] \in published
  BY DEF ProjectionInv, Types, Pending
<1>4. OnceEach'
  BY <1>1, <1>3, AddedRows DEF ProjectionInv, OnceEach, Latest, InQueue
<1>5. ASSUME NEW r \in Requests, Sorted(r)'
      PROVE  Ordered(r)'
  <2>1. Ordered(r)
    BY <1>5, AddedRows DEF ProjectionInv
  <2>2. \A e \in Rows : At(e)' = At(e)
    BY AddedRows DEF At
  <2>3. Pending' = Pending \cup (Rows' \ Rows)
    BY <1>1, <1>3, AddedRows DEF Pending
  <2>4. ASSUME NEW e \in Rows, NEW f \in Rows' \ Rows, e[1] = r, f[1] = r
        PROVE  (At(e) <= At(f))'
    BY <1>5, <2>4, AddedRows
  <2>5. \A e \in published, f \in Pending' :
          e[1] = r /\ f[1] = r => (At(e) <= At(f))'
    BY <1>3, <2>1, <2>2, <2>3, <2>4 DEF Ordered, Pending
  <2>6. \A e \in batch, f \in Pending' \ batch :
          e[1] = r /\ f[1] = r => (At(e) <= At(f))'
    BY <1>3, <2>1, <2>2, <2>3, <2>4 DEF Ordered, Pending
  <2>7. \A i, j \in DOMAIN queue :
          i < j /\ queue[i][1] = r /\ queue[j][1] = r => (At(queue[i]) <= At(queue[j]))'
    BY <1>1, <1>3, <2>1, <2>2 DEF Ordered
  <2>8. snapshot[r].event # 0 =>
          /\ \A i \in DOMAIN queue : queue[i][1] = r => (At(Latest(r)) <= At(queue[i]))'
          /\ \A e \in published : e[1] = r => InQueue(e) \/ (At(e) <= At(Latest(r)))'
    <3>1. Latest(r)' = Latest(r)
      BY <1>1 DEF Latest
    <3>2. snapshot[r].event # 0 => Latest(r) \in Rows
      BY <1>3 DEF ProjectionInv, OnceEach
    <3> QED BY <1>1, <1>3, <2>1, <2>2, <3>1, <3>2 DEF Ordered
  <2> QED BY <1>1, <2>5, <2>6, <2>7, <2>8 DEF Ordered, InQueue
<1> QED BY <1>2, <1>4, <1>5 DEF ProjectionInv

-----------------------------------------------------------------------------
(* The publisher.                                                           *)

LEMMA FetchStep ==
  ASSUME ProjectionInv, FetchPendingEvents, UNCHANGED outbox
  PROVE  ProjectionInv'
<1>1. /\ published' = published /\ batch' = Pending /\ queue' = queue
      /\ snapshot' = snapshot /\ Rows' = Rows /\ Pending' = Pending
      /\ \A e : RowOf(e)' = RowOf(e)
  BY DEF FetchPendingEvents, Rows, Pending, RowOf
<1>2. Types'
  BY <1>1 DEF ProjectionInv, Types
<1>3. OnceEach'
  BY <1>1 DEF ProjectionInv, OnceEach, Latest, InQueue
<1>4. ASSUME NEW r \in Requests, Sorted(r)'
      PROVE  Ordered(r)'
  <2>1. Ordered(r)
    BY <1>4 DEF ProjectionInv, Sorted
  <2> QED BY <1>1, <2>1 DEF Ordered, At, Latest, InQueue
<1> QED BY <1>2, <1>3, <1>4 DEF ProjectionInv

\* The event that is sent comes before the rest of the batch, which comes
\* before what was committed after the fetch.
LEMMA PublishStep ==
  ASSUME ProjectionInv, Stamped, NEW e \in batch, Publish(e), UNCHANGED outbox
  PROVE  ProjectionInv'
<1> DEFINE n == Len(queue) + 1
<1>1. /\ published' = published \cup {e} /\ batch' = batch \ {e}
      /\ queue' = Append(queue, e) /\ snapshot' = snapshot
      /\ \A f \in batch : At(e) <= At(f)
      /\ Rows' = Rows /\ Pending' = Pending \ {e}
      /\ \A f : RowOf(f)' = RowOf(f)
  BY DEF Publish, Rows, Pending, RowOf, At
<1>2. /\ published \subseteq Rows /\ batch \subseteq Pending /\ queue \in Seq(published)
      /\ e \in Rows /\ e \notin published
  BY DEF ProjectionInv, Types, Pending
<1>3. \A f : At(f)' = At(f)
  BY <1>1 DEF At
<1>4. /\ DOMAIN queue \subseteq DOMAIN queue' /\ n \in DOMAIN queue' /\ queue'[n] = e
      /\ \A i \in DOMAIN queue :
           i \in Nat /\ i < n /\ queue'[i] = queue[i] /\ queue[i] \in published
      /\ \A i \in DOMAIN queue' : i \in DOMAIN queue \/ i = n
  <2>1. \A i \in DOMAIN queue : queue[i] \in published
    BY <1>2
  <2> QED BY <1>1, <1>2, <2>1, AppendedQueue
<1>5. n \in Nat
  BY <1>2
<1> HIDE DEF n
<1>6. \A f : InQueue(f)' <=> InQueue(f) \/ f = e
  BY <1>4 DEF InQueue
<1>7. Types'
  <2>1. queue' \in Seq(published')
    <3>1. queue \in Seq(published \cup {e})
      BY <1>2
    <3> QED BY <1>1, <3>1
  <2> QED BY <1>1, <1>2, <2>1 DEF ProjectionInv, Types
<1>8. OnceEach'
  <2>1. \A i, j \in DOMAIN queue' : queue'[i] = queue'[j] => i = j
    BY <1>2, <1>4 DEF ProjectionInv, OnceEach
  <2>2. \A f \in published' : InQueue(f)' \/ snapshot'[f[1]].event # 0
    BY <1>1, <1>6 DEF ProjectionInv, OnceEach
  <2>3. ASSUME NEW r \in Requests, snapshot'[r].event # 0
        PROVE  /\ Latest(r)' = Latest(r) /\ Latest(r) \in published /\ ~InQueue(Latest(r))'
               /\ LecturerOf(RowOf(Latest(r))) # Null
                    => snapshot'[r].lecturer = LecturerOf(RowOf(Latest(r)))
    BY <1>1, <1>2, <1>6, <2>3 DEF ProjectionInv, OnceEach, Latest
  <2>4. ASSUME NEW r \in Requests
        PROVE  LecturerOf(RowOf(Latest(r)))' = LecturerOf(RowOf(Latest(r)))
    BY <1>1 DEF Latest, RowOf
  <2> QED BY <1>1, <2>1, <2>2, <2>3, <2>4 DEF OnceEach
<1>9. ASSUME NEW r \in Requests, Sorted(r)'
      PROVE  Ordered(r)'
  <2>1. Ordered(r)
    BY <1>9 DEF ProjectionInv, Sorted
  <2>2. ASSUME NEW f \in Pending, e[1] = r, f[1] = r
        PROVE  At(e) <= At(f)
    BY <1>1, <2>1, <2>2 DEF Ordered
  <2>3. ASSUME NEW f \in published', NEW g \in Pending', f[1] = r, g[1] = r
        PROVE  At(f) <= At(g)
    BY <1>1, <2>1, <2>2, <2>3 DEF Ordered
  <2>4. ASSUME NEW f \in batch', NEW g \in Pending' \ batch', f[1] = r, g[1] = r
        PROVE  At(f) <= At(g)
    BY <1>1, <2>1, <2>4 DEF Ordered
  <2>5. ASSUME NEW i \in DOMAIN queue', NEW j \in DOMAIN queue', i < j,
               queue'[i][1] = r, queue'[j][1] = r
        PROVE  At(queue'[i]) <= At(queue'[j])
    <3>1. i \in DOMAIN queue
      BY <1>4, <1>5, <2>5
    <3>2. CASE j \in DOMAIN queue
      BY <1>4, <2>1, <2>5, <3>1, <3>2 DEF Ordered
    <3>3. CASE j = n
      <4>1. queue'[j] = e /\ queue'[i] = queue[i] /\ queue[i] \in published
        BY <1>4, <3>1, <3>3
      <4>2. e \in Pending
        BY <1>2
      <4> QED BY <2>1, <2>5, <4>1, <4>2 DEF Ordered
    <3> QED BY <1>4, <3>2, <3>3
  <2>6. ASSUME snapshot[r].event # 0, NEW i \in DOMAIN queue', queue'[i][1] = r
        PROVE  At(Latest(r)) <= At(queue'[i])
    <3>1. CASE i \in DOMAIN queue
      BY <1>4, <2>1, <2>6, <3>1 DEF Ordered
    <3>2. CASE i = n
      <4>1. Latest(r) \in published /\ Latest(r)[1] = r /\ e \in Pending
        BY <1>2, <2>6 DEF ProjectionInv, OnceEach, Latest
      <4> QED BY <1>4, <2>1, <2>6, <3>2, <4>1 DEF Ordered
    <3> QED BY <1>4, <3>1, <3>2
  <2>7. ASSUME snapshot[r].event # 0, NEW f \in published', f[1] = r
        PROVE  InQueue(f)' \/ At(f) <= At(Latest(r))
    BY <1>1, <1>6, <2>1, <2>7 DEF Ordered
  <2>8. Latest(r)' = Latest(r) /\ snapshot' = snapshot
    BY <1>1 DEF Latest
  <2>9. At(Latest(r))' = At(Latest(r))
    BY <1>1, <2>8 DEF At, RowOf
  <2>10. snapshot'[r].event # 0 =>
           /\ \A i \in DOMAIN queue' : queue'[i][1] = r => (At(Latest(r)) <= At(queue[i]))'
           /\ \A f \in published' : f[1] = r => InQueue(f)' \/ (At(f) <= At(Latest(r)))'
    BY <1>3, <2>6, <2>7, <2>8, <2>9
  <2> QED BY <1>3, <2>3, <2>4, <2>5, <2>10 DEF Ordered
<1> QED BY <1>7, <1>8, <1>9 DEF ProjectionInv

-----------------------------------------------------------------------------
(* The consumer.                                                            *)

\* The head of the queue replaces what came before it, and it is another event.
LEMMA UpsertStep ==
  ASSUME ProjectionInv, Stamped, UpsertRequestSnapshot, UNCHANGED outbox
  PROVE  ProjectionInv'
<1>0. PICK e : e = Head(queue)
  OBVIOUS
<1>1. /\ published' = published /\ batch' = batch /\ queue' = Tail(queue) /\ queue # <<>>
      /\ Rows' = Rows /\ Pending' = Pending
      /\ \A f : RowOf(f)' = RowOf(f)
      /\ snapshot' = [snapshot EXCEPT ![e[1]] =
                        [event |-> e[2],
                         lecturer |-> Coalesce(LecturerOf(RowOf(e)), @.lecturer)]]
  BY <1>0 DEF UpsertRequestSnapshot, Rows, Pending, RowOf
<1>2. /\ published \subseteq Rows /\ queue \in Seq(published) /\ DOMAIN snapshot = Requests
  BY DEF ProjectionInv, Types
<1>3. /\ 1 \in DOMAIN queue /\ e = queue[1] /\ e \in published /\ queue' \in Seq(published)
      /\ \A i \in DOMAIN queue' : i + 1 \in DOMAIN queue /\ queue'[i] = queue[i + 1]
      /\ \A i \in DOMAIN queue : i # 1 => i - 1 \in DOMAIN queue' /\ queue'[i - 1] = queue[i]
      /\ DOMAIN queue \subseteq Nat /\ DOMAIN queue' \subseteq Nat
      /\ \A i \in DOMAIN queue : i >= 1
  BY <1>0, <1>1, <1>2, ShortenedQueue
<1>4. /\ e[1] \in Requests /\ e[2] \in DOMAIN outbox[e[1]] /\ e = <<e[1], e[2]>>
      /\ e \in Rows
  BY <1>2, <1>3, RowParts
<1>5. e[2] # 0
  <2>1. Len(outbox[e[1]]) \in Nat /\ e[2] \in 1 .. Len(outbox[e[1]])
    BY <1>4 DEF Stamped
  <2> QED BY <2>1
<1>6. /\ snapshot'[e[1]].event = e[2]
      /\ snapshot'[e[1]].lecturer = Coalesce(LecturerOf(RowOf(e)), snapshot[e[1]].lecturer)
      /\ snapshot'[e[1]] = [event |-> snapshot'[e[1]].event,
                            lecturer |-> snapshot'[e[1]].lecturer]
      /\ \A r \in Requests : r # e[1] => snapshot'[r] = snapshot[r]
      /\ DOMAIN snapshot' = Requests
  BY <1>1, <1>2, <1>4
<1>7. \A f : InQueue(f) => f = e \/ InQueue(f)'
  BY <1>3 DEF InQueue
<1>8. \A f : InQueue(f)' => InQueue(f) /\ f # e
  <2> SUFFICES ASSUME NEW i \in DOMAIN queue'
               PROVE  InQueue(queue'[i]) /\ queue'[i] # e
    BY DEF InQueue
  <2>1. i + 1 \in DOMAIN queue /\ queue'[i] = queue[i + 1] /\ i \in Nat
    BY <1>3
  <2>2. i + 1 # 1
    <3>1. i # 0
      <4>1. DOMAIN queue' = 1 .. Len(queue')
        BY <1>3
      <4> QED BY <1>3, <4>1
    <3> QED BY <2>1, <3>1
  <2> QED BY <1>3, <2>1, <2>2 DEF ProjectionInv, OnceEach, InQueue
<1>9. Types'
  BY <1>1, <1>3, <1>6 DEF ProjectionInv, Types
<1>10. /\ Latest(e[1])' = e
       /\ \A r \in Requests : r # e[1] => Latest(r)' = Latest(r)
  BY <1>4, <1>6 DEF Latest
<1>11. OnceEach'
  <2>1. \A i, j \in DOMAIN queue' : queue'[i] = queue'[j] => i = j
    <3> SUFFICES ASSUME NEW i \in DOMAIN queue', NEW j \in DOMAIN queue',
                        queue'[i] = queue'[j]
                 PROVE  i = j
      OBVIOUS
    <3>1. i + 1 = j + 1
      BY <1>3 DEF ProjectionInv, OnceEach
    <3> QED BY <1>3, <3>1
  <2>2. \A f \in published' : InQueue(f)' \/ snapshot'[f[1]].event # 0
    <3> SUFFICES ASSUME NEW f \in published, ~InQueue(f)'
                 PROVE  snapshot'[f[1]].event # 0
      BY <1>1
    <3>1. f[1] \in Requests
      BY <1>2, RowParts
    <3>2. CASE f[1] = e[1]
      BY <1>5, <1>6, <3>2
    <3>3. CASE f[1] # e[1]
      BY <1>6, <1>7, <3>1, <3>3 DEF ProjectionInv, OnceEach
    <3> QED BY <3>2, <3>3
  <2>3. ASSUME NEW r \in Requests, snapshot'[r].event # 0
        PROVE  /\ Latest(r)' \in published
               /\ \A i \in DOMAIN queue' : queue'[i] # Latest(r)'
               /\ LecturerOf(RowOf(Latest(r)')) # Null
                    => snapshot'[r].lecturer = LecturerOf(RowOf(Latest(r)'))
    <3>1. CASE r = e[1]
      BY <1>3, <1>6, <1>8, <1>10, <3>1 DEF Coalesce, InQueue
    <3>2. CASE r # e[1]
      <4>1. /\ Latest(r)' = Latest(r) /\ snapshot'[r] = snapshot[r]
            /\ ~InQueue(Latest(r))' /\ Latest(r) \in published
        BY <1>6, <1>8, <1>10, <2>3, <3>2 DEF ProjectionInv, OnceEach
      <4>2. LecturerOf(RowOf(Latest(r))) # Null
              => snapshot[r].lecturer = LecturerOf(RowOf(Latest(r)))
        BY <2>3, <4>1 DEF ProjectionInv, OnceEach
      <4>3. \A i \in DOMAIN queue' : queue'[i] # Latest(r)
        BY <1>8, <2>3, <4>1 DEF ProjectionInv, OnceEach, InQueue
      <4> QED BY <4>1, <4>2, <4>3
    <3> QED BY <3>1, <3>2
  <2>4. ASSUME NEW r \in Requests
        PROVE  LecturerOf(RowOf(Latest(r)))' = LecturerOf(RowOf(Latest(r)'))
    BY <1>1 DEF RowOf
  <2>5. ASSUME NEW r \in Requests, snapshot'[r].event # 0
        PROVE  ~InQueue(Latest(r))'
    BY <2>3, <2>5 DEF InQueue
  <2> QED BY <1>1, <2>1, <2>2, <2>3, <2>4, <2>5 DEF OnceEach
<1>12. \A f : At(f)' = At(f)
  BY <1>1 DEF At
<1>13. ASSUME NEW r \in Requests, Sorted(r)'
       PROVE  Ordered(r)'
  <2>1. Ordered(r)
    BY <1>13 DEF ProjectionInv, Sorted
  <2>2. ASSUME NEW i \in DOMAIN queue', NEW j \in DOMAIN queue', i < j,
               queue'[i][1] = r, queue'[j][1] = r
        PROVE  At(queue'[i]) <= At(queue'[j])
    <3>1. /\ i + 1 \in DOMAIN queue /\ j + 1 \in DOMAIN queue /\ i + 1 < j + 1
          /\ queue'[i] = queue[i + 1] /\ queue'[j] = queue[j + 1]
      BY <1>3, <2>2
    <3> QED BY <2>1, <2>2, <3>1 DEF Ordered
  <2>3. ASSUME NEW i \in DOMAIN queue', queue'[i][1] = r, snapshot'[r].event # 0
        PROVE  At(Latest(r)') <= At(queue'[i])
    <3>1. i + 1 \in DOMAIN queue /\ queue'[i] = queue[i + 1] /\ i + 1 > 1
      <4>1. DOMAIN queue' = 1 .. Len(queue')
        BY <1>3
      <4> QED BY <1>3, <4>1
    <3>2. CASE r = e[1]
      <4>1. At(queue[1]) <= At(queue[i + 1])
        BY <1>3, <2>1, <2>3, <3>1, <3>2 DEF Ordered
      <4> QED BY <1>3, <1>10, <3>1, <3>2, <4>1
    <3>3. CASE r # e[1]
      BY <1>6, <1>10, <2>1, <2>3, <3>1, <3>3 DEF Ordered
    <3> QED BY <3>2, <3>3
  <2>4. ASSUME NEW f \in published, f[1] = r, snapshot'[r].event # 0, ~InQueue(f)'
        PROVE  At(f) <= At(Latest(r)')
    <3>1. f \in Rows
      BY <1>2
    <3>2. CASE r = e[1] /\ f = e
      BY <1>10, <3>1, <3>2, RowStamps
    <3>3. CASE r = e[1] /\ f # e
      <4>1. ~InQueue(f)
        BY <1>7, <2>4, <3>3
      <4>2. snapshot[r].event # 0 /\ At(f) <= At(Latest(r))
        BY <2>1, <2>4, <4>1 DEF ProjectionInv, OnceEach, Ordered
      <4>3. At(Latest(r)) <= At(e)
        BY <1>3, <2>1, <3>3, <4>2 DEF Ordered
      <4>4. Latest(r) \in Rows
        BY <1>2, <4>2 DEF ProjectionInv, OnceEach
      <4>5. At(f) \in Nat /\ At(Latest(r)) \in Nat /\ At(e) \in Nat
        BY <1>4, <3>1, <4>4, RowStamps
      <4> QED BY <1>10, <3>3, <4>2, <4>3, <4>5
    <3>4. CASE r # e[1]
      BY <1>6, <1>7, <1>10, <2>1, <2>4, <3>4 DEF Ordered
    <3> QED BY <3>2, <3>3, <3>4
  <2>5. At(Latest(r))' = At(Latest(r)')
    BY <1>1 DEF At, RowOf
  <2>6. \A i \in DOMAIN queue' : At(queue[i])' = At(queue'[i])
    BY <1>1 DEF At, RowOf
  <2> QED BY <1>1, <1>12, <2>1, <2>2, <2>3, <2>4, <2>5, <2>6 DEF Ordered
<1> QED BY <1>9, <1>11, <1>13 DEF ProjectionInv

\* A step of the publisher or of the consumer.
LEMMA ProjectionStep ==
  ASSUME ProjectionInv, Stamped, Next, UNCHANGED outbox
  PROVE  ProjectionInv'
BY FetchStep, PublishStep, UpsertStep DEF Next

-----------------------------------------------------------------------------
(* What the invariant says about the snapshots.                            *)

\* With all events of an ordered request projected, its snapshot is of a last
\* one: none is later, and its lecturer is that event's if it names one.
LEMMA LastIsShown ==
  ASSUME ProjectionInv, Stamped, NEW r \in Requests, Sorted(r), Arrived(r),
         Len(outbox[r]) > 0
  PROVE  /\ snapshot[r].event \in DOMAIN outbox[r]
         /\ outbox[r][snapshot[r].event].at = outbox[r][Len(outbox[r])].at
         /\ LecturerOf(outbox[r][snapshot[r].event]) # Null
              => snapshot[r].lecturer = LecturerOf(outbox[r][snapshot[r].event])
<1> DEFINE n    == Len(outbox[r])
           m    == snapshot[r].event
           last == <<r, n>>
<1>1. /\ n \in Nat /\ DOMAIN outbox[r] = 1 .. n /\ n \in DOMAIN outbox[r]
      /\ \A k \in DOMAIN outbox[r] : outbox[r][k].at \in Nat
  BY DEF Stamped
<1>2. last \in published
  BY <1>1 DEF Arrived, Pending, Rows
<1>3. ~InQueue(last)
  BY DEF Arrived, InQueue
<1>4. m # 0
  BY <1>2, <1>3 DEF ProjectionInv, OnceEach
<1>5. /\ Latest(r) \in published
      /\ LecturerOf(RowOf(Latest(r))) # Null
           => snapshot[r].lecturer = LecturerOf(RowOf(Latest(r)))
  BY <1>4 DEF ProjectionInv, OnceEach
<1>6. m \in DOMAIN outbox[r]
  BY <1>5, RowParts DEF ProjectionInv, Types, Latest
<1>7. At(last) <= At(Latest(r))
  BY <1>2, <1>3, <1>4 DEF ProjectionInv, Ordered
<1>8. outbox[r][n].at <= outbox[r][m].at
  BY <1>7 DEF At, RowOf, Latest
<1>9. m = n \/ outbox[r][m].at <= outbox[r][n].at
  BY <1>1, <1>6 DEF Sorted
<1>10. outbox[r][m].at = outbox[r][n].at
  BY <1>1, <1>6, <1>8, <1>9
<1>11. RowOf(Latest(r)) = outbox[r][m]
  BY DEF RowOf, Latest
<1> QED BY <1>5, <1>6, <1>10, <1>11

\* Nothing of a request that has no events is shown.
LEMMA NothingIsShown ==
  ASSUME ProjectionInv, NEW r \in Requests, DOMAIN outbox[r] = {}
  PROVE  snapshot[r].event = 0
BY RowParts DEF ProjectionInv, OnceEach, Types, Latest

LEMMA ShownPosition ==
  ASSUME ProjectionInv, Stamped, NEW r \in Requests
  PROVE  snapshot[r].event \in Nat
<1>1. CASE snapshot[r].event # 0
  <2>1. snapshot[r].event \in DOMAIN outbox[r]
    BY <1>1, RowParts DEF ProjectionInv, OnceEach, Types, Latest
  <2>2. Len(outbox[r]) \in Nat /\ snapshot[r].event \in 1 .. Len(outbox[r])
    BY <2>1 DEF Stamped
  <2> QED BY <2>2
<1> QED BY <1>1

\* The snapshot of an ordered request goes from an event to a later one.
LEMMA SnapshotMoves ==
  ASSUME ProjectionInv, Stamped, NEW r \in Requests, Sorted(r), Next, UNCHANGED outbox,
         snapshot'[r] # snapshot[r]
  PROVE  /\ snapshot'[r].event \in DOMAIN outbox[r]
         /\ snapshot[r].event # 0 =>
              /\ snapshot[r].event \in DOMAIN outbox[r]
              /\ snapshot'[r].event # snapshot[r].event
              /\ outbox[r][snapshot[r].event].at <= outbox[r][snapshot'[r].event].at
<1> DEFINE e == Head(queue)
<1>1. UpsertRequestSnapshot
  BY DEF Next, FetchPendingEvents, Publish
<1>2. /\ queue # <<>> /\ queue \in Seq(published) /\ DOMAIN snapshot = Requests
      /\ published \subseteq Rows
  BY <1>1 DEF UpsertRequestSnapshot, ProjectionInv, Types
<1>3. 1 \in DOMAIN queue /\ e = queue[1] /\ e \in Rows
  BY <1>2, ShortenedQueue
<1>4. snapshot' = [snapshot EXCEPT ![e[1]] =
                     [event |-> e[2],
                      lecturer |-> Coalesce(LecturerOf(RowOf(e)), @.lecturer)]]
  BY <1>1 DEF UpsertRequestSnapshot
<1> HIDE DEF e
<1>5. e[1] = r /\ snapshot'[r].event = e[2] /\ e[2] \in DOMAIN outbox[r] /\ e = <<r, e[2]>>
  BY <1>2, <1>3, <1>4, RowParts
<1>6. ASSUME snapshot[r].event # 0
      PROVE  /\ Latest(r) \in Rows /\ Latest(r) # e /\ At(Latest(r)) <= At(e)
  BY <1>2, <1>3, <1>5, <1>6 DEF ProjectionInv, OnceEach, InQueue, Ordered
<1> QED BY <1>5, <1>6, RowParts DEF Latest, At, RowOf
=============================================================================
