---------------------------- MODULE Consultation ----------------------------
(***************************************************************************)
(* Consultation hours of one lecturer: the slots she offers, the bookings  *)
(* of her students, and the worker that reminds them.  Every handler reads *)
(* in one statement and writes in another, without a transaction and       *)
(* without a lock, so an operation is one step that checks and one or two  *)
(* that write; anything may happen in between, and the operation may end   *)
(* there (an error, a timeout, the end of the process).                    *)
(*                                                                         *)
(* Time is counted in units of BookAhead-th parts of twelve hours.  Slots  *)
(* have one length, so two of them overlap when they start together.       *)
(***************************************************************************)
EXTENDS Naturals, FiniteSets

CONSTANTS
  Slot,          \* rows of consultation_slots
  Student,
  Session,       \* concurrent calls of the service
  Hour,          \* starts of slots
  Places,        \* values of max_bookings
  BookAhead,     \* twelve hours
  MaxTime,       \* bound on the clock
  MaxCalls,      \* bound on the number of calls
  None           \* SQL NULL

ASSUME ConsultationAssumption ==
  /\ IsFiniteSet(Student)
  /\ Hour \subseteq Nat /\ Places \subseteq Nat \ {0}
  /\ BookAhead \in Nat \ {0} /\ MaxTime \in Nat /\ MaxCalls \in Nat
  /\ None \notin Slot

VARIABLES
  clock,
  slot,          \* consultation_slots
  booking,       \* consultation_bookings, unique in slot and student
  call,          \* what a session is about to write, with what it has read
  calls          \* calls made

vars == <<clock, slot, booking, call, calls>>

BookingStatus == {"PENDING", "APPROVED", "REJECTED", "CANCELLED", "RESCHEDULED"}
Closed == {"REJECTED", "CANCELLED"}
Active == BookingStatus \ Closed

NoRow == [status |-> "none", proposed |-> None, reminded |-> FALSE]
Idle  == [kind |-> "idle"]

SlotRow == [state : {"none", "open", "cancelled"}, hour : Hour, places : Places]
BookingRow == [status : BookingStatus \cup {"none"}, proposed : Slot \cup {None},
               reminded : BOOLEAN]
Call ==
  {Idle}
  \cup [kind : {"create"}, hour : Hour, places : Places]
  \cup [kind : {"update"}, slot : Slot, hour : Hour, places : Places]
  \cup [kind : {"empty"}, slot : Slot]
  \cup [kind : {"book"}, slot : Slot, student : Student, held : Nat, places : Places]
  \cup [kind : {"accept"}, slot : Slot, student : Student, proposed : Slot]
  \cup [kind : {"set"}, slot : Slot, student : Student, seen : Active,
        status : BookingStatus, proposed : Slot \cup {None}]

-----------------------------------------------------------------------------
(* What the checks read.                                                   *)

Overlaps(s, h) == slot[s].state = "open" /\ slot[s].hour = h

CheckSlotOverlap(h, others) == \E s \in others : Overlaps(s, h)

\* current_bookings
Held(s) == Cardinality({t \in Student : booking[s][t].status \in Active})

Today(h) == h \div (2 * BookAhead) = clock \div (2 * BookAhead)
InPast(h) == h < clock /\ ~Today(h)

\* Faulty: the last place is given away twice.
ValidateAtMostFull(s, t) ==
  /\ slot[s].state = "open"
  /\ Held(s) <= slot[s].places
  /\ slot[s].hour >= clock + BookAhead
  /\ booking[s][t].status \notin Active

ValidateStudentCanBook(s, t) ==
  /\ slot[s].state = "open"
  /\ Held(s) < slot[s].places
  /\ slot[s].hour >= clock + BookAhead
  /\ booking[s][t].status \notin Active

-----------------------------------------------------------------------------
(* One call: its begin, and what may become of it.                         *)

Begin(p, c) ==
  /\ call[p] = Idle /\ calls < MaxCalls
  /\ call' = [call EXCEPT ![p] = c]
  /\ calls' = calls + 1
  /\ UNCHANGED <<clock, slot, booking>>

Continue(p, c) ==
  /\ call' = [call EXCEPT ![p] = c]
  /\ UNCHANGED <<clock, calls>>

Fail(p) ==
  /\ call[p] # Idle
  /\ Continue(p, Idle) /\ UNCHANGED <<slot, booking>>

(* Slots.                                                                  *)

CreateSlot(p, h, n) ==
  /\ ~InPast(h) /\ ~CheckSlotOverlap(h, Slot)
  /\ Begin(p, [kind |-> "create", hour |-> h, places |-> n])

InsertSlot(p) ==
  /\ call[p].kind = "create"
  /\ \E s \in Slot :
       /\ slot[s].state = "none"
       /\ slot' = [slot EXCEPT ![s] = [state |-> "open", hour |-> call[p].hour,
                                       places |-> call[p].places]]
  /\ Continue(p, Idle) /\ UNCHANGED booking

UpdateSlot(p, s, h, n) ==
  /\ slot[s].state # "none" /\ ~CheckSlotOverlap(h, Slot \ {s})
  /\ Begin(p, [kind |-> "update", slot |-> s, hour |-> h, places |-> n])

WriteSlot(p) ==
  /\ call[p].kind = "update"
  /\ slot[call[p].slot].state = "open"
  /\ slot' = [slot EXCEPT ![call[p].slot].hour = call[p].hour,
                          ![call[p].slot].places = call[p].places]
  /\ Continue(p, Idle) /\ UNCHANGED booking

\* Faulty: the bookings of the slot are forgotten.
CancelSlotOnly(p, s) ==
  /\ call[p] = Idle /\ calls < MaxCalls
  /\ slot[s].state = "open"
  /\ slot' = [slot EXCEPT ![s].state = "cancelled"]
  /\ calls' = calls + 1
  /\ UNCHANGED <<clock, booking, call>>

CancelSlot(p, s) ==
  /\ call[p] = Idle /\ calls < MaxCalls
  /\ slot[s].state = "open"
  /\ slot' = [slot EXCEPT ![s].state = "cancelled"]
  /\ call' = [call EXCEPT ![p] = [kind |-> "empty", slot |-> s]]
  /\ calls' = calls + 1
  /\ UNCHANGED <<clock, booking>>

CancelAllBookingsForSlot(p) ==
  /\ call[p].kind = "empty"
  /\ booking' = [booking EXCEPT ![call[p].slot] =
       [t \in Student |-> IF @[t].status \in Active
                          THEN [@[t] EXCEPT !.status = "CANCELLED"] ELSE @[t]]]
  /\ Continue(p, Idle) /\ UNCHANGED slot

-----------------------------------------------------------------------------
(* Bookings of students.                                                   *)

CreateBooking(p, s, t) ==
  /\ ValidateStudentCanBook(s, t)
  /\ Begin(p, [kind |-> "book", slot |-> s, student |-> t,
               held |-> Held(s), places |-> slot[s].places])

(* INSERT, refused when the pair has a row, a closed one included.         *)
InsertBooking(s, t) ==
  /\ booking[s][t].status = "none"
  /\ booking' = [booking EXCEPT ![s][t] = [NoRow EXCEPT !.status = "PENDING"]]

InsertBooked(p) ==
  /\ call[p].kind = "book"
  /\ InsertBooking(call[p].slot, call[p].student)
  /\ Continue(p, Idle) /\ UNCHANGED slot

(* The status is read and, if the transition is allowed from it, written   *)
(* whatever it is by then.                                                 *)
BeginUpdate(p, s, t, from, to, proposed) ==
  /\ booking[s][t].status \in from
  /\ Begin(p, [kind |-> "set", slot |-> s, student |-> t,
               seen |-> booking[s][t].status, status |-> to, proposed |-> proposed])

\* Faulty: the proposed slot is not written.
UpdateStatusOnly(p) ==
  /\ call[p].kind = "set"
  /\ booking' = [booking EXCEPT ![call[p].slot][call[p].student].status = call[p].status]
  /\ Continue(p, Idle) /\ UNCHANGED slot

UpdateBookingStatus(p) ==
  /\ call[p].kind = "set"
  /\ booking' = [booking EXCEPT ![call[p].slot][call[p].student] =
                   [@ EXCEPT !.status = call[p].status, !.proposed = call[p].proposed]]
  /\ Continue(p, Idle) /\ UNCHANGED slot

\* Faulty: a booking is approved in whatever status it is.
ApproveAnyBooking(p, s, t) == BeginUpdate(p, s, t, BookingStatus, "APPROVED", None)

ApproveBooking(p, s, t) == BeginUpdate(p, s, t, {"PENDING"}, "APPROVED", None)
RejectBooking(p, s, t)  == BeginUpdate(p, s, t, {"PENDING"}, "REJECTED", None)

RescheduleBooking(p, s, t, proposed) ==
  /\ slot[proposed].state # "none"
  /\ BeginUpdate(p, s, t, {"PENDING"}, "RESCHEDULED", proposed)

CancelBooking(p, s, t) ==
  BeginUpdate(p, s, t, {"PENDING", "RESCHEDULED"}, "CANCELLED", None)

(* The new booking is inserted unchecked; then the old one is cancelled,   *)
(* and nobody is told if that fails.                                       *)
AcceptReschedule(p, s, t) ==
  /\ booking[s][t].status = "RESCHEDULED" /\ booking[s][t].proposed # None
  /\ Begin(p, [kind |-> "accept", slot |-> s, student |-> t,
               proposed |-> booking[s][t].proposed])

InsertAccepted(p) ==
  /\ call[p].kind = "accept"
  /\ InsertBooking(call[p].proposed, call[p].student)
  /\ Continue(p, [kind |-> "set", slot |-> call[p].slot, student |-> call[p].student,
                  seen |-> "RESCHEDULED", status |-> "CANCELLED", proposed |-> None])
  /\ UNCHANGED slot

-----------------------------------------------------------------------------
(* The reminder worker, in one transaction: approved bookings that start   *)
(* within a day, cancelled slots included.                                 *)
NeedsReminder(s, t) ==
  /\ booking[s][t].status = "APPROVED" /\ ~booking[s][t].reminded
  /\ clock < slot[s].hour /\ slot[s].hour < clock + 2 * BookAhead

scanConsultationReminders ==
  /\ \E s \in Slot, t \in Student : NeedsReminder(s, t)
  /\ booking' = [s \in Slot |-> [t \in Student |->
       IF NeedsReminder(s, t) THEN [booking[s][t] EXCEPT !.reminded = TRUE]
       ELSE booking[s][t]]]
  /\ UNCHANGED <<clock, slot, call, calls>>

Tick ==
  /\ clock < MaxTime /\ clock' = clock + 1
  /\ UNCHANGED <<slot, booking, call, calls>>

(* The term begins with some slots on offer and nothing booked.            *)
Init ==
  /\ clock = 0
  /\ slot \in [Slot -> [state : {"none", "open"}, hour : Hour, places : Places]]
  /\ \A s, z \in Slot :
       Overlaps(s, slot[z].hour) /\ slot[z].state = "open" => s = z
  /\ booking = [s \in Slot |-> [t \in Student |-> NoRow]]
  /\ call = [p \in Session |-> Idle]
  /\ calls = 0

Lecturer(p) ==
  \/ \E h \in Hour, n \in Places :
       \/ CreateSlot(p, h, n)
       \/ \E s \in Slot : UpdateSlot(p, s, h, n)
  \/ \E s \in Slot : CancelSlot(p, s)
  \/ \E s \in Slot, t \in Student :
       \/ ApproveBooking(p, s, t) \/ RejectBooking(p, s, t)
       \/ \E proposed \in Slot : RescheduleBooking(p, s, t, proposed)

Booker(p) ==
  \E s \in Slot, t \in Student :
    CreateBooking(p, s, t) \/ CancelBooking(p, s, t) \/ AcceptReschedule(p, s, t)

Write(p) ==
  \/ InsertSlot(p) \/ WriteSlot(p) \/ CancelAllBookingsForSlot(p)
  \/ InsertBooked(p) \/ InsertAccepted(p) \/ UpdateBookingStatus(p)

Next ==
  \/ \E p \in Session : Lecturer(p) \/ Booker(p) \/ Write(p) \/ Fail(p)
  \/ scanConsultationReminders
  \/ Tick

Spec == Init /\ [][Next]_vars

-----------------------------------------------------------------------------
(* Properties.                                                             *)

\* Every variable keeps its type, and a booking that is put to another slot always
\* says which, so that accepting it never meets a missing proposal.
TypeOK ==
  /\ clock \in 0..MaxTime /\ calls \in 0..MaxCalls
  /\ slot \in [Slot -> SlotRow]
  /\ booking \in [Slot -> [Student -> BookingRow]]
  /\ call \in [Session -> Call]
  /\ \A s \in Slot, t \in Student :
       booking[s][t].status = "RESCHEDULED" => booking[s][t].proposed # None

\* The write that a call is about to make rests on something that is no longer so.
CheckIsStale(p, s) ==
  /\ call[p].kind = "book" /\ call[p].slot = s
  /\ \/ call[p].held # Held(s) \/ call[p].places # slot[s].places
     \/ slot[s].state # "open"
StatusIsStale(p, s, t) ==
  /\ call[p].kind = "set" /\ call[p].slot = s /\ call[p].student = t
  /\ call[p].seen # booking[s][t].status
\* An accepted proposal is not checked at all.
Unchecked(p, s) == call[p].kind = "accept" /\ call[p].proposed = s

Moves(p) == call[p] # Idle /\ call'[p] # call[p]

\* A booking that was rejected or cancelled stays so, unless a call that read its
\* status before it was closed writes over it afterwards.
ReopenedOnlyByStale ==
  [][\A s \in Slot, t \in Student :
       booking[s][t].status \in Closed /\ booking'[s][t].status \notin Closed =>
         \E p \in Session : Moves(p) /\ StatusIsStale(p, s, t)]_vars

\* A slot has more bookings than places only because a booking was inserted after
\* its check went stale, a reschedule was accepted, a stale answer revived a closed
\* booking, or the lecturer lowered the places below what was booked.
Overbooked(s) == Held(s) > slot[s].places
OverbookedOnlyByRace ==
  [][\A s \in Slot :
       ~Overbooked(s) /\ Overbooked(s)' =>
         \/ \E p \in Session : Moves(p) /\ \/ CheckIsStale(p, s) \/ Unchecked(p, s)
                                           \/ \E t \in Student : StatusIsStale(p, s, t)
         \/ slot[s].places' < slot[s].places]_vars

\* A booking is active in a cancelled slot only while the cancellation is between
\* its two statements, or because one of the same races put it there after that.
Orphan(s, t) == slot[s].state = "cancelled" /\ booking[s][t].status \in Active
OrphansOnlyByRace ==
  [][\A s \in Slot, t \in Student :
       ~Orphan(s, t) /\ Orphan(s, t)' =>
         \/ \E p \in Session : Moves(p) /\ \/ CheckIsStale(p, s) \/ Unchecked(p, s)
                                           \/ StatusIsStale(p, s, t)
         \/ \E p \in Session : call'[p].kind = "empty" /\ call'[p].slot = s]_vars
=============================================================================
