------------------------ MODULE Consultation_proofs ------------------------
(***************************************************************************)
(* Theorems about Consultation, for any number of slots, students and      *)
(* concurrent calls, any hours and places, and any bound on the clock and  *)
(* on the calls.                                                           *)
(***************************************************************************)
EXTENDS Consultation, FiniteSetTheorems, TLAPS

-----------------------------------------------------------------------------
(* The inductive invariant.                                                *)

\* What a pending call has checked: a booking had a free place when the check was
\* made, and a booking that is about to be RESCHEDULED is given a slot.
CallsOK ==
  \A p \in Session :
    /\ call[p].kind = "book" => call[p].held < call[p].places
    /\ call[p].kind = "set" /\ call[p].status = "RESCHEDULED"
         => call[p].proposed # None

IInv == TypeOK /\ CallsOK

LEMMA IdleIsACall == Idle \in Call /\ Idle.kind = "idle"
  BY DEF Idle, Call

\* What a session holds, by the kind of its call.
LEMMA CallKinds ==
  ASSUME NEW c \in Call
  PROVE  /\ c.kind \in {"idle", "create", "update", "empty", "book", "accept", "set"}
         /\ c.kind # "idle" => c # Idle
         /\ c.kind = "create" => c.hour \in Hour /\ c.places \in Places
         /\ c.kind = "update" =>
              c.slot \in Slot /\ c.hour \in Hour /\ c.places \in Places
         /\ c.kind = "empty" => c.slot \in Slot
         /\ c.kind = "book" => /\ c.slot \in Slot /\ c.student \in Student
                               /\ c.held \in Nat /\ c.places \in Places
         /\ c.kind = "accept" =>
              c.slot \in Slot /\ c.student \in Student /\ c.proposed \in Slot
         /\ c.kind = "set" => /\ c.slot \in Slot /\ c.student \in Student
                              /\ c.seen \in Active /\ c.status \in BookingStatus
                              /\ c.proposed \in Slot \cup {None}
  BY DEF Call, Idle

LEMMA HeldIsNat ==
  ASSUME NEW s \in Slot
  PROVE  Held(s) \in Nat
<1>1. {t \in Student : booking[s][t].status \in Active} \subseteq Student
  OBVIOUS
<1> QED
  BY <1>1, FS_Subset, FS_CardinalityType, ConsultationAssumption DEF Held

-----------------------------------------------------------------------------
LEMMA InitIInv == Init => IInv
<1> SUFFICES ASSUME Init PROVE IInv
  OBVIOUS
<1>1. NoRow \in BookingRow
  BY DEF NoRow, BookingRow
<1>2. slot \in [Slot -> SlotRow]
  BY DEF Init, SlotRow
<1>3. /\ clock \in 0 .. MaxTime /\ calls \in 0 .. MaxCalls
      /\ call \in [Session -> Call]
  BY IdleIsACall, ConsultationAssumption DEF Init
<1>4. \A s \in Slot, t \in Student : booking[s][t] = NoRow
  BY DEF Init
<1>5. booking \in [Slot -> [Student -> BookingRow]]
  BY <1>1 DEF Init
<1>6. TypeOK
  BY <1>2, <1>3, <1>4, <1>5 DEF TypeOK, NoRow
<1>7. CallsOK
  BY IdleIsACall DEF Init, CallsOK
<1> QED BY <1>6, <1>7 DEF IInv

\* A call that begins, with a record of the right type that has checked enough.
LEMMA BeginKeepsIInv ==
  ASSUME IInv, NEW p \in Session, NEW c \in Call, Begin(p, c),
         c.kind = "book" => c.held < c.places,
         c.kind = "set" /\ c.status = "RESCHEDULED" => c.proposed # None
  PROVE  IInv'
<1>1. /\ calls' \in 0 .. MaxCalls
      /\ call' \in [Session -> Call]
  BY ConsultationAssumption DEF Begin, IInv, TypeOK
<1>2. TypeOK'
  BY <1>1 DEF Begin, IInv, TypeOK
<1>3. CallsOK'
  BY DEF Begin, IInv, TypeOK, CallsOK
<1> QED BY <1>2, <1>3 DEF IInv

\* A call that goes on to record c or ends, with what it does to the tables.
LEMMA ContinueKeepsIInv ==
  ASSUME IInv, NEW p \in Session, NEW c \in Call, Continue(p, c),
         c.kind # "book",
         c.kind = "set" /\ c.status = "RESCHEDULED" => c.proposed # None,
         slot' \in [Slot -> SlotRow],
         booking' \in [Slot -> [Student -> BookingRow]],
         \A s \in Slot, t \in Student :
           booking'[s][t].status = "RESCHEDULED" => booking'[s][t].proposed # None
  PROVE  IInv'
<1>1. call' \in [Session -> Call]
  BY DEF Continue, IInv, TypeOK
<1>2. TypeOK'
  BY <1>1 DEF Continue, IInv, TypeOK
<1>3. CallsOK'
  BY DEF Continue, IInv, TypeOK, CallsOK
<1> QED BY <1>2, <1>3 DEF IInv

LEMMA BeginsKeepIInv ==
  ASSUME IInv, NEW p \in Session, Lecturer(p) \/ Booker(p)
  PROVE  IInv'
<1>1. CASE \E h \in Hour, n \in Places : CreateSlot(p, h, n)
  <2>1. PICK h \in Hour, n \in Places : CreateSlot(p, h, n)
    BY <1>1
  <2> DEFINE c == [kind |-> "create", hour |-> h, places |-> n]
  <2>2. c \in Call /\ c.kind = "create"
    BY DEF Call
  <2>3. Begin(p, c)
    BY <2>1 DEF CreateSlot
  <2> HIDE DEF c
  <2> QED BY <2>2, <2>3, BeginKeepsIInv
<1>2. CASE \E s \in Slot, h \in Hour, n \in Places : UpdateSlot(p, s, h, n)
  <2>1. PICK s \in Slot, h \in Hour, n \in Places : UpdateSlot(p, s, h, n)
    BY <1>2
  <2> DEFINE c == [kind |-> "update", slot |-> s, hour |-> h, places |-> n]
  <2>2. c \in Call /\ c.kind = "update"
    BY DEF Call
  <2>3. Begin(p, c)
    BY <2>1 DEF UpdateSlot
  <2> HIDE DEF c
  <2> QED BY <2>2, <2>3, BeginKeepsIInv
<1>3. CASE \E s \in Slot : CancelSlot(p, s)
  <2>1. PICK s \in Slot : CancelSlot(p, s)
    BY <1>3
  <2> DEFINE c == [kind |-> "empty", slot |-> s]
  <2>2. c \in Call /\ c.kind = "empty"
    BY DEF Call
  <2>3. call' = [call EXCEPT ![p] = c]
    BY <2>1 DEF CancelSlot
  <2> HIDE DEF c
  <2>4. /\ calls' \in 0 .. MaxCalls
        /\ call' \in [Session -> Call]
    BY <2>1, <2>2, <2>3, ConsultationAssumption DEF CancelSlot, IInv, TypeOK
  <2>5. slot' \in [Slot -> SlotRow]
    BY <2>1 DEF CancelSlot, IInv, TypeOK, SlotRow
  <2>6. TypeOK'
    BY <2>1, <2>4, <2>5 DEF CancelSlot, IInv, TypeOK
  <2>7. CallsOK'
    BY <2>2, <2>3 DEF IInv, TypeOK, CallsOK
  <2> QED BY <2>6, <2>7 DEF IInv
<1>4. CASE \E s \in Slot, t \in Student : CreateBooking(p, s, t)
  <2>1. PICK s \in Slot, t \in Student : CreateBooking(p, s, t)
    BY <1>4
  <2> DEFINE c == [kind |-> "book", slot |-> s, student |-> t,
                   held |-> Held(s), places |-> slot[s].places]
  <2>2. slot[s].places \in Places
    BY DEF IInv, TypeOK, SlotRow
  <2>3. Held(s) < slot[s].places
    BY <2>1 DEF CreateBooking, ValidateStudentCanBook
  <2>4. c \in Call /\ c.kind = "book" /\ c.held < c.places
    BY <2>2, <2>3, HeldIsNat DEF Call
  <2>5. Begin(p, c)
    BY <2>1 DEF CreateBooking
  <2> HIDE DEF c
  <2> QED BY <2>4, <2>5, BeginKeepsIInv
<1>5. CASE \E s \in Slot, t \in Student : AcceptReschedule(p, s, t)
  <2>1. PICK s \in Slot, t \in Student : AcceptReschedule(p, s, t)
    BY <1>5
  <2> DEFINE c == [kind |-> "accept", slot |-> s, student |-> t,
                   proposed |-> booking[s][t].proposed]
  <2>2. booking[s][t].proposed \in Slot
    BY <2>1 DEF AcceptReschedule, IInv, TypeOK, BookingRow
  <2>3. c \in Call /\ c.kind = "accept"
    BY <2>2 DEF Call
  <2>4. Begin(p, c)
    BY <2>1 DEF AcceptReschedule
  <2> HIDE DEF c
  <2> QED BY <2>3, <2>4, BeginKeepsIInv
<1>6. CASE \E s \in Slot, t \in Student, from \in SUBSET Active,
              to \in BookingStatus, proposed \in Slot \cup {None} :
             /\ BeginUpdate(p, s, t, from, to, proposed)
             /\ to = "RESCHEDULED" => proposed # None
  <2>1. PICK s \in Slot, t \in Student, from \in SUBSET Active,
             to \in BookingStatus, proposed \in Slot \cup {None} :
               /\ BeginUpdate(p, s, t, from, to, proposed)
               /\ to = "RESCHEDULED" => proposed # None
    BY <1>6
  <2> DEFINE c == [kind |-> "set", slot |-> s, student |-> t,
                   seen |-> booking[s][t].status, status |-> to, proposed |-> proposed]
  <2>2. booking[s][t].status \in Active
    BY <2>1 DEF BeginUpdate
  <2>3. c \in Call /\ c.kind = "set" /\ (c.status = "RESCHEDULED" => c.proposed # None)
    BY <2>1, <2>2 DEF Call
  <2>4. Begin(p, c)
    BY <2>1 DEF BeginUpdate
  <2> HIDE DEF c
  <2> QED BY <2>3, <2>4, BeginKeepsIInv
<1>7. ASSUME NEW s \in Slot, NEW t \in Student,
             \/ ApproveBooking(p, s, t) \/ RejectBooking(p, s, t)
             \/ CancelBooking(p, s, t)
      PROVE  IInv'
  <2>1. {"PENDING"} \in SUBSET Active /\ {"PENDING", "RESCHEDULED"} \in SUBSET Active
    BY DEF Active, BookingStatus, Closed
  <2>2. {"APPROVED", "REJECTED", "CANCELLED"} \subseteq BookingStatus
    BY DEF BookingStatus
  <2> QED BY <1>6, <1>7, <2>1, <2>2 DEF ApproveBooking, RejectBooking, CancelBooking
<1>8. ASSUME NEW s \in Slot, NEW t \in Student, NEW proposed \in Slot,
             RescheduleBooking(p, s, t, proposed)
      PROVE  IInv'
  <2>1. {"PENDING"} \in SUBSET Active /\ "RESCHEDULED" \in BookingStatus
    BY DEF Active, BookingStatus, Closed
  <2> QED BY <1>6, <1>8, <2>1, ConsultationAssumption DEF RescheduleBooking
<1> QED
  BY <1>1, <1>2, <1>3, <1>4, <1>5, <1>7, <1>8 DEF Lecturer, Booker

-----------------------------------------------------------------------------
\* A row that is cancelled, and one that is marked as reminded.
LEMMA CancelledRow ==
  ASSUME NEW row \in BookingRow
  PROVE  /\ [row EXCEPT !.status = "CANCELLED"] \in BookingRow
         /\ [row EXCEPT !.status = "CANCELLED"].status = "CANCELLED"
  BY DEF BookingRow, BookingStatus

LEMMA RemindedRow ==
  ASSUME NEW row \in BookingRow
  PROVE  /\ [row EXCEPT !.reminded = TRUE] \in BookingRow
         /\ [row EXCEPT !.reminded = TRUE].status = row.status
         /\ [row EXCEPT !.reminded = TRUE].proposed = row.proposed
  BY DEF BookingRow

\* The statements that write, and the worker, keep the bookings well formed.
LEMMA WriteKeepsIInv ==
  ASSUME IInv, NEW p \in Session, Write(p) \/ Fail(p)
  PROVE  IInv'
<1> DEFINE c == call[p]
<1>1. c \in Call
  BY DEF IInv, TypeOK
<1>2. CASE InsertSlot(p)
  <2>1. slot' \in [Slot -> SlotRow]
    BY <1>1, <1>2, CallKinds DEF InsertSlot, IInv, TypeOK, SlotRow
  <2> QED
    BY <1>2, <2>1, IdleIsACall, ContinueKeepsIInv DEF InsertSlot, IInv, TypeOK
<1>3. CASE WriteSlot(p)
  <2>1. slot' \in [Slot -> SlotRow]
    BY <1>1, <1>3, CallKinds DEF WriteSlot, IInv, TypeOK, SlotRow
  <2> QED
    BY <1>3, <2>1, IdleIsACall, ContinueKeepsIInv DEF WriteSlot, IInv, TypeOK
<1>4. CASE CancelAllBookingsForSlot(p)
  <2>1. c.slot \in Slot
    BY <1>1, <1>4, CallKinds DEF CancelAllBookingsForSlot
  <2>2. \A s \in Slot, t \in Student :
          \/ booking'[s][t] = booking[s][t]
          \/ booking'[s][t] = [booking[s][t] EXCEPT !.status = "CANCELLED"]
    BY <1>4, <2>1 DEF CancelAllBookingsForSlot, IInv, TypeOK
  <2>3. booking' \in [Slot -> [Student -> BookingRow]]
    <3>1. \A t \in Student :
            /\ booking[c.slot][t] \in BookingRow
            /\ [booking[c.slot][t] EXCEPT !.status = "CANCELLED"] \in BookingRow
      BY <2>1, CancelledRow DEF IInv, TypeOK
    <3>2. [t \in Student |-> IF booking[c.slot][t].status \in Active
             THEN [booking[c.slot][t] EXCEPT !.status = "CANCELLED"]
             ELSE booking[c.slot][t]] \in [Student -> BookingRow]
      BY <3>1
    <3> QED BY <1>4, <2>1, <3>2 DEF CancelAllBookingsForSlot, IInv, TypeOK
  <2>4. \A s \in Slot, t \in Student :
          booking'[s][t].status = "RESCHEDULED" => booking'[s][t].proposed # None
    <3> SUFFICES ASSUME NEW s \in Slot, NEW t \in Student,
                        booking'[s][t].status = "RESCHEDULED"
                 PROVE  booking'[s][t].proposed # None
      OBVIOUS
    <3>1. booking[s][t] \in BookingRow
      BY DEF IInv, TypeOK
    <3>2. booking'[s][t] = booking[s][t]
      BY <2>2, <3>1, CancelledRow
    <3> QED BY <3>2 DEF IInv, TypeOK
  <2> QED
    BY <1>4, <2>3, <2>4, IdleIsACall, ContinueKeepsIInv
    DEF CancelAllBookingsForSlot, IInv, TypeOK
<1>5. ASSUME NEW s \in Slot, NEW t \in Student, InsertBooking(s, t)
      PROVE  /\ booking' \in [Slot -> [Student -> BookingRow]]
             /\ \A z \in Slot, u \in Student :
                  booking'[z][u].status = "RESCHEDULED" => booking'[z][u].proposed # None
  <2>1. [NoRow EXCEPT !.status = "PENDING"] \in BookingRow
    BY DEF NoRow, BookingRow, BookingStatus
  <2>2. [NoRow EXCEPT !.status = "PENDING"].status = "PENDING"
    BY DEF NoRow
  <2> QED BY <1>5, <2>1, <2>2 DEF InsertBooking, IInv, TypeOK
<1>6. CASE InsertBooked(p)
  <2>1. c.slot \in Slot /\ c.student \in Student
    BY <1>1, <1>6, CallKinds DEF InsertBooked
  <2> QED
    BY <1>5, <1>6, <2>1, IdleIsACall, ContinueKeepsIInv DEF InsertBooked, IInv, TypeOK
<1>7. CASE InsertAccepted(p)
  <2> DEFINE d == [kind |-> "set", slot |-> c.slot, student |-> c.student,
                   seen |-> "RESCHEDULED", status |-> "CANCELLED", proposed |-> None]
  <2>1. c.slot \in Slot /\ c.student \in Student /\ c.proposed \in Slot
    BY <1>1, <1>7, CallKinds DEF InsertAccepted
  <2>2. d \in Call /\ d.kind = "set" /\ d.status = "CANCELLED"
    BY <2>1 DEF Call, Active, BookingStatus, Closed
  <2>3. Continue(p, d) /\ InsertBooking(c.proposed, c.student) /\ slot' = slot
    BY <1>7 DEF InsertAccepted
  <2> HIDE DEF d
  <2> QED
    BY <1>5, <2>1, <2>2, <2>3, ContinueKeepsIInv DEF IInv, TypeOK
<1>8. CASE UpdateBookingStatus(p)
  <2> DEFINE row == [booking[c.slot][c.student] EXCEPT
                       !.status = c.status, !.proposed = c.proposed]
  <2>1. /\ c.slot \in Slot /\ c.student \in Student
        /\ c.status \in BookingStatus /\ c.proposed \in Slot \cup {None}
        /\ c.kind = "set"
    BY <1>1, <1>8, CallKinds DEF UpdateBookingStatus
  <2>2. booking[c.slot][c.student] \in BookingRow
    BY <2>1 DEF IInv, TypeOK
  <2>3. row \in BookingRow /\ row.status = c.status /\ row.proposed = c.proposed
    BY <2>1, <2>2 DEF BookingRow
  <2>4. booking' = [booking EXCEPT ![c.slot][c.student] = row]
    BY <1>8, <2>1 DEF UpdateBookingStatus, IInv, TypeOK
  <2>5. c.status = "RESCHEDULED" => c.proposed # None
    BY <2>1 DEF IInv, CallsOK
  <2> HIDE DEF row
  <2>6. booking' \in [Slot -> [Student -> BookingRow]]
    BY <2>1, <2>3, <2>4 DEF IInv, TypeOK
  <2>7. \A s \in Slot, t \in Student :
          booking'[s][t] = IF s = c.slot /\ t = c.student THEN row ELSE booking[s][t]
    BY <2>1, <2>4 DEF IInv, TypeOK
  <2>8. \A s \in Slot, t \in Student :
          booking'[s][t].status = "RESCHEDULED" => booking'[s][t].proposed # None
    BY <2>3, <2>5, <2>7 DEF IInv, TypeOK
  <2> QED
    BY <1>8, <2>6, <2>8, IdleIsACall, ContinueKeepsIInv
    DEF UpdateBookingStatus, IInv, TypeOK
<1>9. CASE Fail(p)
  BY <1>9, IdleIsACall, ContinueKeepsIInv DEF Fail, IInv, TypeOK
<1> QED
  BY <1>2, <1>3, <1>4, <1>6, <1>7, <1>8, <1>9 DEF Write

LEMMA ReminderKeepsIInv ==
  ASSUME IInv, scanConsultationReminders
  PROVE  IInv'
<1>1. \A s \in Slot, t \in Student :
        /\ booking[s][t] \in BookingRow
        /\ [booking[s][t] EXCEPT !.reminded = TRUE] \in BookingRow
  BY RemindedRow DEF IInv, TypeOK
<1>2. booking' \in [Slot -> [Student -> BookingRow]]
  BY <1>1 DEF scanConsultationReminders
<1>3. \A s \in Slot, t \in Student :
        /\ booking'[s][t].status = booking[s][t].status
        /\ booking'[s][t].proposed = booking[s][t].proposed
  <2> TAKE s \in Slot, t \in Student
  <2>1. booking[s][t] \in BookingRow
    BY <1>1
  <2>2. booking'[s][t] = IF NeedsReminder(s, t)
          THEN [booking[s][t] EXCEPT !.reminded = TRUE] ELSE booking[s][t]
    BY DEF scanConsultationReminders
  <2> QED BY <2>1, <2>2, RemindedRow
<1>4. TypeOK'
  BY <1>2, <1>3 DEF scanConsultationReminders, IInv, TypeOK
<1>5. CallsOK'
  BY DEF scanConsultationReminders, IInv, CallsOK
<1> QED BY <1>4, <1>5 DEF IInv

LEMMA NextKeepsIInv == IInv /\ [Next]_vars => IInv'
<1> SUFFICES ASSUME IInv, [Next]_vars PROVE IInv'
  OBVIOUS
<1>1. CASE Tick
  BY <1>1, ConsultationAssumption DEF Tick, IInv, TypeOK, CallsOK
<1>2. CASE UNCHANGED vars
  BY <1>2 DEF vars, IInv, TypeOK, CallsOK
<1> QED
  BY <1>1, <1>2, BeginsKeepIInv, WriteKeepsIInv, ReminderKeepsIInv DEF Next

LEMMA Inductive == Spec => []IInv
  BY InitIInv, NextKeepsIInv, PTL DEF Spec

\* Every variable of the consultation hours keeps its type, and a booking that is
\* put to another slot always names it.
THEOREM ConsultationTypeCorrect == Spec => []TypeOK
<1>1. IInv => TypeOK
  BY DEF IInv
<1> QED BY <1>1, Inductive, PTL

-----------------------------------------------------------------------------
(* What a step does to the statuses and to the slots.                      *)

\* A step leaves every status, or cancels some, or changes one at the hands of a
\* call that inserts a booking it has checked, inserts an accepted one, or writes.
Written(p, s, t) ==
  \/ /\ call[p].kind = "book" /\ call[p].slot = s /\ call[p].student = t
     /\ booking[s][t].status = "none"
  \/ /\ call[p].kind = "accept" /\ call[p].proposed = s
     /\ booking[s][t].status = "none"
  \/ call[p].kind = "set" /\ call[p].slot = s /\ call[p].student = t

OnlyChanges(s, t) ==
  \A z \in Slot, u \in Student :
    z # s \/ u # t => booking'[z][u].status = booking[z][u].status

\* The check of a call writes nothing, save for the cancellation of a slot.
LEMMA ChecksOnlyRead ==
  ASSUME NEW p \in Session, Lecturer(p) \/ Booker(p)
  PROVE  booking' = booking /\ (slot' = slot \/ \E z \in Slot : CancelSlot(p, z))
<1>1. ASSUME NEW c, Begin(p, c)
      PROVE  booking' = booking /\ slot' = slot
  BY <1>1 DEF Begin
<1>2. ASSUME NEW s, NEW t, NEW from, NEW to, NEW proposed,
             BeginUpdate(p, s, t, from, to, proposed)
      PROVE  booking' = booking /\ slot' = slot
  BY <1>1, <1>2 DEF BeginUpdate
<1>3. ASSUME NEW h \in Hour, NEW n \in Places,
             CreateSlot(p, h, n) \/ \E s \in Slot : UpdateSlot(p, s, h, n)
      PROVE  booking' = booking /\ slot' = slot
  BY <1>1, <1>3 DEF CreateSlot, UpdateSlot
<1>4. ASSUME NEW s \in Slot, CancelSlot(p, s)
      PROVE  booking' = booking
  BY <1>4 DEF CancelSlot
<1>5. ASSUME NEW s \in Slot, NEW t \in Student,
             \/ ApproveBooking(p, s, t) \/ RejectBooking(p, s, t)
             \/ CancelBooking(p, s, t)
             \/ \E proposed \in Slot : RescheduleBooking(p, s, t, proposed)
      PROVE  booking' = booking /\ slot' = slot
  BY <1>2, <1>5 DEF ApproveBooking, RejectBooking, CancelBooking, RescheduleBooking
<1>6. ASSUME NEW s \in Slot, NEW t \in Student,
             CreateBooking(p, s, t) \/ AcceptReschedule(p, s, t)
      PROVE  booking' = booking /\ slot' = slot
  BY <1>1, <1>6 DEF CreateBooking, AcceptReschedule
<1> QED BY <1>3, <1>4, <1>5, <1>6 DEF Lecturer, Booker

LEMMA StatusEffects ==
  ASSUME IInv, [Next]_vars
  PROVE  \/ \A s \in Slot, t \in Student : booking'[s][t].status = booking[s][t].status
         \/ /\ slot' = slot
            /\ \A s \in Slot, t \in Student :
                 booking'[s][t].status \in {booking[s][t].status, "CANCELLED"}
         \/ /\ slot' = slot
            /\ \E p \in Session, s \in Slot, t \in Student :
                 Moves(p) /\ Written(p, s, t) /\ OnlyChanges(s, t)
<1>1. \A p \in Session : call[p] \in Call
  BY DEF IInv, TypeOK
<1>2. \A s \in Slot, t \in Student : booking[s][t] \in BookingRow
  BY DEF IInv, TypeOK
<1>3. CASE booking' = booking
  BY <1>3
<1>4. CASE scanConsultationReminders
  <2>1. ASSUME NEW s \in Slot, NEW t \in Student
        PROVE  booking'[s][t].status = booking[s][t].status
    <3>1. booking'[s][t] = IF NeedsReminder(s, t)
            THEN [booking[s][t] EXCEPT !.reminded = TRUE] ELSE booking[s][t]
      BY <1>4 DEF scanConsultationReminders
    <3> QED BY <1>2, <3>1, RemindedRow
  <2> QED BY <2>1
<1>5. ASSUME NEW p \in Session, CancelAllBookingsForSlot(p)
      PROVE  /\ slot' = slot
             /\ \A s \in Slot, t \in Student :
                  booking'[s][t].status \in {booking[s][t].status, "CANCELLED"}
  <2>1. call[p].slot \in Slot
    BY <1>1, <1>5, CallKinds DEF CancelAllBookingsForSlot
  <2>2. ASSUME NEW s \in Slot, NEW t \in Student
        PROVE  booking'[s][t].status \in {booking[s][t].status, "CANCELLED"}
    <3>1. \/ booking'[s][t] = booking[s][t]
          \/ booking'[s][t] = [booking[s][t] EXCEPT !.status = "CANCELLED"]
      BY <1>5, <2>1 DEF CancelAllBookingsForSlot, IInv, TypeOK
    <3> QED BY <1>2, <3>1, CancelledRow
  <2> QED BY <1>5, <2>2 DEF CancelAllBookingsForSlot
<1>6. ASSUME NEW s \in Slot, NEW t \in Student, InsertBooking(s, t)
      PROVE  OnlyChanges(s, t) /\ booking[s][t].status = "none"
  BY <1>6 DEF InsertBooking, OnlyChanges, IInv, TypeOK
<1>7. ASSUME NEW p \in Session, InsertBooked(p)
      PROVE  /\ slot' = slot
             /\ \E s \in Slot, t \in Student :
                  Moves(p) /\ Written(p, s, t) /\ OnlyChanges(s, t)
  <2>1. call[p].kind = "book" /\ call[p].slot \in Slot /\ call[p].student \in Student
    BY <1>1, <1>7, CallKinds DEF InsertBooked
  <2>2. Moves(p)
    BY <1>1, <1>7, <2>1, CallKinds, IdleIsACall
    DEF InsertBooked, Continue, Moves, IInv, TypeOK
  <2> QED BY <1>6, <1>7, <2>1, <2>2 DEF InsertBooked, Written
<1>8. ASSUME NEW p \in Session, InsertAccepted(p)
      PROVE  /\ slot' = slot
             /\ \E s \in Slot, t \in Student :
                  Moves(p) /\ Written(p, s, t) /\ OnlyChanges(s, t)
  <2>1. call[p].kind = "accept" /\ call[p].proposed \in Slot /\ call[p].student \in Student
    BY <1>1, <1>8, CallKinds DEF InsertAccepted
  <2>2. call'[p].kind = "set"
    BY <1>8 DEF InsertAccepted, Continue, IInv, TypeOK
  <2>3. Moves(p)
    BY <1>1, <2>1, <2>2, IdleIsACall DEF Moves
  <2> QED BY <1>6, <1>8, <2>1, <2>3 DEF InsertAccepted, Written
<1>9. ASSUME NEW p \in Session, UpdateBookingStatus(p)
      PROVE  /\ slot' = slot
             /\ \E s \in Slot, t \in Student :
                  Moves(p) /\ Written(p, s, t) /\ OnlyChanges(s, t)
  <2>1. call[p].kind = "set" /\ call[p].slot \in Slot /\ call[p].student \in Student
    BY <1>1, <1>9, CallKinds DEF UpdateBookingStatus
  <2>2. Moves(p)
    BY <1>1, <1>9, <2>1, CallKinds, IdleIsACall
    DEF UpdateBookingStatus, Continue, Moves, IInv, TypeOK
  <2>3. OnlyChanges(call[p].slot, call[p].student)
    BY <1>9, <2>1 DEF UpdateBookingStatus, OnlyChanges, IInv, TypeOK
  <2> QED BY <1>9, <2>1, <2>2, <2>3 DEF UpdateBookingStatus, Written
<1>10. \/ booking' = booking \/ scanConsultationReminders
       \/ \E p \in Session :
            \/ CancelAllBookingsForSlot(p) \/ InsertBooked(p)
            \/ InsertAccepted(p) \/ UpdateBookingStatus(p)
  BY ChecksOnlyRead DEF Next, vars, Write, InsertSlot, WriteSlot, Fail, Tick
<1> QED BY <1>3, <1>4, <1>5, <1>7, <1>8, <1>9, <1>10

\* Only a cancellation closes a slot, and it goes on to its second statement.
LEMMA SlotEffects ==
  ASSUME IInv, [Next]_vars, NEW s \in Slot,
         slot[s].state # "cancelled", slot'[s].state = "cancelled"
  PROVE  \E p \in Session : call'[p].kind = "empty" /\ call'[p].slot = s
<1>1. ASSUME NEW p \in Session, NEW z \in Slot, CancelSlot(p, z)
      PROVE  \E q \in Session : call'[q].kind = "empty" /\ call'[q].slot = s
  <2>1. z = s
    BY <1>1 DEF CancelSlot, IInv, TypeOK
  <2> QED BY <1>1, <2>1 DEF CancelSlot, IInv, TypeOK
<1>2. ASSUME NEW p \in Session, InsertSlot(p)
      PROVE  FALSE
  BY <1>2 DEF InsertSlot, IInv, TypeOK, SlotRow
<1>3. ASSUME NEW p \in Session, WriteSlot(p)
      PROVE  FALSE
  <2>1. call[p].slot \in Slot
    BY <1>3, CallKinds DEF WriteSlot, IInv, TypeOK
  <2> QED BY <1>3, <2>1 DEF WriteSlot, IInv, TypeOK, SlotRow
<1>4. \/ slot' = slot
      \/ \E p \in Session : \/ InsertSlot(p) \/ WriteSlot(p)
                            \/ \E z \in Slot : CancelSlot(p, z)
  BY ChecksOnlyRead
  DEF Next, vars, Write, CancelAllBookingsForSlot, InsertBooked, InsertAccepted,
      UpdateBookingStatus, scanConsultationReminders, Fail, Tick
<1> QED BY <1>1, <1>2, <1>3, <1>4

-----------------------------------------------------------------------------
\* A closed booking is opened again only by a call that read it before it was closed.
THEOREM ClosedStaysClosed == Spec => ReopenedOnlyByStale
<1> DEFINE A == \A s \in Slot, t \in Student :
       booking[s][t].status \in Closed /\ booking'[s][t].status \notin Closed =>
         \E p \in Session : Moves(p) /\ StatusIsStale(p, s, t)
<1>1. ASSUME IInv, [Next]_vars, NEW s \in Slot, NEW t \in Student,
             booking[s][t].status \in Closed, booking'[s][t].status \notin Closed
      PROVE  \E p \in Session : Moves(p) /\ StatusIsStale(p, s, t)
  <2>1. PICK p \in Session, z \in Slot, u \in Student :
          Moves(p) /\ Written(p, z, u) /\ OnlyChanges(z, u)
    BY <1>1, StatusEffects DEF Closed
  <2>2. z = s /\ u = t
    BY <1>1, <2>1 DEF OnlyChanges
  <2>3. call[p].kind = "set" /\ call[p].slot = s /\ call[p].student = t
    BY <1>1, <2>1, <2>2 DEF Written, Closed
  <2>4. call[p].seen \in Active
    BY <1>1, <2>3, CallKinds DEF IInv, TypeOK
  <2> QED BY <1>1, <2>1, <2>3, <2>4 DEF StatusIsStale, Active
<1>2. IInv /\ [Next]_vars => [A]_vars
  BY <1>1
<1> QED BY <1>2, Inductive, PTL DEF Spec, ReopenedOnlyByStale

\* A booking is active in a cancelled slot only through the races that are named.
THEOREM NoOrphanWithoutRace == Spec => OrphansOnlyByRace
<1> DEFINE A == \A s \in Slot, t \in Student :
       ~Orphan(s, t) /\ Orphan(s, t)' =>
         \/ \E p \in Session : Moves(p) /\ \/ CheckIsStale(p, s) \/ Unchecked(p, s)
                                           \/ StatusIsStale(p, s, t)
         \/ \E p \in Session : call'[p].kind = "empty" /\ call'[p].slot = s
<1>1. ASSUME IInv, [Next]_vars, NEW s \in Slot, NEW t \in Student,
             ~Orphan(s, t), Orphan(s, t)'
      PROVE  \/ \E p \in Session : Moves(p) /\ \/ CheckIsStale(p, s) \/ Unchecked(p, s)
                                               \/ StatusIsStale(p, s, t)
             \/ \E p \in Session : call'[p].kind = "empty" /\ call'[p].slot = s
  <2>1. slot'[s].state = "cancelled" /\ booking'[s][t].status \in Active
    BY <1>1 DEF Orphan
  <2>2. CASE slot[s].state # "cancelled"
    BY <1>1, <2>1, <2>2, SlotEffects
  <2>3. CASE slot[s].state = "cancelled"
    <3>1. booking[s][t].status \notin Active
      BY <1>1, <2>3 DEF Orphan
    <3>2. PICK p \in Session, z \in Slot, u \in Student :
            Moves(p) /\ Written(p, z, u) /\ OnlyChanges(z, u)
      BY <1>1, <2>1, <3>1, StatusEffects DEF Active, Closed
    <3>3. z = s /\ u = t
      BY <2>1, <3>1, <3>2 DEF OnlyChanges
    <3>4. CASE call[p].kind = "book" /\ call[p].slot = s
      BY <2>3, <3>2, <3>4 DEF CheckIsStale
    <3>5. CASE call[p].kind = "accept" /\ call[p].proposed = s
      BY <3>2, <3>5 DEF Unchecked
    <3>6. CASE call[p].kind = "set" /\ call[p].slot = s /\ call[p].student = t
      <4>1. call[p].seen \in Active
        BY <1>1, <3>6, CallKinds DEF IInv, TypeOK
      <4> QED BY <3>1, <3>2, <3>6, <4>1 DEF StatusIsStale
    <3> QED BY <3>2, <3>3, <3>4, <3>5, <3>6 DEF Written
  <2> QED BY <2>2, <2>3
<1>2. IInv /\ [Next]_vars => [A]_vars
  BY <1>1
<1> QED BY <1>2, Inductive, PTL DEF Spec, OrphansOnlyByRace

-----------------------------------------------------------------------------
(* The places of a slot.                                                   *)

\* The bookings that count do not become more unless one becomes active.
LEMMA HeldGrowsOnlyByActivation ==
  ASSUME NEW s \in Slot,
         \A t \in Student :
           booking'[s][t].status \in Active => booking[s][t].status \in Active
  PROVE  Held(s)' \in Nat /\ Held(s)' <= Held(s)
<1> DEFINE S == {t \in Student : booking[s][t].status \in Active}
           R == {t \in Student : booking'[s][t].status \in Active}
<1>1. IsFiniteSet(S)
  BY FS_Subset, ConsultationAssumption
<1>2. R \subseteq S
  OBVIOUS
<1>3. Cardinality(R) \in Nat /\ Cardinality(R) <= Cardinality(S)
  BY <1>1, <1>2, FS_Subset, FS_CardinalityType
<1> QED BY <1>3 DEF Held

\* One booking more takes at most one place more.
LEMMA HeldGrowsByOne ==
  ASSUME NEW s \in Slot, NEW u \in Student,
         \A t \in Student \ {u} :
           booking'[s][t].status \in Active => booking[s][t].status \in Active
  PROVE  Held(s)' \in Nat /\ Held(s)' <= Held(s) + 1
<1> DEFINE S == {t \in Student : booking[s][t].status \in Active}
           R == {t \in Student : booking'[s][t].status \in Active}
<1>1. IsFiniteSet(S)
  BY FS_Subset, ConsultationAssumption
<1>2. R \subseteq S \cup {u}
  OBVIOUS
<1>3. /\ IsFiniteSet(S \cup {u})
      /\ Cardinality(S \cup {u}) \in Nat /\ Cardinality(S) \in Nat
      /\ Cardinality(S \cup {u}) <= Cardinality(S) + 1
  <2>1. Cardinality(S) \in Nat
    BY <1>1, FS_CardinalityType
  <2>2. /\ IsFiniteSet(S \cup {u})
        /\ \/ Cardinality(S \cup {u}) = Cardinality(S)
           \/ Cardinality(S \cup {u}) = Cardinality(S) + 1
    BY <1>1, FS_AddElement
  <2> HIDE DEF S
  <2> QED BY <2>1, <2>2
<1>4. Cardinality(R) \in Nat /\ Cardinality(R) <= Cardinality(S \cup {u})
  BY <1>2, <1>3, FS_Subset, FS_CardinalityType
<1>5. Cardinality(R) \in Nat /\ Cardinality(R) <= Cardinality(S) + 1
  BY <1>3, <1>4
<1> QED BY <1>5 DEF Held

\* The steps that may overbook a slot.
OverbookingStep(s) ==
  \/ \E p \in Session : Moves(p) /\ \/ CheckIsStale(p, s) \/ Unchecked(p, s)
                                    \/ \E t \in Student : StatusIsStale(p, s, t)
  \/ slot[s].places' < slot[s].places

LEMMA OverbookedByAStep ==
  ASSUME IInv, [Next]_vars, NEW s \in Slot, ~Overbooked(s), Overbooked(s)'
  PROVE  OverbookingStep(s)
<1>1. /\ slot[s].places \in Nat /\ slot'[s].places \in Nat /\ Held(s) \in Nat
      /\ Held(s) <= slot[s].places
  <2>1. TypeOK /\ TypeOK'
    BY NextKeepsIInv DEF IInv
  <2>2. slot[s].places \in Nat /\ slot'[s].places \in Nat
    BY <2>1, ConsultationAssumption DEF TypeOK, SlotRow
  <2> QED BY <2>2, HeldIsNat DEF Overbooked
<1>2. Held(s)' > slot'[s].places
  BY DEF Overbooked
<1>3. CASE \A t \in Student :
             booking'[s][t].status \in Active => booking[s][t].status \in Active
  <2>1. Held(s)' \in Nat /\ Held(s)' <= Held(s)
    BY <1>3, HeldGrowsOnlyByActivation
  <2>2. slot'[s].places < slot[s].places
    BY <1>1, <1>2, <2>1
  <2> QED BY <2>2 DEF OverbookingStep
<1>4. CASE \E t \in Student :
             booking'[s][t].status \in Active /\ booking[s][t].status \notin Active
  <2>1. PICK t \in Student :
          booking'[s][t].status \in Active /\ booking[s][t].status \notin Active
    BY <1>4
  <2>2. slot' = slot
    BY <2>1, StatusEffects DEF Active, Closed
  <2>3. PICK p \in Session, z \in Slot, u \in Student :
          Moves(p) /\ Written(p, z, u) /\ OnlyChanges(z, u)
    BY <2>1, StatusEffects DEF Active, Closed
  <2>4. z = s /\ u = t
    BY <2>1, <2>3 DEF OnlyChanges
  <2>5. CASE call[p].kind = "book" /\ call[p].slot = s
    <3>1. call[p].held \in Nat /\ call[p].places \in Places
          /\ call[p].held < call[p].places
      BY <2>5, CallKinds DEF IInv, TypeOK, CallsOK
    <3>2. \A v \in Student \ {t} :
            booking'[s][v].status \in Active => booking[s][v].status \in Active
      BY <2>3, <2>4 DEF OnlyChanges
    <3>3. Held(s)' \in Nat /\ Held(s)' <= Held(s) + 1
      BY <3>2, HeldGrowsByOne
    <3>4. ~(Held(s) < slot[s].places)
      BY <1>1, <1>2, <2>2, <3>3
    <3>5. call[p].held # Held(s) \/ call[p].places # slot[s].places
      BY <3>1, <3>4
    <3> QED BY <2>3, <2>5, <3>5 DEF OverbookingStep, CheckIsStale
  <2>6. CASE call[p].kind = "accept" /\ call[p].proposed = s
    BY <2>3, <2>6 DEF OverbookingStep, Unchecked
  <2>7. CASE call[p].kind = "set" /\ call[p].slot = s /\ call[p].student = t
    <3>1. call[p].seen \in Active
      BY <2>7, CallKinds DEF IInv, TypeOK
    <3> QED BY <2>1, <2>3, <2>7, <3>1 DEF OverbookingStep, StatusIsStale
  <2> QED BY <2>3, <2>4, <2>5, <2>6, <2>7 DEF Written
<1> QED BY <1>3, <1>4

\* A slot has more bookings than places only through the races that are named, or
\* because the lecturer lowered the places.
THEOREM NoOverbookingWithoutRace == Spec => OverbookedOnlyByRace
<1> DEFINE A == \A s \in Slot :
       ~Overbooked(s) /\ Overbooked(s)' =>
         \/ \E p \in Session : Moves(p) /\ \/ CheckIsStale(p, s) \/ Unchecked(p, s)
                                           \/ \E t \in Student : StatusIsStale(p, s, t)
         \/ slot[s].places' < slot[s].places
<1>1. \A s \in Slot : OverbookingStep(s) =>
         \/ \E p \in Session : Moves(p) /\ \/ CheckIsStale(p, s) \/ Unchecked(p, s)
                                           \/ \E t \in Student : StatusIsStale(p, s, t)
         \/ slot[s].places' < slot[s].places
  BY DEF OverbookingStep
<1>2. IInv /\ [Next]_vars => [A]_vars
  BY <1>1, OverbookedByAStep
<1> QED BY <1>2, Inductive, PTL DEF Spec, OverbookedOnlyByRace

\* Where the calls about a slot do not overlap, no reschedule is accepted into it and its
\* places are not lowered, the check of the number of bookings is enough: it never has
\* more bookings than places.
THEOREM ApartNeverOverbooked ==
  ASSUME NEW z \in Slot
  PROVE  Spec /\ [][~OverbookingStep(z)]_vars => []~Overbooked(z)
<1>1. Init => ~Overbooked(z)
  <2> SUFFICES ASSUME Init PROVE ~Overbooked(z)
    OBVIOUS
  <2>1. {t \in Student : booking[z][t].status \in Active} = {}
    BY DEF Init, NoRow, Active, BookingStatus
  <2>2. Held(z) = 0
    BY <2>1, FS_EmptySet DEF Held
  <2>3. slot[z].places \in Nat
    BY ConsultationAssumption DEF Init
  <2> QED BY <2>2, <2>3 DEF Overbooked
<1>2. IInv /\ ~Overbooked(z) /\ [Next]_vars /\ [~OverbookingStep(z)]_vars => ~Overbooked(z)'
  <2>1. CASE UNCHANGED vars
    BY <2>1 DEF vars, Overbooked, Held
  <2> QED BY <2>1, OverbookedByAStep
<1> QED BY <1>1, <1>2, Inductive, PTL DEF Spec

-----------------------------------------------------------------------------
(* One row and one reminder for a slot and a student.                      *)

Row(s, t) == booking[s][t].status # "none"

Reminded(s, t) == booking[s][t].reminded

\* Session p inserts the row, for a booking or for an accepted reschedule.
Inserts(p, s, t) ==
  /\ call[p].student = t
  /\ \/ InsertBooked(p) /\ call[p].slot = s
     \/ InsertAccepted(p) /\ call[p].proposed = s

\* What is not booked has not been reminded of.
RemindedRows == \A s \in Slot, t \in Student : Reminded(s, t) => Row(s, t)

\* What a step does to one row: it keeps it a row and its mark, or the worker marks it,
\* or it is inserted.
LEMMA RowEffects ==
  ASSUME IInv, [Next]_vars, NEW s \in Slot, NEW t \in Student
  PROVE  \/ Reminded(s, t)' = Reminded(s, t) /\ (Row(s, t) => Row(s, t)')
         \/ /\ scanConsultationReminders /\ NeedsReminder(s, t)
            /\ Row(s, t)' /\ Reminded(s, t)' = TRUE
         \/ ~Row(s, t) /\ Row(s, t)' /\ Reminded(s, t)' = FALSE
<1>1. /\ \A p \in Session : call[p] \in Call
      /\ \A z \in Slot, u \in Student : booking[z][u] \in BookingRow
      /\ booking \in [Slot -> [Student -> BookingRow]]
  BY DEF IInv, TypeOK
<1>2. CASE booking' = booking
  BY <1>2 DEF Reminded, Row
<1>3. CASE scanConsultationReminders
  <2>1. booking'[s][t] = IF NeedsReminder(s, t)
          THEN [booking[s][t] EXCEPT !.reminded = TRUE] ELSE booking[s][t]
    BY <1>3 DEF scanConsultationReminders
  <2>2. NeedsReminder(s, t) => Row(s, t)
    BY DEF NeedsReminder, Row
  <2>3. /\ [booking[s][t] EXCEPT !.reminded = TRUE].status = booking[s][t].status
        /\ [booking[s][t] EXCEPT !.reminded = TRUE].reminded = TRUE
    BY <1>1 DEF BookingRow
  <2> QED BY <1>3, <2>1, <2>2, <2>3 DEF Reminded, Row
<1>4. ASSUME NEW p \in Session, CancelAllBookingsForSlot(p)
      PROVE  Reminded(s, t)' = Reminded(s, t) /\ (Row(s, t) => Row(s, t)')
  <2>1. call[p].slot \in Slot
    BY <1>1, <1>4, CallKinds DEF CancelAllBookingsForSlot
  <2>2. \/ booking'[s][t] = booking[s][t]
        \/ booking'[s][t] = [booking[s][t] EXCEPT !.status = "CANCELLED"]
    BY <1>1, <1>4, <2>1 DEF CancelAllBookingsForSlot
  <2>3. /\ [booking[s][t] EXCEPT !.status = "CANCELLED"].status = "CANCELLED"
        /\ [booking[s][t] EXCEPT !.status = "CANCELLED"].reminded = booking[s][t].reminded
    BY <1>1 DEF BookingRow
  <2> QED BY <2>2, <2>3 DEF Reminded, Row
<1>5. ASSUME NEW z \in Slot, NEW u \in Student, InsertBooking(z, u)
      PROVE  \/ booking'[s][t] = booking[s][t]
             \/ ~Row(s, t) /\ Row(s, t)' /\ Reminded(s, t)' = FALSE
  BY <1>1, <1>5 DEF InsertBooking, NoRow, Row, Reminded
<1>6. ASSUME NEW p \in Session, InsertBooked(p) \/ InsertAccepted(p)
      PROVE  \E z \in Slot, u \in Student : InsertBooking(z, u)
  BY <1>1, <1>6, CallKinds DEF InsertBooked, InsertAccepted
<1>7. ASSUME NEW p \in Session, UpdateBookingStatus(p)
      PROVE  Reminded(s, t)' = Reminded(s, t) /\ (Row(s, t) => Row(s, t)')
  <2> DEFINE c   == call[p]
             row == [booking[s][t] EXCEPT !.status = c.status, !.proposed = c.proposed]
  <2>1. c.slot \in Slot /\ c.student \in Student /\ c.status \in BookingStatus
    BY <1>1, <1>7, CallKinds DEF UpdateBookingStatus
  <2>2. booking'[s][t] \in {booking[s][t], row}
    BY <1>1, <1>7, <2>1 DEF UpdateBookingStatus
  <2>3. row.status = c.status /\ row.reminded = booking[s][t].reminded
    BY <1>1 DEF BookingRow
  <2>4. c.status # "none"
    BY <2>1 DEF BookingStatus
  <2> HIDE DEF c, row
  <2> QED BY <2>2, <2>3, <2>4 DEF Reminded, Row
<1>8. \/ booking' = booking \/ scanConsultationReminders
      \/ \E p \in Session :
           \/ CancelAllBookingsForSlot(p) \/ InsertBooked(p)
           \/ InsertAccepted(p) \/ UpdateBookingStatus(p)
  BY ChecksOnlyRead DEF Next, vars, Write, InsertSlot, WriteSlot, Fail, Tick
<1>9. ASSUME NEW p \in Session, InsertBooked(p) \/ InsertAccepted(p)
      PROVE  \/ Reminded(s, t)' = Reminded(s, t) /\ (Row(s, t) => Row(s, t)')
             \/ ~Row(s, t) /\ Row(s, t)' /\ Reminded(s, t)' = FALSE
  <2>1. PICK z \in Slot, u \in Student : InsertBooking(z, u)
    BY <1>6, <1>9
  <2> QED BY <1>5, <2>1 DEF Row, Reminded
<1> QED BY <1>2, <1>3, <1>4, <1>7, <1>8, <1>9

\* UNIQUE (slot, student) counts the rows of every status: whatever becomes of a booking,
\* the pair is never inserted again, so a student who cancelled cannot book the slot once
\* more, although ValidateStudentCanBook, which minds active bookings only, lets the call
\* through.
THEOREM OneRowPerPair ==
  ASSUME NEW s \in Slot, NEW t \in Student
  PROVE  Spec => /\ [](Row(s, t) => []Row(s, t))
                 /\ [][\A p \in Session : Inserts(p, s, t) => ~Row(s, t) /\ Row(s, t)']_vars
<1>1. IInv /\ Row(s, t) /\ [Next]_vars => Row(s, t)'
  BY RowEffects
<1>2. ASSUME IInv, NEW p \in Session, Inserts(p, s, t)
      PROVE  ~Row(s, t) /\ Row(s, t)'
  <2>1. InsertBooking(s, t)
    BY <1>2 DEF Inserts, InsertBooked, InsertAccepted
  <2> QED BY <1>2, <2>1 DEF InsertBooking, IInv, TypeOK, Row, NoRow
<1>3. IInv => [\A p \in Session : Inserts(p, s, t) => ~Row(s, t) /\ Row(s, t)']_vars
  BY <1>2
<1> HIDE DEF Row
<1> QED BY <1>1, <1>3, Inductive, PTL DEF Spec

\* A booking is reminded of at most once, when it is approved and starts within a day:
\* what the worker has marked stays marked, also through the answers that are under way
\* meanwhile.
THEOREM OneReminderPerBooking ==
  ASSUME NEW s \in Slot, NEW t \in Student
  PROVE  Spec => /\ [](Reminded(s, t) => []Reminded(s, t))
                 /\ [][~Reminded(s, t) /\ Reminded(s, t)' =>
                         scanConsultationReminders /\ NeedsReminder(s, t)]_vars
<1>0. \A z \in Slot, u \in Student : IInv => Reminded(z, u) \in BOOLEAN
  BY DEF IInv, TypeOK, BookingRow, Reminded
<1>1. Init => RemindedRows
  BY DEF Init, NoRow, RemindedRows, Reminded, Row
<1>2. IInv /\ RemindedRows /\ [Next]_vars => RemindedRows'
  <2> SUFFICES ASSUME IInv, RemindedRows, [Next]_vars, NEW z \in Slot, NEW u \in Student,
                      Reminded(z, u)'
               PROVE  Row(z, u)'
    BY DEF RemindedRows
  <2>1. Reminded(z, u) => Row(z, u)
    BY DEF RemindedRows
  <2> QED BY <2>1, RowEffects
<1>3. IInv /\ RemindedRows /\ Reminded(s, t) /\ [Next]_vars => Reminded(s, t)'
  <2> SUFFICES ASSUME IInv, RemindedRows, Reminded(s, t), [Next]_vars PROVE Reminded(s, t)'
    OBVIOUS
  <2>1. Row(s, t) /\ Reminded(s, t) \in BOOLEAN
    BY <1>0 DEF RemindedRows
  <2> QED BY <2>1, RowEffects
<1>4. IInv /\ [Next]_vars =>
        [~Reminded(s, t) /\ Reminded(s, t)' =>
           scanConsultationReminders /\ NeedsReminder(s, t)]_vars
  BY RowEffects
<1> HIDE DEF Reminded
<1> QED BY <1>1, <1>2, <1>3, <1>4, Inductive, PTL DEF Spec
=============================================================================
