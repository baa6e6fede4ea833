------------------------- MODULE WebLecturerPages -------------------------
(***************************************************************************)
(* The pages of apps/web/src/app/lecturer.                                 *)
(***************************************************************************)
EXTENDS WebParts
LOCAL INSTANCE TLC

LecturerDashboard ==
  [Page(Lecturer, NoLoad, NoActs) EXCEPT
     !.others = {<<{"listLecturerSupervisorRequests"}>>, <<{"fetchDashboard"}>>},
     !.links = {"/lecturer/supervisor-requests"}]

LecturerAnnouncements ==
  [Page(Lecturer, <<{"listAnnouncements"}>>, NoActs) EXCEPT !.refresh = TRUE]

LecturerProfile ==
  LET list == <<{"fetchProfile"}>>
  IN  Page(Lecturer, list, [save |-> Form("isSaving", "saveProfile", list)])

\* The students under supervision; the filter is whether to include completed ones.
SupervisedStudents ==
  [Page(Lecturer, <<{"listSupervisedProgress"}>>, NoActs) EXCEPT
     !.refresh = TRUE, !.filter = TRUE, !.links = {"/lecturer/supervised-students/[id]"}]

SupervisedStudent ==
  LET list == <<{"getStudentProgressDetail"}>>
  IN  [Page(Lecturer, list,
            [complete |-> Unawaited(Dialog("isCompleting", "completeMilestone", list))])
       EXCEPT !.refresh = TRUE]

\* Both buttons of a card open the same dialog.
LecturerRequestOffers == [answer |-> {"ASSIGNED"}]

LecturerSupervisorRequests ==
  LET list == <<{"listLecturerSupervisorRequests"}>>
  IN  [Page(Lecturer, list,
            [accept |-> Offered(LecturerRequestOffers.answer,
                          Dialog("isProcessing", "acceptSupervisorRequest", list)),
             reject |-> Offered(LecturerRequestOffers.answer,
                          Dialog("isProcessing", "rejectSupervisorRequest", list))])
       EXCEPT !.kind = "supervisor", !.refresh = TRUE]

\* Feedback is asked for while a log is submitted; the notes and the attachments
\* can be changed whatever its status.
FeedbackOffers == [feedback |-> {"SUBMITTED"}]

LecturerGuidanceLogs ==
  LET list == <<{"getLecturerGuidanceLogs"}>>
  IN  [Page(Lecturer, list,
            [approve  |-> Offered(FeedbackOffers.feedback,
                            Dialog("isSubmitting", "approveGuidanceLog", list)),
             revision |-> Offered(FeedbackOffers.feedback,
                            Dialog("isSubmitting", "requestRevisionGuidanceLog", list)),
             notes    |-> Dialog("isSavingNotes", "updateGuidanceLogNotes", list),
             attach   |-> Act("row", "isUploading",
                              <<{"uploadFile"}, {"attachFileToGuidanceLog"}>>, {list}),
             detach   |-> Button("removeAttachmentFromGuidanceLog", list)])
       EXCEPT !.kind = "guidance", !.outer = TRUE, !.hides = FALSE,
              !.others = {<<{"getThesisMilestones"}>>}]

FinalDocumentOffers == [start |-> {"SUBMITTED"}, decide |-> {"UNDER_REVIEW"}]

LecturerFinalDocuments ==
  LET list == <<{"listLecturerFinalDocuments"}>>
      Decide(call) == Offered(FinalDocumentOffers.decide, Dialog("isSubmitting", call, list))
  IN  [Page(Lecturer, list,
            [start    |-> Offered(FinalDocumentOffers.start,
                            Button("startFinalDocumentReview", list)),
             approve  |-> Decide("approveFinalDocument"),
             revision |-> Decide("requestRevisionFinalDocument"),
             reject   |-> Decide("rejectFinalDocument")])
       EXCEPT !.kind = "final", !.refresh = TRUE, !.filter = TRUE]

\* The slots of the lecturer: a slot that is over or cancelled has no buttons.
LecturerConsultation ==
  LET list == <<{"listLecturerSlots"}>>
  IN  [Page(Lecturer, list,
            [create |-> Unawaited(Form("isCreating", "createSlot", list)),
             cancel |-> Unawaited(Dialog("isCancelling", "cancelSlot", list)),
             edit   |-> Unawaited(Dialog("isEditing", "updateSlot", list))])
       EXCEPT !.refresh = TRUE]

BookingOffers == [answer |-> {"PENDING"}]

LecturerBookings ==
  LET list == <<{"listLecturerBookings", "listLecturerSlots"}>>
      Answer(call) ==
        Offered(BookingOffers.answer, Unawaited(Dialog("isProcessing", call, list)))
  IN  [Page(Lecturer, list,
            [approve    |-> Answer("approveBooking"),
             reject     |-> Answer("rejectBooking"),
             reschedule |-> Answer("rescheduleBooking")])
       EXCEPT !.kind = "booking", !.refresh = TRUE, !.filter = TRUE]

LecturerPages ==
     "/lecturer" :> LecturerDashboard
  @@ "/lecturer/announcements" :> LecturerAnnouncements
  @@ "/lecturer/profile" :> LecturerProfile
  @@ "/lecturer/supervised-students" :> SupervisedStudents
  @@ "/lecturer/supervised-students/[id]" :> SupervisedStudent
  @@ "/lecturer/supervisor-requests" :> LecturerSupervisorRequests
  @@ "/lecturer/guidance-logs" :> LecturerGuidanceLogs
  @@ "/lecturer/final-documents" :> LecturerFinalDocuments
  @@ "/lecturer/consultation" :> LecturerConsultation
  @@ "/lecturer/consultation/bookings" :> LecturerBookings
=============================================================================
