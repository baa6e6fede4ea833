-------------------------- MODULE WebStudentPages --------------------------
(***************************************************************************)
(* The pages of apps/web/src/app/student.                                  *)
(***************************************************************************)
EXTENDS WebParts
LOCAL INSTANCE TLC

StudentDashboard ==
  [Page(Student, NoLoad, NoActs) EXCEPT
     !.others = {<<{"listMyAcademicRequests"}>>, <<{"getStudentThesisProgress"}>>,
                 <<{"getStudentGuidanceLogs"}>>, <<{"getAcademicCalendar"}>>},
     !.links = {"/student/thesis-progress", "/student/academic-requests",
                "/student/calendar", "/student/guidance-logs"}]

\* A row can be corrected and sent in again, or withdrawn.
StudentRequestOffers == [save |-> {"REVISION_REQUIRED"},
                         cancel |-> {"SUBMITTED", "REVISION_REQUIRED"}]

StudentRequests ==
  LET list == <<{"listAcademicServices", "listMyAcademicRequests"}>>
  IN  [Page(Student, list,
            [create |-> Form("isCreating", "createAcademicRequest", list),
             save |-> Offered(StudentRequestOffers.save,
                        Act("dialog", "isSavingEdit",
                            <<{"updateAcademicRequest"}, {"submitAcademicRequest"}>>, {list})),
             cancel |-> Offered(StudentRequestOffers.cancel,
                          Dialog("isCancelling", "cancelAcademicRequest", list))]
            @@ FileSection({"uploadSupportingDocument"}) @@ CommentThread)
       EXCEPT !.kind = "academic", !.hides = FALSE,
              !.details = {Files, Timeline, Comments}]

StudentCalendar ==
  [Page(Student, <<{"getAcademicCalendar"}>>, NoActs) EXCEPT !.outer = TRUE]

StudentFaq ==
  [Page(Student, <<{"getFAQCategories"}, {"getFAQs"}>>, NoActs) EXCEPT !.outer = TRUE]

StudentLecturers ==
  [Page(Student, <<{"listLecturers"}>>, NoActs) EXCEPT !.outer = TRUE]

\* The refresh button spins but leaves the milestones on the screen.
StudentThesisProgress ==
  LET list == <<{"getStudentThesisProgress"}>>
  IN  [Page(Student, list,
            [update |-> Dialog("isSubmitting", "updateThesisProgress", list),
             start  |-> Button("updateThesisProgress", list)])
       EXCEPT !.outer = TRUE, !.hides = FALSE, !.refresh = TRUE]

\* The logs are asked for only once a supervision is found.
GuidanceOffers == [update |-> {"DRAFT", "REVISION_REQUIRED"},
                   submit |-> {"DRAFT", "REVISION_REQUIRED"},
                   delete |-> {"DRAFT"}]

StudentGuidanceLogs ==
  LET list == <<{"listMySupervisorRequests"}, {"getStudentGuidanceLogs"}>>
  IN  [Page(Student, list,
            [create |-> Form("isSubmitting", "createGuidanceLog", list),
             update |-> Offered(GuidanceOffers.update,
                          Dialog("isSubmitting", "updateGuidanceLog", list)),
             submit |-> Offered(GuidanceOffers.submit, Button("submitGuidanceLog", list)),
             delete |-> Offered(GuidanceOffers.delete, Button("deleteGuidanceLog", list))])
       EXCEPT !.kind = "guidance", !.outer = TRUE, !.hides = FALSE]

\* The rows of the list carry no button.
StudentSupervisorRequests ==
  LET list == <<{"listLecturers", "listMySupervisorRequests"}>>
  IN  [Page(Student, list,
            [create |-> Form("isCreating", "createSupervisorRequest", list)])
       EXCEPT !.kind = "supervisor", !.hides = FALSE]

StudentBookingOffers == [cancel |-> {"PENDING", "RESCHEDULED"}, accept |-> {"RESCHEDULED"}]

StudentConsultation ==
  LET list == <<{"listAvailableSlots", "listStudentBookings"}>>
  IN  [Page(Student, list,
            [book   |-> Unawaited(Form("isBooking", "createBooking", list)),
             cancel |-> Offered(StudentBookingOffers.cancel,
                          Unawaited(Dialog("isCancelling", "cancelBooking", list))),
             accept |-> Offered(StudentBookingOffers.accept,
                          Unawaited(Dialog("isAccepting", "acceptReschedule", list)))])
       EXCEPT !.kind = "booking", !.refresh = TRUE]

StudentPages ==
     "/student" :> StudentDashboard
  @@ "/student/academic-requests" :> StudentRequests
  @@ "/student/calendar" :> StudentCalendar
  @@ "/student/faq" :> StudentFaq
  @@ "/student/lecturers" :> StudentLecturers
  @@ "/student/thesis-progress" :> StudentThesisProgress
  @@ "/student/guidance-logs" :> StudentGuidanceLogs
  @@ "/student/supervisor-requests" :> StudentSupervisorRequests
  @@ "/student/consultation" :> StudentConsultation
=============================================================================
