--------------------------- MODULE WebAdminPages ---------------------------
(***************************************************************************)
(* The pages of apps/web/src/app/admin.                                    *)
(***************************************************************************)
EXTENDS WebParts
LOCAL INSTANCE TLC

AdminDashboard ==
  [Page(Admin, NoLoad, NoActs) EXCEPT
     !.others = {<<{"listAllAcademicRequests"}>>, <<{"getAdminOperationalDashboard"}>>,
                 <<{"getSLAAtRiskRequests"}>>},
     !.links = {"/admin/academic-requests", "/admin/supervisor-requests", "/reports"}]

\* A row that waits for verification can be verified, returned or selected.
AdminRequestOffers == [decide |-> {"SUBMITTED"}]

\* The selected rows are verified from a bar above the list.  Choosing a template
\* counts its usage in the background.
AdminRequests ==
  LET list == <<{"listAllAcademicRequests"}>>
      Decide(busy, call) == Offered(AdminRequestOffers.decide, Dialog(busy, call, list))
  IN  [Page(Admin, list,
            [verify     |-> Decide("isVerifying", "verifyAcademicRequest"),
             revision   |-> Decide("isRequestingRevision", "requestRevisionAcademicRequest"),
             bulkVerify |-> Offered(AdminRequestOffers.decide,
                              Act("bar", "isBulkVerifying",
                                  <<{"bulkVerifyAcademicRequests"}>>, {list})),
             template   |-> Act("dialog", "", <<{"incrementTemplateUsage"}>>, {}),
             export     |-> Act("form", "", <<{"exportAcademicRequests"}>>, {})]
            @@ FileSection({}) @@ CommentThread)
       EXCEPT !.kind = "academic", !.refresh = TRUE, !.filter = TRUE,
              !.others = {<<{"listNoteTemplates"}>>}, !.details = {Files, Timeline, Comments}]

AdminAcademicYears ==
  LET list == <<{"listAcademicYears"}>>
  IN  [Page(Super, list,
            [create    |-> Form("isSaving", "createAcademicYear", list),
             setActive |-> Button("setActiveAcademicYear", list)])
       EXCEPT !.refresh = TRUE]

AdminAnnouncements ==
  LET list == <<{"listAnnouncements"}>>
  IN  [Page(Managers, list,
            [create     |-> Form("isSaving", "createAnnouncement", list),
             update     |-> Dialog("isSaving", "updateAnnouncement", list),
             deactivate |-> Button("deactivateAnnouncement", list)])
       EXCEPT !.refresh = TRUE]

AdminAuditLogs ==
  [Page(Super, <<{"listAuditLogs"}>>, NoActs) EXCEPT !.refresh = TRUE]

AdminCalendar ==
  LET list == <<{"getAcademicCalendar"}>>
  IN  [Page(Managers, list,
            [create |-> Form("isSubmitting", "createCalendarEvent", list),
             update |-> Dialog("isSubmitting", "updateCalendarEvent", list),
             delete |-> Button("deleteCalendarEvent", list)])
       EXCEPT !.outer = TRUE, !.hides = FALSE]

AdminDepartments ==
  LET list == <<{"listDepartments"}>>
  IN  Page(Super, list,
           [create |-> Form("isSaving", "createDepartment", list),
            update |-> Dialog("isSaving", "updateDepartment", list)])

AdminFaqs ==
  LET list == <<{"getFAQCategories", "getFAQs"}>>
  IN  [Page(Admin, list,
            [create |-> Form("isSubmitting", "createFAQ", list),
             update |-> Dialog("isSubmitting", "updateFAQ", list),
             delete |-> Button("deleteFAQ", list)])
       EXCEPT !.outer = TRUE, !.hides = FALSE]

\* The departments are kept once they are there.
AdminLecturers ==
  LET list == <<{"listAllLecturers", "listDepartments"}>>
  IN  [Page(Admin, list,
            [save   |-> Dialog("isSaving", "upsertLecturer", list),
             toggle |-> Button("setLecturerStatus", list)]
            @@ BulkImport("dryRunLecturers", "bulkImportLecturers", list))
       EXCEPT !.filter = TRUE, !.once = {"listDepartments"}]

AdminStudents ==
  LET list == <<{"listStudents", "listDepartments"}>>
  IN  [Page(Admin, list,
            [save   |-> Dialog("isSaving", "upsertStudent", list),
             toggle |-> Button("setStudentStatus", list)]
            @@ BulkImport("dryRunStudents", "bulkImportStudents", list))
       EXCEPT !.filter = TRUE, !.once = {"listDepartments"}]

\* Only a change of the category shows the skeleton again.
AdminNoteTemplates ==
  LET list == <<{"listNoteTemplates"}>>
  IN  [Page(Admin, list,
            [create |-> Form("isSubmitting", "createNoteTemplate", list),
             update |-> Dialog("isSubmitting", "updateNoteTemplate", list),
             delete |-> Button("deleteNoteTemplate", list)])
       EXCEPT !.outer = TRUE, !.filter = TRUE, !.hides = FALSE]

SupervisorRequestOffers == [decide |-> {"SUBMITTED"}]

AdminSupervisorRequests ==
  LET list == <<{"listAllSupervisorRequests"}>>
      Decide(busy, call) == Offered(SupervisorRequestOffers.decide, Dialog(busy, call, list))
  IN  [Page(Admin, list,
            [verify   |-> Decide("isVerifying", "verifySupervisorRequest"),
             revision |-> Decide("isRequestingRevision", "requestRevisionSupervisorRequest")])
       EXCEPT !.kind = "supervisor", !.refresh = TRUE, !.filter = TRUE]

\* The milestones of the first department are asked for once there is one; without
\* a department neither the filter nor the form can be used.
AdminThesisMilestones ==
  LET list == <<{"getThesisMilestones"}>>
  IN  [Page(Admin, list,
            [create |-> Form("isSubmitting", "createThesisMilestone", list),
             update |-> Dialog("isSubmitting", "updateThesisMilestone", list),
             delete |-> Button("deleteThesisMilestone", list)])
       EXCEPT !.outer = TRUE, !.filter = TRUE, !.first = <<{"listDepartments"}>>]

AdminThesisOverview ==
  [Page(Managers, <<{"getThesisOverview"}>>, NoActs) EXCEPT !.refresh = TRUE, !.filter = TRUE]

\* A new administrator or head is bound to departments by a second call; the
\* departments of an existing one are read when the dialog opens.
AdminUsers ==
  LET list == <<{"listUsers", "listDepartments"}>>
  IN  [Page({"SUPER_ADMIN"}, list,
            [create       |-> Form("isCreating", "createUser", list),
             createScoped |-> Act("form", "isCreating", <<{"createUser"}, {"setUserScope"}>>,
                                  {list}),
             edit         |-> Dialog("isSavingEdit", "updateUser", list),
             role         |-> Dialog("isSavingRole", "assignUserRole", list),
             toggle       |-> Button("setUserStatus", list),
             openScope    |-> Act("row", "", <<{"getUserScope"}>>, {}),
             saveScope    |-> Act("dialog", "isSavingScope", <<{"setUserScope"}>>, {})])
       EXCEPT !.filter = TRUE, !.once = {"listDepartments"}]

AdminPages ==
     "/admin" :> AdminDashboard
  @@ "/admin/academic-requests" :> AdminRequests
  @@ "/admin/academic-years" :> AdminAcademicYears
  @@ "/admin/announcements" :> AdminAnnouncements
  @@ "/admin/audit-logs" :> AdminAuditLogs
  @@ "/admin/calendar" :> AdminCalendar
  @@ "/admin/departments" :> AdminDepartments
  @@ "/admin/faqs" :> AdminFaqs
  @@ "/admin/lecturers" :> AdminLecturers
  @@ "/admin/students" :> AdminStudents
  @@ "/admin/note-templates" :> AdminNoteTemplates
  @@ "/admin/supervisor-requests" :> AdminSupervisorRequests
  @@ "/admin/thesis-milestones" :> AdminThesisMilestones
  @@ "/admin/thesis-overview" :> AdminThesisOverview
  @@ "/admin/users" :> AdminUsers
=============================================================================
