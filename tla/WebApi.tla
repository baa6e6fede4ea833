------------------------------- MODULE WebApi -------------------------------
(***************************************************************************)
(* The calls the web application makes: one record per file of             *)
(* apps/web/src/lib, which maps the name of an exported function to the    *)
(* request it sends.  A path is written as the pattern the gateway         *)
(* registers, without the prefix /api/v1/.  `reads' and `writes' name the  *)
(* tables behind the path that the answer shows or the handler changes:    *)
(* what a page displays is stale once one of them is written.              *)
(***************************************************************************)
LOCAL INSTANCE TLC
LOCAL INSTANCE Sequences

Get(path, reads)    == [method |-> "GET", path |-> path, reads |-> reads, writes |-> {}]
Post(path, writes)  == [method |-> "POST", path |-> path, reads |-> {}, writes |-> writes]
Put(path, writes)   == [method |-> "PUT", path |-> path, reads |-> {}, writes |-> writes]
Delete(path, writes) == [method |-> "DELETE", path |-> path, reads |-> {}, writes |-> writes]

\* academic-api.ts
StudentRequestApi == [
  listAcademicServices  |-> Get("academic-services", {"services"}),
  listMyAcademicRequests |-> Get("student/academic-requests", {"requests"}),
  createAcademicRequest |-> Post("student/academic-requests", {"requests"}),
  cancelAcademicRequest |-> Post("student/academic-requests/cancel", {"requests"}),
  verifyAcademicRequest |-> Post("admin/academic-requests/verify", {"requests"}),
  approveAcademicRequest |-> Post("head/academic-requests/approve", {"requests"}),
  rejectAcademicRequest |-> Post("head/academic-requests/reject", {"requests"}),
  bulkApproveAcademicRequests |-> Post("head/academic-requests/bulk-approve", {"requests"}),
  bulkRejectAcademicRequests |-> Post("head/academic-requests/bulk-reject", {"requests"})]

AcademicRequestApi == [
  completeAcademicRequest |-> Post("staff/academic-requests/complete", {"requests"}),
  requestRevisionAcademicRequest |-> Post("admin/academic-requests/request-revision", {"requests"}),
  submitAcademicRequest |-> Post("student/academic-requests/submit", {"requests"}),
  updateAcademicRequest |-> Post("student/academic-requests/update", {"requests"}),
  getAcademicRequestHistory |-> Get("academic-requests/{id}/history", {"requests"}),
  listAllAcademicRequests |-> Get("admin/academic-requests", {"requests"})]

\* supervisor-api.ts
StudentSupervisorApi == [
  listLecturers |-> Get("lecturers", {"lecturers"}),
  listMySupervisorRequests |-> Get("student/supervisor-requests", {"supervisorRequests"}),
  createSupervisorRequest |-> Post("student/supervisor-requests", {"supervisorRequests"}),
  verifySupervisorRequest |-> Post("admin/supervisor-requests/verify", {"supervisorRequests"}),
  assignSupervisor |-> Post("head/supervisor-requests/assign", {"supervisorRequests"}),
  reassignSupervisor |-> Post("head/supervisor-requests/reassign", {"supervisorRequests"})]

SupervisorRequestApi == [
  listLecturerSupervisorRequests |-> Get("lecturer/supervisor-requests", {"supervisorRequests"}),
  acceptSupervisorRequest |-> Post("lecturer/supervisor-requests/accept", {"supervisorRequests"}),
  rejectSupervisorRequest |-> Post("lecturer/supervisor-requests/reject", {"supervisorRequests"}),
  cancelSupervisorRequest |-> Post("student/supervisor-requests/cancel", {"supervisorRequests"}),
  listAllSupervisorRequests |-> Get("admin/supervisor-requests", {"supervisorRequests"}),
  requestRevisionSupervisorRequest |->
    Post("admin/supervisor-requests/request-revision", {"supervisorRequests"})]

\* admin-api.ts
UserApi == [
  listUsers |-> Get("admin/users", {"users"}),
  updateUser |-> Post("admin/users/update", {"users"}),
  setUserStatus |-> Post("admin/users/status", {"users"}),
  assignUserRole |-> Post("admin/users/role", {"users"}),
  createUser |-> Post("admin/users/create", {"users"}),
  listDepartments |-> Get("admin/departments", {"departments"}),
  createDepartment |-> Post("admin/departments/create", {"departments"}),
  updateDepartment |-> Post("admin/departments/update", {"departments"})]

DirectoryApi == [
  listStudents |-> Get("admin/students", {"students"}),
  upsertStudent |-> Post("admin/students/upsert", {"students"}),
  setStudentStatus |-> Post("admin/students/status", {"students"}),
  listAllLecturers |-> Get("admin/lecturers", {"lecturers"}),
  upsertLecturer |-> Post("admin/lecturers/upsert", {"lecturers"}),
  setLecturerStatus |-> Post("admin/lecturers/status", {"lecturers"})]

\* A dry run is the same request with a flag: it validates and writes nothing.
BulkImportApi == [
  bulkImportStudents |-> Post("admin/students/bulk-import", {"students"}),
  dryRunStudents |-> Post("admin/students/bulk-import", {}),
  bulkImportLecturers |-> Post("admin/lecturers/bulk-import", {"lecturers"}),
  dryRunLecturers |-> Post("admin/lecturers/bulk-import", {}),
  listAuditLogs |-> Get("admin/audit-logs", {"auditLogs"})]

\* academic-year-api.ts
AcademicYearApi == [
  listAcademicYears |-> Get("academic-years", {"academicYears"}),
  getActiveAcademicYear |-> Get("academic-years/active", {"academicYears"}),
  createAcademicYear |-> Post("admin/academic-years/create", {"academicYears"}),
  setActiveAcademicYear |-> Post("admin/academic-years/set-active", {"academicYears"}),
  getUserScope |-> Get("admin/users/scope", {"scopes"}),
  setUserScope |-> Post("admin/users/scope/set", {"scopes"})]

\* announcement-api.ts
AnnouncementApi == [
  listAnnouncements |-> Get("announcements", {"announcements"}),
  createAnnouncement |-> Post("admin/announcements/create", {"announcements"}),
  updateAnnouncement |-> Post("admin/announcements/update", {"announcements"}),
  deactivateAnnouncement |-> Post("admin/announcements/deactivate", {"announcements"})]

\* reporting-api.ts, admin-dashboard-api.ts, trends-api.ts, thesis-overview-api.ts.
\* The reports are projections that follow the events of the services in their
\* own time, so they count as tables no call of the web writes.
ReportApi == [
  getAcademicReport |-> Get("reports/academic-requests", {}),
  getSupervisorReport |-> Get("reports/supervisor-requests", {}),
  getLecturerWorkload |-> Get("reports/lecturer-workload", {})]
DashboardApi == [
  getAdminOperationalDashboard |-> Get("reports/admin-dashboard", {}),
  getSLAAtRiskRequests |-> Get("reports/sla-at-risk", {})]
TrendsApi == [
  getRequestTrends |-> Get("reports/trends", {}),
  getProcessingTimeReport |-> Get("reports/processing-time", {})]
ThesisOverviewApi == [
  getThesisOverview |-> Get("admin/thesis-overview", {"thesisProgress"})]

\* notification-api.ts
NotificationApi == [
  listMyNotifications |-> Get("notifications", {"notifications"}),
  markNotificationAsRead |-> Post("notifications/read", {"notifications"}),
  markAllNotificationsAsRead |-> Post("notifications/read-all", {"notifications"})]

\* comment-bulk-api.ts
CommentApi == [
  listRequestComments |-> Get("request-comments", {"comments"}),
  createRequestComment |-> Post("request-comments/create", {"comments"}),
  bulkVerifyAcademicRequests |-> Post("admin/academic-requests/bulk-verify", {"requests"})]

\* note-template-api.ts
NoteTemplateApi == [
  listNoteTemplates |-> Get("admin/note-templates", {"noteTemplates"}),
  createNoteTemplate |-> Post("admin/note-templates/create", {"noteTemplates"}),
  updateNoteTemplate |-> Post("admin/note-templates/update", {"noteTemplates"}),
  deleteNoteTemplate |-> Post("admin/note-templates/delete", {"noteTemplates"}),
  incrementTemplateUsage |-> Post("admin/note-templates/increment-usage", {"noteTemplates"})]

\* file-api.ts
FileApi == [
  listAcademicRequestFiles |-> Get("academic-requests/files", {"files"}),
  uploadSupportingDocument |->
    Post("student/academic-requests/upload-supporting-document", {"files"}),
  uploadFinalDocument |-> Post("staff/academic-requests/upload-final-document", {"files"}),
  uploadFile |-> Post("guidance-logs/upload", {"files"}),
  downloadFile |-> Get("files/download", {"files"})]

\* consultation-api.ts.  A booking shows in the places left of its slot.
LecturerConsultationApi == [
  listLecturerSlots |-> Get("lecturer/consultation-slots", {"slots", "bookings"}),
  createSlot |-> Post("lecturer/consultation-slots", {"slots"}),
  updateSlot |-> Put("lecturer/consultation-slots/{id}", {"slots"}),
  cancelSlot |-> Delete("lecturer/consultation-slots/{id}", {"slots", "bookings"}),
  listLecturerBookings |-> Get("lecturer/consultation-bookings", {"bookings"}),
  approveBooking |-> Post("lecturer/consultation-bookings/{id}/approve", {"bookings"}),
  rejectBooking |-> Post("lecturer/consultation-bookings/{id}/reject", {"bookings"})]

StudentConsultationApi == [
  rescheduleBooking |-> Post("lecturer/consultation-bookings/{id}/reschedule", {"bookings"}),
  listAvailableSlots |-> Get("student/consultation-slots", {"slots", "bookings"}),
  listStudentBookings |-> Get("student/consultation-bookings", {"bookings"}),
  createBooking |-> Post("student/consultation-bookings", {"bookings"}),
  cancelBooking |-> Delete("student/consultation-bookings/{id}", {"bookings"}),
  acceptReschedule |-> Post("student/consultation-bookings/{id}/accept-reschedule", {"bookings"})]

\* guidance-api.ts
GuidanceApi == [
  getStudentGuidanceLogs |-> Get("student/guidance-logs", {"guidanceLogs"}),
  getLecturerGuidanceLogs |-> Get("lecturer/guidance-logs", {"guidanceLogs"}),
  getStudentGuidanceLogById |-> Get("student/guidance-logs/{id}", {"guidanceLogs"}),
  createGuidanceLog |-> Post("student/guidance-logs", {"guidanceLogs"}),
  updateGuidanceLog |-> Put("student/guidance-logs/{id}", {"guidanceLogs"}),
  submitGuidanceLog |-> Post("student/guidance-logs/{id}/submit", {"guidanceLogs"}),
  deleteGuidanceLog |-> Delete("student/guidance-logs/{id}", {"guidanceLogs"}),
  approveGuidanceLog |-> Post("lecturer/guidance-logs/{id}/approve", {"guidanceLogs"}),
  requestRevisionGuidanceLog |->
    Post("lecturer/guidance-logs/{id}/request-revision", {"guidanceLogs"}),
  updateGuidanceLogNotes |-> Put("lecturer/guidance-logs/{id}/notes", {"guidanceLogs"}),
  attachFileToGuidanceLog |-> Post("lecturer/guidance-logs/{id}/attachments", {"guidanceLogs"}),
  removeAttachmentFromGuidanceLog |->
    Delete("lecturer/guidance-logs/{id}/attachments/{file}", {"guidanceLogs"})]

\* thesis-api.ts
ThesisApi == [
  getThesisMilestones |-> Get("thesis-milestones", {"milestones"}),
  getStudentThesisProgress |-> Get("student/thesis-progress", {"thesisProgress"}),
  updateThesisProgress |-> Put("student/thesis-progress/{id}", {"thesisProgress"}),
  createThesisMilestone |-> Post("admin/thesis-milestones", {"milestones"}),
  updateThesisMilestone |-> Put("admin/thesis-milestones/{id}", {"milestones"}),
  deleteThesisMilestone |-> Delete("admin/thesis-milestones/{id}", {"milestones"}),
  listSupervisedProgress |-> Get("lecturer/supervised-students/progress", {"thesisProgress"}),
  getStudentProgressDetail |->
    Get("lecturer/supervised-students/{id}/progress", {"thesisProgress"}),
  completeMilestone |-> Post("lecturer/thesis-progress/{id}/complete", {"thesisProgress"})]

\* thesis-final-document-api.ts
FinalDocumentApi == [
  listLecturerFinalDocuments |-> Get("lecturer/final-documents", {"finalDocuments"}),
  getFinalDocument |-> Get("lecturer/final-documents/{id}", {"finalDocuments"}),
  startFinalDocumentReview |-> Post("lecturer/final-documents/start-review", {"finalDocuments"}),
  approveFinalDocument |-> Post("lecturer/final-documents/approve", {"finalDocuments"}),
  requestRevisionFinalDocument |->
    Post("lecturer/final-documents/request-revision", {"finalDocuments"}),
  rejectFinalDocument |-> Post("lecturer/final-documents/reject", {"finalDocuments"})]

\* calendar-api.ts, faq-api.ts, delegation-api.ts, search-api.ts
CalendarApi == [
  getAcademicCalendar |-> Get("academic-calendar", {"calendar"}),
  createCalendarEvent |-> Post("admin/academic-calendar", {"calendar"}),
  updateCalendarEvent |-> Put("admin/academic-calendar/{id}", {"calendar"}),
  deleteCalendarEvent |-> Delete("admin/academic-calendar/{id}", {"calendar"})]
FaqApi == [
  getFAQCategories |-> Get("faq-categories", {"faqCategories"}),
  getFAQs |-> Get("faqs", {"faqs"}),
  createFAQ |-> Post("admin/faqs", {"faqs"}),
  updateFAQ |-> Put("admin/faqs/{id}", {"faqs"}),
  deleteFAQ |-> Delete("admin/faqs/{id}", {"faqs"})]
DelegationApi == [
  listDelegations |-> Get("head/delegations", {"delegations"}),
  createDelegation |-> Post("head/delegations/create", {"delegations"}),
  revokeDelegation |-> Post("head/delegations/revoke", {"delegations"}),
  checkDelegation |-> Get("head/delegations/check", {"delegations"})]
SearchApi == [globalSearch |-> Get("search", {})]

\* auth-api.ts, the part sent with an access token
ProfileApi == [
  getMe |-> Get("me", {"users"}),
  changePassword |-> Post("me/change-password", {"users"})]

\* Requests that bypass apiFetch.  The lecturer's profile and dashboard are asked
\* of the origin the page came from, which forwards nothing to the gateway: no
\* route has such a path.
OwnOrigin(path) == "own-origin/" \o path
LecturerProfileApi == [
  fetchProfile |-> Get(OwnOrigin("lecturer/profile"), {"lecturers"}),
  saveProfile |-> Put(OwnOrigin("lecturer/profile"), {"lecturers"})]
LecturerDashboardApi == [fetchDashboard |-> Get(OwnOrigin("lecturer/dashboard"), {"lecturers"})]
ExportApi == [exportAcademicRequests |-> Get("reports/academic-requests", {})]

Api == StudentRequestApi @@ AcademicRequestApi @@ StudentSupervisorApi
    @@ SupervisorRequestApi @@ UserApi @@ DirectoryApi @@ BulkImportApi
    @@ AcademicYearApi @@ AnnouncementApi @@ ReportApi @@ DashboardApi @@ TrendsApi
    @@ ThesisOverviewApi @@ NotificationApi @@ CommentApi @@ NoteTemplateApi @@ FileApi
    @@ LecturerConsultationApi @@ StudentConsultationApi @@ GuidanceApi @@ ThesisApi
    @@ FinalDocumentApi @@ CalendarApi @@ FaqApi @@ DelegationApi @@ SearchApi @@ ProfileApi
    @@ LecturerProfileApi @@ LecturerDashboardApi @@ ExportApi
=============================================================================
