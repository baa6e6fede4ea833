--------------------------- MODULE GatewayRoutes ---------------------------
(***************************************************************************)
(* The routes of api-gateway: for every path pattern the methods its       *)
(* handler serves and the roles the middleware lets through.  RequireAuth  *)
(* asks auth-service for the user behind the token, so the role is the one *)
(* in the database at that moment; RequireRole compares it with the list   *)
(* of the route, and a route without a list admits every signed-in user.   *)
(***************************************************************************)
LOCAL INSTANCE TLC

Role == {"MAHASISWA", "ADMIN_PRODI", "KAPRODI", "DOSEN", "TATA_USAHA", "SUPER_ADMIN"}

Student   == {"MAHASISWA"}
Lecturer  == {"DOSEN"}
Super     == {"SUPER_ADMIN"}
Admin     == {"ADMIN_PRODI", "SUPER_ADMIN"}
Heads      == {"KAPRODI", "SUPER_ADMIN"}
Staff     == {"TATA_USAHA", "SUPER_ADMIN"}
Managers  == {"ADMIN_PRODI", "KAPRODI", "SUPER_ADMIN"}
Officials == {"ADMIN_PRODI", "KAPRODI", "TATA_USAHA", "SUPER_ADMIN"}

On(roles, methods) == [roles |-> roles, methods |-> methods]

AcademicRoutes ==
     "me" :> On(Role, {"GET"})
  @@ "me/change-password" :> On(Role, {"POST"})
  @@ "academic-services" :> On(Role, {"GET"})
  @@ "admin/academic-requests" :> On(Officials, {"GET"})
  @@ "student/academic-requests" :> On(Student, {"GET", "POST"})
  @@ "admin/academic-requests/verify" :> On(Admin, {"POST"})
  @@ "admin/academic-requests/request-revision" :> On(Admin, {"POST"})
  @@ "student/academic-requests/submit" :> On(Student, {"POST"})
  @@ "student/academic-requests/update" :> On(Student, {"POST"})
  @@ "head/academic-requests/approve" :> On(Heads, {"POST"})
  @@ "head/academic-requests/reject" :> On(Heads, {"POST"})
  @@ "head/academic-requests/bulk-approve" :> On(Heads, {"POST"})
  @@ "head/academic-requests/bulk-reject" :> On(Heads, {"POST"})
  @@ "head/delegations" :> On(Heads, {"GET"})
  @@ "head/delegations/create" :> On(Heads, {"POST"})
  @@ "head/delegations/revoke" :> On(Heads, {"POST"})
  @@ "head/delegations/check" :> On(Role, {"GET"})

FileRoutes ==
     "staff/academic-requests/complete" :> On(Staff, {"POST"})
  @@ "student/academic-requests/cancel" :> On(Student, {"POST"})
  @@ "student/academic-requests/upload-supporting-document" :> On(Student, {"POST"})
  @@ "staff/academic-requests/upload-final-document" :> On(Staff, {"POST"})
  @@ "academic-requests/files" :> On(Role, {"GET"})
  @@ "academic-requests/{id}/history" :> On(Role, {"GET"})
  @@ "files/download" :> On(Role, {"GET"})
  @@ "notifications" :> On(Role, {"GET"})
  @@ "notifications/read" :> On(Role, {"POST"})
  @@ "notifications/read-all" :> On(Role, {"POST"})
  @@ "reports/academic-requests" :> On(Officials, {"GET"})
  @@ "lecturers" :> On(Role, {"GET"})

SupervisorRoutes ==
     "student/supervisor-requests" :> On(Student, {"GET", "POST"})
  @@ "admin/supervisor-requests" :> On(Managers, {"GET"})
  @@ "admin/supervisor-requests/verify" :> On(Admin, {"POST"})
  @@ "admin/supervisor-requests/request-revision" :> On(Admin, {"POST"})
  @@ "head/supervisor-requests/assign" :> On(Heads, {"POST"})
  @@ "head/supervisor-requests/reassign" :> On(Heads, {"POST"})
  @@ "lecturer/supervisor-requests" :> On(Lecturer, {"GET"})
  @@ "lecturer/supervisor-requests/accept" :> On(Lecturer, {"POST"})
  @@ "lecturer/supervisor-requests/reject" :> On(Lecturer, {"POST"})
  @@ "lecturer/profile" :> On(Lecturer, {"GET", "PUT"})
  @@ "lecturer/dashboard" :> On(Lecturer, {"GET"})
  @@ "lecturer/quota" :> On(Lecturer, {"GET"})
  @@ "student/supervisor-requests/cancel" :> On(Student, {"POST"})
  @@ "lecturer/final-documents" :> On(Lecturer, {"GET"})
  @@ "lecturer/final-documents/start-review" :> On(Lecturer, {"POST"})
  @@ "lecturer/final-documents/approve" :> On(Lecturer, {"POST"})
  @@ "lecturer/final-documents/request-revision" :> On(Lecturer, {"POST"})
  @@ "lecturer/final-documents/reject" :> On(Lecturer, {"POST"})
  @@ "lecturer/final-documents/{id}" :> On(Lecturer, {"GET"})
  @@ "reports/supervisor-requests" :> On(Officials, {"GET"})

AdminRoutes ==
     "admin/users" :> On(Admin, {"GET"})
  @@ "admin/users/create" :> On(Super, {"POST"})
  @@ "admin/users/update" :> On(Super, {"POST"})
  @@ "admin/users/status" :> On(Super, {"POST"})
  @@ "admin/users/role" :> On(Super, {"POST"})
  @@ "admin/departments" :> On(Managers, {"GET"})
  @@ "admin/departments/create" :> On(Super, {"POST"})
  @@ "admin/departments/update" :> On(Super, {"POST"})
  @@ "admin/students" :> On(Managers, {"GET"})
  @@ "admin/students/upsert" :> On(Admin, {"POST"})
  @@ "admin/students/status" :> On(Admin, {"POST"})
  @@ "admin/lecturers" :> On(Managers, {"GET"})
  @@ "admin/lecturers/upsert" :> On(Admin, {"POST"})
  @@ "admin/lecturers/status" :> On(Admin, {"POST"})
  @@ "admin/audit-logs" :> On(Super, {"GET"})
  @@ "announcements" :> On(Role, {"GET"})
  @@ "admin/announcements/create" :> On(Managers, {"POST"})
  @@ "admin/announcements/update" :> On(Managers, {"POST"})
  @@ "admin/announcements/deactivate" :> On(Managers, {"POST"})
  @@ "admin/note-templates" :> On(Admin, {"GET"})
  @@ "admin/note-templates/create" :> On(Admin, {"POST"})
  @@ "admin/note-templates/update" :> On(Admin, {"POST"})
  @@ "admin/note-templates/delete" :> On(Admin, {"POST"})
  @@ "admin/note-templates/increment-usage" :> On(Admin, {"POST"})
  @@ "academic-years" :> On(Role, {"GET"})
  @@ "academic-years/active" :> On(Role, {"GET"})
  @@ "admin/academic-years/create" :> On(Super, {"POST"})
  @@ "admin/academic-years/set-active" :> On(Super, {"POST"})
  @@ "admin/users/scope" :> On(Super, {"GET"})
  @@ "admin/users/scope/set" :> On(Super, {"POST"})
  @@ "request-comments" :> On(Role, {"GET"})
  @@ "request-comments/create" :> On(Role, {"POST"})
  @@ "admin/academic-requests/bulk-verify" :> On(Admin, {"POST"})
  @@ "admin/students/bulk-import" :> On(Admin, {"POST"})
  @@ "admin/lecturers/bulk-import" :> On(Admin, {"POST"})
  @@ "search" :> On(Role, {"GET"})

ReportRoutes ==
     "reports/lecturer-workload" :> On(Managers, {"GET"})
  @@ "reports/admin-dashboard" :> On(Managers, {"GET"})
  @@ "reports/sla-at-risk" :> On(Managers, {"GET"})
  @@ "reports/trends" :> On(Managers, {"GET"})
  @@ "reports/processing-time" :> On(Managers, {"GET"})
  @@ "admin/thesis-overview" :> On(Managers, {"GET"})
  @@ "admin/academic-calendar" :> On(Managers, {"POST"})
  @@ "admin/academic-calendar/{id}" :> On(Managers, {"PUT", "DELETE"})
  @@ "admin/faqs" :> On(Admin, {"POST"})
  @@ "admin/faqs/{id}" :> On(Admin, {"PUT", "DELETE"})
  @@ "admin/thesis-milestones" :> On(Admin, {"POST"})
  @@ "admin/thesis-milestones/{id}" :> On(Admin, {"PUT", "DELETE"})

ThesisRoutes ==
     "student/thesis-progress" :> On(Student, {"GET"})
  @@ "student/thesis-progress/{id}" :> On(Student, {"PUT"})
  @@ "thesis-milestones" :> On(Role, {"GET"})
  @@ "student/guidance-logs" :> On(Student, {"GET", "POST"})
  @@ "student/guidance-logs/{id}" :> On(Student, {"PUT", "DELETE"})
  @@ "student/guidance-logs/{id}/submit" :> On(Student, {"POST"})
  @@ "lecturer/guidance-logs" :> On(Lecturer, {"GET"})
  @@ "lecturer/guidance-logs/{id}/approve" :> On(Lecturer, {"POST"})
  @@ "lecturer/guidance-logs/{id}/request-revision" :> On(Lecturer, {"POST"})
  @@ "lecturer/guidance-logs/{id}/notes" :> On(Lecturer, {"PUT"})
  @@ "lecturer/guidance-logs/{id}/attachments" :> On(Lecturer, {"POST"})
  @@ "lecturer/guidance-logs/{id}/attachments/{file}" :> On(Lecturer, {"DELETE"})
  @@ "guidance-logs/upload" :> On(Lecturer \cup Student, {"POST"})
  @@ "lecturer/supervised-students/progress" :> On(Lecturer, {"GET"})
  @@ "lecturer/supervised-students/{id}/progress" :> On(Lecturer, {"GET"})
  @@ "lecturer/thesis-progress/{id}/complete" :> On(Lecturer, {"POST"})

ConsultationRoutes ==
     "lecturer/consultation-slots" :> On(Lecturer, {"GET", "POST"})
  @@ "lecturer/consultation-slots/{id}" :> On(Lecturer, {"PUT", "DELETE"})
  @@ "lecturer/consultation-bookings" :> On(Lecturer, {"GET"})
  @@ "lecturer/consultation-bookings/{id}/approve" :> On(Lecturer, {"POST"})
  @@ "lecturer/consultation-bookings/{id}/reject" :> On(Lecturer, {"POST"})
  @@ "lecturer/consultation-bookings/{id}/reschedule" :> On(Lecturer, {"POST"})
  @@ "student/consultation-slots" :> On(Student, {"GET"})
  @@ "student/consultation-bookings" :> On(Student, {"GET", "POST"})
  @@ "student/consultation-bookings/{id}" :> On(Student, {"DELETE"})
  @@ "student/consultation-bookings/{id}/accept-reschedule" :> On(Student, {"POST"})
  @@ "academic-calendar" :> On(Role, {"GET"})
  @@ "faq-categories" :> On(Role, {"GET"})
  @@ "faqs" :> On(Role, {"GET"})

Routes == AcademicRoutes @@ FileRoutes @@ SupervisorRoutes @@ AdminRoutes @@ ReportRoutes
       @@ ThesisRoutes @@ ConsultationRoutes

\* What the gateway makes of a request: a path nobody registered is answered
\* with 404, a method the handler does not serve with 405, a role that is not in
\* the list with 403; the rest reaches the service behind it.
Admits(call, r) ==
  /\ call.path \in DOMAIN Routes
  /\ call.method \in Routes[call.path].methods
  /\ r \in Routes[call.path].roles
=============================================================================
