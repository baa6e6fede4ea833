------------------------------ MODULE WebPages ------------------------------
(***************************************************************************)
(* The web application as a whole: its pages, the menu the shell shows to  *)
(* each role, and the dashboard a role is sent to after signing in.        *)
(***************************************************************************)
EXTENDS WebStudentPages, WebLecturerPages, WebAdminPages, WebOfficePages, WebApi
LOCAL INSTANCE TLC

Pages == StudentPages @@ LecturerPages @@ AdminPages @@ OfficePages

StudentMenu ==
  {"/student", "/student/academic-requests", "/student/supervisor-requests",
   "/student/guidance-logs", "/student/thesis-progress", "/student/consultation",
   "/student/calendar", "/student/lecturers", "/student/faq", "/notifications"}
\* Faulty: an entry for a page of the super administrator.
AdminMenuUsers ==
  {"/admin", "/admin/academic-requests", "/admin/supervisor-requests", "/admin/users",
   "/admin/students", "/admin/lecturers", "/reports", "/notifications"}

AdminMenu ==
  {"/admin", "/admin/academic-requests", "/admin/supervisor-requests", "/admin/students",
   "/admin/lecturers", "/admin/thesis-overview", "/admin/announcements",
   "/admin/note-templates", "/reports", "/notifications"}
HeadMenu ==
  {"/head", "/head/academic-requests", "/head/supervisor-requests", "/head/lecturer-quotas",
   "/head/analytics", "/admin/thesis-overview", "/reports", "/head/delegations",
   "/notifications"}
LecturerMenu ==
  {"/lecturer", "/lecturer/supervisor-requests", "/lecturer/supervised-students",
   "/lecturer/guidance-logs", "/lecturer/consultation", "/lecturer/consultation/bookings",
   "/lecturer/final-documents", "/lecturer/announcements", "/notifications"}
StaffMenu ==
  {"/staff", "/staff/academic-requests", "/staff/final-documents", "/reports",
   "/notifications"}
SuperMenu ==
  {"/admin", "/admin/academic-requests", "/admin/supervisor-requests", "/admin/users",
   "/admin/students", "/admin/lecturers", "/admin/departments", "/admin/audit-logs",
   "/admin/academic-years", "/admin/calendar", "/admin/faqs", "/admin/thesis-milestones",
   "/admin/announcements", "/reports", "/notifications"}

Menu == [MAHASISWA |-> StudentMenu, ADMIN_PRODI |-> AdminMenu, KAPRODI |-> HeadMenu,
         DOSEN |-> LecturerMenu, TATA_USAHA |-> StaffMenu, SUPER_ADMIN |-> SuperMenu]

\* The links around the content of every page.
ShellLinks(r) == Menu[r] \cup {"/profile", "/notifications"}

DashboardPath == [MAHASISWA |-> "/student", ADMIN_PRODI |-> "/admin", KAPRODI |-> "/head",
                  DOSEN |-> "/lecturer", TATA_USAHA |-> "/staff", SUPER_ADMIN |-> "/admin"]

(***************************************************************************)
(* What the table of the pages promises, taken together.                   *)
(***************************************************************************)

\* The calls a page of a role makes although the gateway refuses them: the profile
\* and the dashboard of a lecturer are asked of the wrong origin, and two tabs of
\* the reports can be opened by the administrative staff.
KnownRefusals(r) ==
  {"fetchProfile", "saveProfile", "fetchDashboard"}
    \cup (IF r = "TATA_USAHA" THEN {"getRequestTrends", "getProcessingTimeReport"} ELSE {})

\* The pages linked from the menu of a role, or from a page of its menu.
Within(r) == ShellLinks(r) \cup UNION {Pages[p].links : p \in ShellLinks(r)}

\* Act a of page p takes a row further, for role r.
Advances(r, p, a, kind, status) ==
  /\ r \in Pages[p].roles /\ Pages[p].kind = kind
  /\ status \in Pages[p].acts[a].on
  /\ \E c \in Reading(Pages[p].acts[a].does) : Admits(Api[c], r) /\ After(c, status) # status
WayOn(kind, status) ==
  \E r \in Role : \E p \in Within(r) : \E a \in DOMAIN Pages[p].acts :
    Advances(r, p, a, kind, status)

\* The code misses a way on for a supervisor request that was sent back: the page
\* of the student can neither correct nor cancel it.  An approved guidance log is
\* at its end, although the handlers, which look at no status, would take it back.
Stranded == {<<"supervisor", "REVISION_REQUIRED">>, <<"guidance", "APPROVED">>}
Cared ==
  UNION {{<<kind, s>> : s \in {t \in RowStatus[kind] : Final(kind, t) \/ WayOn(kind, t)}} :
           kind \in DOMAIN RowStatus} \cup Stranded
=============================================================================
