-------------------------- MODULE WebOfficePages --------------------------
(***************************************************************************)
(* The pages of apps/web/src/app/head, staff and reports, and the two that *)
(* every role has.                                                         *)
(***************************************************************************)
EXTENDS WebParts
LOCAL INSTANCE TLC

HeadDashboard ==
  [Page({"KAPRODI"}, NoLoad, NoActs) EXCEPT
     !.others = {<<{"listAllAcademicRequests"}>>, <<{"getAdminOperationalDashboard"}>>,
                 <<{"getSLAAtRiskRequests"}>>, <<{"getThesisOverview"}>>},
     !.links = {"/head/academic-requests", "/head/supervisor-requests",
                "/admin/thesis-overview", "/reports", "/head/analytics", "/head/delegations"}]

HeadRequestOffers == [decide |-> {"VERIFIED"}]

\* A bulk decision about the selected rows, confirmed in a dialog that is taken for
\* a part of the bar, is followed in another dialog.  Only closing that one reloads
\* the list, and Escape, the overlay and the cross close it before the call is over.
HeadRequests ==
  LET list == <<{"listAllAcademicRequests"}>>
      Decide(call) == Offered(HeadRequestOffers.decide, Dialog("isProcessing", call, list))
      Bulk(call) ==
        Offered(HeadRequestOffers.decide,
          [Act("bar", "isBulkProcessing", <<{call}>>, {list}) EXCEPT !.follow = TRUE])
  IN  [Page(Heads, list,
            [approve     |-> Decide("approveAcademicRequest"),
             reject      |-> Decide("rejectAcademicRequest"),
             bulkApprove |-> Bulk("bulkApproveAcademicRequests"),
             bulkReject  |-> Bulk("bulkRejectAcademicRequests")])
       EXCEPT !.kind = "academic", !.refresh = TRUE, !.filter = TRUE]

HeadAnalytics ==
  [Page(Heads, NoLoad, NoActs) EXCEPT
     !.others = {<<{"getAcademicReport", "getRequestTrends", "getProcessingTimeReport",
                    "getAdminOperationalDashboard"}>>}]

HeadDelegations ==
  LET list == <<{"listDelegations"}>>
  IN  Page(Heads, list,
           [create |-> Form("isCreating", "createDelegation", list),
            revoke |-> Dialog("isRevoking", "revokeDelegation", list)])

HeadLecturerQuotas ==
  [Page(Heads, <<{"listAllLecturers", "getLecturerWorkload"}>>, NoActs) EXCEPT !.refresh = TRUE]

\* Faulty: a request its lecturer rejected has no button.
AssignOffersOnce == [assign |-> {"VERIFIED"}, reassign |-> {}]

AssignOffers == [assign |-> {"VERIFIED"}, reassign |-> {"REJECTED"}]

HeadSupervisorRequests ==
  LET list == <<{"listAllSupervisorRequests", "listLecturers"}>>
  IN  [Page(Heads, list,
            [assign   |-> Offered(AssignOffers.assign,
                            Dialog("isAssigning", "assignSupervisor", list)),
             reassign |-> Offered(AssignOffers.reassign,
                            Dialog("isAssigning", "reassignSupervisor", list))])
       EXCEPT !.kind = "supervisor", !.refresh = TRUE, !.filter = TRUE]

StaffDashboard ==
  [Page(Staff, NoLoad, NoActs) EXCEPT
     !.others = {<<{"listAllAcademicRequests"}>>},
     !.links = {"/staff/academic-requests", "/reports"}]

StaffOffers == [complete |-> {"APPROVED"}, upload |-> {"APPROVED"}]

\* The part of both pages that closes an approved request: its final document
\* and the button that completes it.
Completion(list) ==
  [complete |-> Offered(StaffOffers.complete,
                  Dialog("isCompleting", "completeAcademicRequest", list))]
    @@ [a \in DOMAIN FileSection({"uploadFinalDocument"}) |->
          IF a = "download" THEN FileSection({})[a]
          ELSE Offered(StaffOffers.upload, FileSection({"uploadFinalDocument"})[a])]

StaffRequests ==
  LET list == <<{"listAllAcademicRequests"}>>
  IN  [Page(Staff, list, Completion(list))
       EXCEPT !.kind = "academic", !.refresh = TRUE, !.filter = TRUE, !.details = {Files}]

\* Lists the approved requests only, each with its documents.
StaffFinalDocuments ==
  LET list == <<{"listAllAcademicRequests"}>>
  IN  [Page(Staff, list, Completion(list))
       EXCEPT !.kind = "academic", !.refresh = TRUE, !.details = {Files}, !.spread = TRUE]

\* The tabs for trends and processing times load when they are opened.
Reports ==
  [Page(Officials, NoLoad, NoActs) EXCEPT
     !.others = {<<{"getAcademicReport", "getSupervisorReport"}>>},
     !.details = {<<{"getRequestTrends"}>>, <<{"getProcessingTimeReport"}>>}]

\* Faulty: the page lets in a role its route refuses.
LecturerWorkloadForAll ==
  [Page(Officials, <<{"getLecturerWorkload"}>>, NoActs) EXCEPT !.refresh = TRUE]

LecturerWorkload ==
  [Page(Managers, <<{"getLecturerWorkload"}>>, NoActs) EXCEPT !.refresh = TRUE]

\* Marking shows at once and is taken back when the call fails; only marking all
\* then asks for the list again.
Notifications ==
  LET list == <<{"listMyNotifications"}>>
      Paint(act) == [act EXCEPT !.paints = {"listMyNotifications"}]
  IN  Page(Role, list,
           [mark    |-> Paint(Act("row", "", <<{"markNotificationAsRead"}>>, {})),
            markAll |-> [Paint(Act("row", "isMarkingAll",
                                   <<{"markAllNotificationsAsRead"}>>, {}))
                         EXCEPT !.recover = {list}]])

Profile ==
  Page(Role, NoLoad, [changePassword |-> Act("form", "isSubmitting", <<{"changePassword"}>>, {})])

OfficePages ==
     "/head" :> HeadDashboard
  @@ "/head/academic-requests" :> HeadRequests
  @@ "/head/analytics" :> HeadAnalytics
  @@ "/head/delegations" :> HeadDelegations
  @@ "/head/lecturer-quotas" :> HeadLecturerQuotas
  @@ "/head/supervisor-requests" :> HeadSupervisorRequests
  @@ "/staff" :> StaffDashboard
  @@ "/staff/academic-requests" :> StaffRequests
  @@ "/staff/final-documents" :> StaffFinalDocuments
  @@ "/reports" :> Reports
  @@ "/reports/lecturer-workload" :> LecturerWorkload
  @@ "/notifications" :> Notifications
  @@ "/profile" :> Profile
=============================================================================
