------------------------------ MODULE WebParts ------------------------------
(***************************************************************************)
(* The vocabulary in which the pages of apps/web are written down, and the *)
(* components several of them embed.                                       *)
(*                                                                         *)
(* A load is an async function that only reads: a sequence of stages, each *)
(* a set of calls awaited together.  The state a stage sets is set once    *)
(* all its answers are there.                                              *)
(* An act is an async function behind a button or a form:                  *)
(*   at     "form" (always on screen), "dialog" (opened on a row, which it *)
(*          keeps), "bar" (opened by selecting rows: it leaves the page    *)
(*          usable, outlives the reloads of the list, and goes with a      *)
(*          change of the filter), "row" (a button in the list, gone while *)
(*          the list shows a skeleton), "detail" (in an expanded row)      *)
(*   busy   the flag that disables the button while the act runs; two acts *)
(*          with one flag exclude each other, "" is no flag at all         *)
(*   does   its calls, in stages as above                                  *)
(*   then   the loads it starts once they all succeeded                    *)
(*   awaits whether the flag stays up until those loads have ended         *)
(*   recover the loads it starts when a call failed instead                *)
(*   paints  the calls whose answer on the screen it changes by itself     *)
(*   follow a dialog shows its progress, and it is closing that dialog     *)
(*          that starts the loads of `then', whatever came of the calls    *)
(*   on     the statuses of the row for which the button is rendered       *)
(***************************************************************************)
EXTENDS GatewayRoutes, RowLifecycles
LOCAL INSTANCE TLC

AnyStatus == {"none"} \cup UNION {RowStatus[k] : k \in DOMAIN RowStatus}

Act(at, busy, does, then) ==
  [at |-> at, busy |-> busy, does |-> does, then |-> then, awaits |-> TRUE,
   recover |-> {}, paints |-> {}, follow |-> FALSE, on |-> AnyStatus]
Offered(statuses, act) == [act EXCEPT !.on = statuses]
Unawaited(act)         == [act EXCEPT !.awaits = FALSE]

NoActs == [a \in {} |-> 0]
NoLoad == <<>>

(***************************************************************************)
(* A page: the roles ProtectedPage lets in, the load behind its list, and  *)
(*   first    a load the list waits for the first time                     *)
(*   others   further loads, started with the page                         *)
(*   details  the loads an expanded row starts when it is mounted; with    *)
(*            `spread' every row is expanded from the start                *)
(*   once     calls a reload leaves out because their answer is kept       *)
(*   kind     what a row of the list is, if it has a status                *)
(*   hides    a reload puts a skeleton in the place of the list            *)
(*   refresh  a button reloads the list                                    *)
(*   filter   a change of the filter reloads the list for it               *)
(*   outer    the loads are started around ProtectedPage, before any role  *)
(*            is looked at                                                 *)
(*   links    the pages its content links to                               *)
(***************************************************************************)
Page(roles, list, acts) ==
  [roles |-> roles, list |-> list, first |-> NoLoad, others |-> {}, details |-> {},
   spread |-> FALSE, once |-> {}, kind |-> "none", hides |-> TRUE, refresh |-> FALSE,
   filter |-> FALSE, outer |-> FALSE, acts |-> acts, links |-> {}]

\* The calls of a load, and those a page shows the answers of.
Reading(load) == UNION {load[n] : n \in DOMAIN load}
CallsOf(p) ==
  Reading(p.list) \cup Reading(p.first)
    \cup UNION {Reading(l) : l \in p.others \cup p.details}

\* The common shapes of an act: a form or dialog with a flag, a button in a row
\* without one.
Form(busy, call, then)   == Act("form", busy, <<{call}>>, {then})
Dialog(busy, call, then) == Act("dialog", busy, <<{call}>>, {then})
Button(call, then)       == Act("row", "", <<{call}>>, {then})

\* FileSection: the documents of a request.  One flag covers both uploads.
Files == <<{"listAcademicRequestFiles"}>>
FileSection(uploads) ==
  [u \in uploads |-> Act("detail", "isUploading", <<{u}>>, {Files})]
    @@ [download |-> Act("detail", "downloadingId", <<{"downloadFile"}>>, {})]

\* CommentThread: the discussion below a request.
Comments == <<{"listRequestComments"}>>
CommentThread ==
  [comment |-> Act("detail", "isSending", <<{"createRequestComment"}>>, {Comments})]

\* RequestTimeline: the status history.
Timeline == <<{"getAcademicRequestHistory"}>>

\* BulkImportDialog: a dry run that only previews, then the import.
BulkImport(dryRun, commit, list) ==
  [dryRun |-> Act("form", "isImporting", <<{dryRun}>>, {}),
   commit |-> Unawaited(Form("isImporting", commit, list))]

\* CommandPalette, in the header of every page: what a search may answer with.
\* The handler links students, lecturers and requests to the pages of the
\* administration whoever searches, and users only for the two administrators.
SearchResults(r) ==
  {"/admin/academic-requests", "/admin/students", "/admin/lecturers"}
    \cup (IF r \in Admin THEN {"/admin/users"} ELSE {})
=============================================================================
