----------------------------- MODULE WebPortal -----------------------------
(***************************************************************************)
(* One browser tab of a signed-in user on the pages of apps/web, against   *)
(* the gateway and the services.  The async functions of the page on the   *)
(* screen run side by side: each of their calls is answered when the       *)
(* server gets to it, fresh at that moment, and lands on the page later.   *)
(* A page is followed by one row of its list, whose status other people    *)
(* may move at any time.                                                   *)
(*                                                                         *)
(* Bounds: MaxEvents acts, reloads, expansions and moves of the row by     *)
(* others on one visit of a page; a page is left only when nothing it      *)
(* started is under way.                                                   *)
(***************************************************************************)
EXTENDS WebPages, Naturals, FiniteSets, SequencesExt

CONSTANT MaxEvents
ASSUME BoundsAssumption == MaxEvents \in Nat

VARIABLES
  role,         \* of the session, as stored at sign-in
  page,         \* the page on the screen: its entry in Pages
  row,          \* the status of the followed row in the database, or "none"
  shownRow,     \* its status on the screen, or "none" before the list is there
  shown,        \* what the screen shows of the answer to each call of the page
  filter, shownFilter,  \* the filter chosen, and that of the list shown
  hidden,       \* the list is replaced by a skeleton
  expanded,     \* the details of the row are on the screen
  dialog,       \* the open dialog or bar: its act, the status of the row it keeps,
                \* and whether it shows the progress of the act
  running,      \* the async functions under way, in the order they started
  disturbed,    \* something happened after which the page need not be right
  events        \* how much of the bound is used up

vars == <<role, page, row, shownRow, shown, filter, shownFilter, hidden, expanded,
          dialog, running, disturbed, events>>

Quiet    == running = <<>>
NoDialog == [act |-> "", saw |-> "none", progress |-> FALSE]

ShowsRow(call) == page.kind # "none" /\ RowTable[page.kind] \in Api[call].reads
Touches(call, c) == Api[call].writes \cap Api[c].reads # {}

(***************************************************************************)
(* Instances of async functions.                                           *)
(***************************************************************************)
NoAnswers == [c \in {} |-> "fresh"]
Load(load, busy, under) ==
  [act |-> "", load |-> load, left |-> load, got |-> NoAnswers, snap |-> "none",
   filter |-> under, busy |-> busy, saw |-> "none", wrote |-> FALSE, stray |-> FALSE]
ActOn(a, saw) ==
  [Load(page.acts[a].does, page.acts[a].busy, filter) EXCEPT !.act = a, !.saw = saw]

IsList(i) == running[i].act = "" /\ running[i].load = page.list
Held(busy) == busy # "" /\ \E i \in DOMAIN running : running[i].busy = busy

\* A set of loads started together, in some order.
Started(loads, busy) ==
  LET order == SetToSeq(loads) IN [n \in DOMAIN order |-> Load(order[n], busy, 0)]

\* A load started now; what is kept from an earlier answer is not asked for.
Again(load, busy, under) ==
  LET kept == {c \in page.once : shown[c] # "nothing"}
  IN  [Load(load, busy, under) EXCEPT !.left = [n \in DOMAIN load |-> load[n] \ kept]]

\* The n-th of a set of positions.
Nth(positions, n) ==
  CHOOSE i \in positions : Cardinality({j \in positions : j <= i}) = n

\* Components that leave the screen: their loads are forgotten; an upload under
\* way goes on, but nobody waits for it.
Unmount(seq) ==
  LET kept == {i \in DOMAIN seq : seq[i].act # "" \/ seq[i].load \notin page.details}
  IN  [n \in 1..Cardinality(kept) |->
        LET x == seq[Nth(kept, n)]
        IN  IF x.act # "" /\ page.acts[x.act].at = "detail"
            THEN [x EXCEPT !.stray = TRUE, !.busy = ""] ELSE x]
Forget(view) ==
  [c \in DOMAIN view |-> IF \E l \in page.details : c \in Reading(l) THEN "nothing" ELSE view[c]]
MountDetails == Started(page.details, "")

\* Starting the load of the list: behind a skeleton, which takes the expanded
\* details off the screen, or with the old list still there.
StartList(seq, view, busy, under, hide) ==
  LET all == Append(seq, Again(page.list, busy, under))
  IN  /\ hidden' = (hidden \/ hide)
      /\ running' = IF hide THEN Unmount(all) ELSE all
      /\ shown' = IF hide THEN Forget(view) ELSE view

(***************************************************************************)
(* What the pages of the application have in common, checked on the table  *)
(* of the pages itself: the theorems about the portal hold for every page  *)
(* that is built this way.                                                 *)
(***************************************************************************)
\* Two displays lag behind by design of the pages: the usage counts of the note
\* templates, and the status history of an expanded request of a student, which a
\* reload of the list does not ask for again.
Lagging == {<<Pages["/admin/academic-requests"], "listNoteTemplates">>,
            <<Pages["/student/academic-requests"], "getAcademicRequestHistory">>}

LoadsOf(p) == ({p.list, p.first} \ {NoLoad}) \cup p.others \cup p.details

\* The calls of a page that one of its acts, or any of them, puts out of date.
TouchedBy(p, a) == {d \in CallsOf(p) : \E c \in Reading(p.acts[a].does) : Touches(c, d)}
Touched(p) == UNION {TouchedBy(p, a) : a \in DOMAIN p.acts}

\* Act a asks for d again once it has succeeded, by a load of its own or by a
\* reload of the list that takes the details off the screen.
HealedBy(p, a, d) ==
  \/ \E l \in p.acts[a].then : d \in Reading(l)
  \/ p.list \in p.acts[a].then /\ p.hides /\ \E l \in p.details : d \in Reading(l)

Painted(p) == \E a \in DOMAIN p.acts : p.acts[a].paints # {}

\* The list is a load of its own, and only the list may have several stages.
LoadsFit(p) ==
  /\ IsFiniteSet(p.others) /\ IsFiniteSet(p.details) /\ NoLoad \notin p.others \cup p.details
  /\ \A l \in LoadsOf(p) : l \in Seq(SUBSET DOMAIN Api) /\ l # NoLoad
  /\ \A l \in LoadsOf(p) : Len(l) = 1 \/ (l = p.list /\ ~p.filter)
  /\ p.list \notin p.others \cup p.details /\ (p.first = p.list => p.list = NoLoad)
  /\ p.list = NoLoad => p.first = NoLoad /\ ~p.refresh /\ ~p.filter
  /\ p.spread \in BOOLEAN

\* What the list waits for the first time is asked for by no other load, and no act
\* puts it out of date.
FirstFits(p) ==
  p.first # NoLoad =>
    /\ Reading(p.first) # {} /\ ~Painted(p) /\ Reading(p.first) \cap Touched(p) = {}
    /\ \A l \in LoadsOf(p) \ {p.first} : Reading(l) \cap Reading(p.first) = {}

\* A call an act puts out of date belongs to one load, and to its last stage.
TouchedFits(p) ==
  /\ Touched(p) \cap p.once = {}
  /\ \A l, m \in LoadsOf(p) : \A d \in Touched(p) : d \in Reading(l) \cap Reading(m) => l = m
  /\ \A l \in LoadsOf(p) : \A d \in Reading(l) \cap Touched(p) :
        d \in l[Len(l)] /\ \A n \in 1..(Len(l) - 1) : d \notin l[n]

\* An act starts loads of its page, and those it needs after what it wrote.
ActFits(p, a) ==
  LET act == p.acts[a]
  IN  /\ a \in STRING \ {""} /\ act.busy \in STRING
      /\ act.does \in Seq(SUBSET DOMAIN Api) /\ act.does # <<>>
      /\ \A loads \in {act.then, act.recover} :
            /\ IsFiniteSet(loads) /\ loads \subseteq LoadsOf(p)
            /\ p.list \in loads => loads = {p.list}
      /\ act.follow \in BOOLEAN /\ (act.follow => act.then = {p.list})
      /\ act.recover # {} => act.paints # {}
      /\ \A d \in TouchedBy(p, a) :
            <<p, d>> \in Lagging \/ d \in act.paints \/ HealedBy(p, a, d)

\* The service accepts what an act asks of a row that shows its button.
RowsFit(p) ==
  /\ Rows(p.kind) \subseteq AnyStatus
  /\ \A a \in DOMAIN p.acts : \A c \in Reading(p.acts[a].does) : \A s \in Rows(p.kind) :
        /\ After(c, s) \in Rows(p.kind)
        /\ p.acts[a].at = "form" \/ s \in p.acts[a].on => Permits(c, s) \/ c \in BulkCalls

\* A page whose acts change the screen themselves is a bare list of rows.
PaintsFit(p) ==
  Painted(p) =>
    /\ p.others = {} /\ p.details = {} /\ ~p.refresh /\ ~p.filter
    /\ \A a \in DOMAIN p.acts :
          p.acts[a].at = "row" /\ p.acts[a].paints # {} /\ p.acts[a].then = {}

PageFits(p) ==
  /\ LoadsFit(p) /\ FirstFits(p) /\ TouchedFits(p) /\ RowsFit(p) /\ PaintsFit(p)
  /\ \A a \in DOMAIN p.acts : ActFits(p, a)

ASSUME PagesFit == \A p \in DOMAIN Pages : PageFits(Pages[p])

(***************************************************************************)
(* Opening a page.                                                         *)
(***************************************************************************)

\* Faulty: a page without a list loads it all the same.
OpeningAlways(p) == p.others \cup {p.list}

Opening(p) ==
  p.others \cup ((IF p.first = NoLoad THEN {p.list} ELSE {p.first}) \ {NoLoad})

Blank(p, r) ==
  [page |-> Pages[p], row |-> r, shown |-> [c \in CallsOf(Pages[p]) |-> "nothing"],
   hidden |-> Pages[p].list # NoLoad,
   running |-> IF Pages[p].outer \/ role \in Pages[p].roles THEN Started(Opening(Pages[p]), "")
               ELSE <<>>]

\* The application starts on the dashboard after signing in, or on whatever other
\* page the address bar names.
Init ==
  /\ role \in Role
  /\ \E p \in DOMAIN Pages : \E r \in Rows(Pages[p].kind) :
       LET b == Blank(p, r)
       IN  /\ page = b.page /\ row = b.row /\ shown = b.shown
           /\ hidden = b.hidden /\ running = b.running
           /\ expanded = Pages[p].spread
  /\ shownRow = "none" /\ filter = 0 /\ shownFilter = 0
  /\ dialog = NoDialog /\ disturbed = FALSE /\ events = 0

Arrive(p) ==
  /\ Quiet /\ dialog = NoDialog /\ p \in DOMAIN Pages
  /\ \E r \in Rows(Pages[p].kind) :
       LET b == Blank(p, r)
       IN  /\ page' = b.page /\ row' = b.row /\ shown' = b.shown
           /\ hidden' = b.hidden /\ running' = b.running
  /\ expanded' = Pages[p].spread
  /\ shownRow' = "none" /\ filter' = 0 /\ shownFilter' = 0
  /\ dialog' = NoDialog /\ disturbed' = FALSE /\ events' = 0
  /\ UNCHANGED role

\* A page that is refused offers nothing but to sign out.
FollowLink == role \in page.roles /\ \E p \in ShellLinks(role) \cup page.links : Arrive(p)
OpenResult == role \in page.roles /\ \E p \in SearchResults(role) : Arrive(p)

(***************************************************************************)
(* What the user does on a page.                                           *)
(***************************************************************************)
\* Rows are selected: nothing keeps the user from the rest of the page.
Selecting ==
  dialog # NoDialog /\ page.acts[dialog.act].at = "bar" /\ ~dialog.progress

Click ==
  /\ role \in page.roles /\ events < MaxEvents /\ (dialog = NoDialog \/ Selecting)
  /\ events' = events + 1
  /\ UNCHANGED <<role, page, row, shownRow, shownFilter, disturbed>>

Listed == ~hidden /\ \A c \in Reading(page.list) : shown[c] # "nothing"

\* Faulty: the button is shown whatever the status of the row.
OpenDialogAlways(a) ==
  /\ page.acts[a].at \in {"dialog", "bar"} /\ role \in page.roles
  /\ Listed /\ dialog = NoDialog /\ events < MaxEvents
  /\ dialog' = [NoDialog EXCEPT !.act = a, !.saw = shownRow]
  /\ UNCHANGED <<role, page, row, shownRow, shown, filter, shownFilter, hidden, expanded,
                 running, disturbed, events>>

OpenDialog(a) ==
  /\ page.acts[a].at \in {"dialog", "bar"} /\ role \in page.roles
  /\ Listed /\ dialog = NoDialog /\ events < MaxEvents
  /\ shownRow \in page.acts[a].on
  /\ dialog' = [NoDialog EXCEPT !.act = a, !.saw = shownRow]
  /\ UNCHANGED <<role, page, row, shownRow, shown, filter, shownFilter, hidden, expanded,
                 running, disturbed, events>>

CloseDialog ==
  /\ dialog # NoDialog /\ ~dialog.progress
  /\ dialog' = NoDialog
  /\ UNCHANGED <<role, page, row, shownRow, shown, filter, shownFilter, hidden, expanded,
                 running, disturbed, events>>

\* Confirming a dialog acts on the row it was opened on.
Confirm ==
  /\ dialog # NoDialog /\ ~dialog.progress /\ events < MaxEvents
  /\ ~Held(page.acts[dialog.act].busy)
  /\ running' = Append(running, ActOn(dialog.act, dialog.saw))
  /\ dialog' = [dialog EXCEPT !.progress = page.acts[dialog.act].follow]
  /\ events' = events + 1
  /\ UNCHANGED <<role, page, row, shownRow, shown, filter, shownFilter, hidden, expanded,
                 disturbed>>

\* Faulty: closing the dialog leaves the list as it is.
CloseProgressOnly ==
  /\ dialog.progress
  /\ dialog' = NoDialog
  /\ UNCHANGED <<role, page, row, shownRow, shown, filter, shownFilter, hidden, expanded,
                 running, disturbed, events>>

\* The dialog that shows the progress of an act is closed, at its end or before.
CloseProgress ==
  /\ dialog.progress
  /\ dialog' = NoDialog
  /\ StartList(running, shown, "", filter, page.hides)
  /\ UNCHANGED <<role, page, row, shownRow, filter, shownFilter, expanded, disturbed, events>>

\* What the list waits for the first time is there.
Ready == \A c \in Reading(page.first) : shown[c] # "nothing"

OnScreen(a) ==
  CASE page.acts[a].at = "form"   -> Ready
    [] page.acts[a].at = "row"    -> Listed
    [] page.acts[a].at = "detail" -> Listed /\ expanded
    [] OTHER                      -> FALSE

Paint(a) == shown' = [c \in DOMAIN shown |->
                        IF c \in page.acts[a].paints THEN "fresh" ELSE shown[c]]

Press(a) ==
  /\ Click /\ OnScreen(a) /\ ~Held(page.acts[a].busy)
  /\ page.acts[a].at # "form" => shownRow \in page.acts[a].on
  /\ running' = Append(running, ActOn(a, shownRow))
  /\ Paint(a)
  /\ UNCHANGED <<filter, hidden, expanded, dialog>>

Refresh ==
  /\ Click /\ page.refresh
  /\ StartList(running, shown, "", filter, page.hides)
  /\ UNCHANGED <<filter, expanded, dialog>>

ChangeFilter ==
  /\ Click /\ page.filter
  /\ Ready
  /\ filter' = 1 - filter
  /\ StartList(running, shown, "", 1 - filter, TRUE)
  /\ dialog' = NoDialog
  /\ UNCHANGED expanded

\* Details are mounted with the row that shows them.
Toggle ==
  /\ Click /\ page.details # {} /\ ~page.spread
  /\ page.list # NoLoad => Listed
  /\ expanded' = ~expanded
  /\ IF expanded THEN running' = Unmount(running) /\ shown' = Forget(shown)
     ELSE running' = running \o MountDetails /\ UNCHANGED shown
  /\ UNCHANGED <<filter, hidden, dialog>>

(***************************************************************************)
(* What the servers do.                                                    *)
(***************************************************************************)
Serving(i, c) == c \in Head(running[i].left) \ DOMAIN running[i].got
Unmoved == UNCHANGED <<role, page, filter, expanded, events>>

WithAnswer(x, c) ==
  [x EXCEPT !.got = [d \in DOMAIN @ \cup {c} |-> IF d = c THEN "fresh" ELSE @[d]],
            !.snap = IF ShowsRow(c) THEN row ELSE @]

ServeRead(i, c) ==
  /\ Serving(i, c) /\ running[i].act = "" /\ Admits(Api[c], role)
  /\ running' = [running EXCEPT ![i] = WithAnswer(@, c)]
  /\ Unmoved /\ UNCHANGED <<row, shownRow, shown, shownFilter, hidden, dialog, disturbed>>

\* The call of act i takes effect.  Whatever showed its tables, on the screen or
\* in an answer under way, is out of date now, except what the act painted.
Served(i, c) ==
  /\ Serving(i, c) /\ running[i].act # ""
  /\ Admits(Api[c], role) /\ (Permits(c, row) \/ c \in BulkCalls)
Outdated(c) ==
  [j \in DOMAIN running |->
    [running[j] EXCEPT !.got = [d \in DOMAIN @ |-> IF Touches(c, d) THEN "stale" ELSE @[d]]]]
Overwritten(i, c) ==
  [d \in DOMAIN shown |->
    IF Touches(c, d) /\ shown[d] = "fresh" /\ d \notin page.acts[running[i].act].paints
    THEN "stale" ELSE shown[d]]

\* Act i is over and starts a reload, for the filter chosen when it began; the
\* reload holds its flag if the act waits for it.
End(seq, view, i, loads) ==
  LET act  == page.acts[running[i].act]
      busy == IF act.awaits THEN running[i].busy ELSE ""
      rest == RemoveAt(seq, i)
  IN  IF page.list \in loads /\ page.list # NoLoad
      THEN StartList(rest, view, busy, running[i].filter, page.hides)
      ELSE /\ running' = rest \o
                IF running[i].stray THEN <<>> ELSE Started(loads, busy)
           /\ shown' = view
           /\ UNCHANGED hidden

\* A call of an act that is not the last one.
WithCallDone(x) == [x EXCEPT !.left = Tail(@), !.wrote = TRUE]

ServeStep(i, c) ==
  /\ Served(i, c) /\ Len(running[i].left) > 1
  /\ row' = After(c, row)
  /\ running' = [Outdated(c) EXCEPT ![i] = WithCallDone(@)]
  /\ shown' = Overwritten(i, c)
  /\ Unmoved
  /\ UNCHANGED <<shownRow, shownFilter, hidden, dialog, disturbed>>

\* An act that is followed leaves its reload to the dialog; once that is closed
\* there is nothing left to start it.
Reloads(i) ==
  IF page.acts[running[i].act].follow THEN {} ELSE page.acts[running[i].act].then
Unwatched(i) ==
  page.acts[running[i].act].follow /\ ~(dialog.progress /\ dialog.act = running[i].act)

\* The last call of an act succeeds: its dialog closes and its reload starts.
Succeed(i, c) ==
  /\ Served(i, c) /\ Len(running[i].left) = 1
  /\ row' = After(c, row)
  /\ End(Outdated(c), Overwritten(i, c), i, Reloads(i))
  /\ dialog' = IF dialog.act = running[i].act /\ ~page.acts[running[i].act].follow
               THEN NoDialog ELSE dialog
  /\ disturbed' = (disturbed \/ running[i].stray \/ Unwatched(i)
                     \/ (page.list \in Reloads(i) /\ running[i].filter # filter))
  /\ Unmoved /\ UNCHANGED <<shownRow, shownFilter>>

\* A call is refused by the gateway or by the service, or does not get through;
\* the function ends in its catch.
FailAct(i) ==
  /\ running[i].act # ""
  /\ End(running, shown, i, page.acts[running[i].act].recover)
  /\ disturbed' = (disturbed \/ running[i].wrote \/ page.acts[running[i].act].paints # {})
  /\ Unmoved /\ UNCHANGED <<row, shownRow, shownFilter, dialog>>

\* The call took effect and its answer is lost.
LoseAnswer(i, c) ==
  /\ Served(i, c) /\ Api[c].method # "GET"
  /\ row' = After(c, row)
  /\ End(Outdated(c), Overwritten(i, c), i, page.acts[running[i].act].recover)
  /\ disturbed' = TRUE
  /\ Unmoved /\ UNCHANGED <<shownRow, shownFilter, dialog>>

\* Faulty: the end of the load leaves the skeleton in place.
ShowListNever(seq) == hidden' = hidden /\ running' = seq

\* The list comes back into view, and the details of an expanded row with it.
ShowList(seq) ==
  /\ hidden' = FALSE
  /\ running' = IF hidden /\ expanded THEN seq \o MountDetails ELSE seq

FailLoad(i) ==
  /\ running[i].act = ""
  /\ IF IsList(i) THEN ShowList(RemoveAt(running, i))
     ELSE running' = RemoveAt(running, i) /\ UNCHANGED hidden
  /\ disturbed' = TRUE
  /\ Unmoved /\ UNCHANGED <<row, shownRow, shown, shownFilter, dialog>>

\* All answers of a stage are there: the page shows them.  Nothing stops an older
\* answer from landing on top of a newer one.
Older(i) == {j \in 1..(i - 1) : running[j].act = "" /\ running[j].load = running[i].load}
Landed(i) ==
  [j \in DOMAIN running |->
    IF j \in Older(i) THEN [running[j] EXCEPT !.stray = TRUE]
    ELSE IF j = i THEN [running[j] EXCEPT !.left = Tail(@), !.got = NoAnswers]
    ELSE running[j]]

Land(i) ==
  LET inst == running[i]
      rest == RemoveAt(Landed(i), i)
  IN  /\ inst.act = "" /\ Head(inst.left) \subseteq DOMAIN inst.got
      /\ shown' = [c \in DOMAIN shown |-> IF c \in DOMAIN inst.got THEN inst.got[c] ELSE shown[c]]
      /\ shownRow' = IF \E c \in DOMAIN inst.got : ShowsRow(c) /\ IsList(i) THEN inst.snap
                     ELSE shownRow
      /\ shownFilter' = IF IsList(i) THEN inst.filter ELSE shownFilter
      /\ disturbed' = (disturbed \/ inst.stray)
      /\ IF Len(inst.left) > 1 THEN running' = Landed(i) /\ UNCHANGED hidden
         ELSE IF IsList(i) THEN ShowList(rest)
         ELSE IF page.first # NoLoad /\ inst.load = page.first
         THEN running' = Append(rest, Load(page.list, "", filter)) /\ UNCHANGED hidden
         ELSE running' = rest /\ UNCHANGED hidden
      /\ Unmoved /\ UNCHANGED <<row, dialog>>

\* The first answer leaves nothing to ask for: there is no supervision yet, or no
\* category.
EndEarly(i) ==
  /\ running[i].act = "" /\ Len(running[i].left) > 1
  /\ Head(running[i].left) \subseteq DOMAIN running[i].got
  /\ \A c \in Reading(Tail(running[i].left)) :
       shown[c] = "nothing" /\ \A j \in DOMAIN running : c \notin Head(running[j].left)
  /\ ShowList(RemoveAt(running, i))
  /\ Unmoved /\ UNCHANGED <<row, shownRow, shown, shownFilter, dialog, disturbed>>

\* The first answer names nothing to ask the list for: there is no department.
LandEmpty(i) ==
  /\ running[i].act = "" /\ page.first # NoLoad /\ running[i].load = page.first
  /\ Head(running[i].left) \subseteq DOMAIN running[i].got
  /\ \A c \in Reading(page.first) : shown[c] = "nothing"
  /\ running' = RemoveAt(running, i)
  /\ Unmoved
  /\ UNCHANGED <<row, shownRow, shown, shownFilter, hidden, dialog, disturbed>>

\* Somebody else moves the row.  Before the list has landed a move would only come
\* down to another row to start with.
OthersMove(c) ==
  /\ events < MaxEvents /\ row # "none" /\ Moves[c].kind = page.kind /\ shownRow = row
  /\ Permits(c, row) /\ After(c, row) # row
  /\ row' = After(c, row)
  /\ events' = events + 1
  /\ UNCHANGED <<role, page, shownRow, shown, filter, shownFilter, hidden, expanded, dialog,
                 running, disturbed>>

Next ==
  \/ FollowLink \/ OpenResult
  \/ \E a \in DOMAIN page.acts : OpenDialog(a) \/ Press(a)
  \/ CloseDialog \/ Confirm \/ CloseProgress \/ Refresh \/ ChangeFilter \/ Toggle
  \/ \E i \in DOMAIN running :
       \/ FailAct(i) \/ FailLoad(i) \/ Land(i) \/ LandEmpty(i) \/ EndEarly(i)
       \/ \E c \in Head(running[i].left) :
            ServeRead(i, c) \/ ServeStep(i, c) \/ Succeed(i, c) \/ LoseAnswer(i, c)
  \/ \E c \in DOMAIN Moves : OthersMove(c)

Spec == Init /\ [][Next]_vars

(***************************************************************************)
(* Properties.                                                             *)
(***************************************************************************)

\* Every variable keeps its type; in particular no async function is left without
\* a call to wait for, and an answer is kept only for a call of the present stage.
TypeOK ==
  /\ role \in Role /\ \E p \in DOMAIN Pages : page = Pages[p]
  /\ row \in Rows(page.kind) /\ shownRow \in Rows(page.kind) \cup {"none"}
  /\ shown \in [CallsOf(page) -> {"nothing", "fresh", "stale"}]
  /\ filter \in 0..1 /\ shownFilter \in 0..1
  /\ {hidden, expanded, disturbed} \subseteq BOOLEAN
  /\ dialog = NoDialog \/ dialog.act \in DOMAIN page.acts
  /\ \A i \in DOMAIN running :
       /\ running[i].act \in {""} \cup DOMAIN page.acts
       /\ running[i].left # <<>>
       /\ DOMAIN running[i].got \subseteq Head(running[i].left)
  /\ events \in 0..MaxEvents

\* What the portal offers a role the gateway refuses to it nowhere: every call that
\* a page lets a user of its roles start is served by a route that lists the role.
\* The exceptions are those of KnownRefusals.
CallsAdmitted ==
  role \in page.roles =>
    \A i \in DOMAIN running : \A c \in Head(running[i].left) :
      Admits(Api[c], role) \/ c \in KnownRefusals(role)

\* A link the application shows to a role never leads to a page that turns the
\* role away, whether it is an entry of the menu or part of another page.
LinksLead == [][FollowLink => role \in page'.roles]_vars

\* A page comes to rest showing what the user's own acts left in the database,
\* under the filter the user chose, unless a call failed, an answer was lost, an
\* older answer came in last, or the user closed the progress of a bulk decision
\* before it took effect: nothing reloads the list after that.
PageSettles ==
  Quiet /\ ~disturbed /\ ~dialog.progress =>
    /\ shownFilter = filter
    /\ \A c \in DOMAIN shown : shown[c] = "stale" => <<page, c>> \in Lagging

\* A skeleton on the screen is always about to go: the list behind it is under
\* way, whatever failed before.  The milestones of a department are the exception:
\* as long as no department is known, because the question failed or the answer
\* named none, nothing ever asks for the list and its skeleton stays.
SkeletonEnds ==
  hidden /\ role \in page.roles /\ Ready => \E i \in DOMAIN running : IsList(i)

\* A button works on the row it was offered for: unless somebody moved the row in
\* between, the service accepts the transition the button asks for, and the
\* second call of an act still fits what the first one left.
OffersFit ==
  \A i \in DOMAIN running :
    running[i].act # "" /\ running[i].saw = row =>
      \A c \in Head(running[i].left) : Permits(c, row) \/ c \in BulkCalls

\* No row is stranded: while the service knows a way on from its status, some role
\* has a page within its reach with a button that takes the row further and a route
\* that lets the role through.
NobodyStuck == page.kind # "none" => <<page.kind, row>> \in Cared
=============================================================================
