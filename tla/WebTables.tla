----------------------------- MODULE WebTables -----------------------------
(***************************************************************************)
(* What the theorems about WebPortal need of the tables alone: the pages,  *)
(* the calls they make, the routes of the gateway and the statuses of the  *)
(* rows.  The tables are constants, without any parameter, so that TLC     *)
(* settles each assumption by evaluating it once, whatever the run that    *)
(* extends this module is about.                                           *)
(***************************************************************************)
EXTENDS WebPages

\* The calls behind the buttons and the loads of a page.
CallsBehind(p) == CallsOf(p) \cup UNION {Reading(p.acts[a].does) : a \in DOMAIN p.acts}

\* A page is let through by the gateway for every role that may open it.
ASSUME RoutesFit ==
  \A p \in DOMAIN Pages : \A r \in Pages[p].roles : \A c \in CallsBehind(Pages[p]) :
    Admits(Api[c], r) \/ c \in KnownRefusals(r)

\* Menus and pages link to pages that are open to the roles that see the link.
ASSUME LinksFit ==
  \A p \in DOMAIN Pages : \A r \in Pages[p].roles :
    \A q \in (ShellLinks(r) \cup Pages[p].links) \cap DOMAIN Pages : r \in Pages[q].roles

\* Whatever status a row gets into, the pages care for it.
ASSUME RowsCared ==
  \A p \in DOMAIN Pages : Pages[p].kind # "none" =>
    \A s \in Rows(Pages[p].kind) : <<Pages[p].kind, s>> \in Cared
=============================================================================
