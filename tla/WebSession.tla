----------------------------- MODULE WebSession -----------------------------
(***************************************************************************)
(* Signed-in sessions: the tabs of some browsers, the storage the tabs of  *)
(* one browser share, and the grants of auth-service.  A grant is what a   *)
(* login or a refresh answers with: an access token, which the gateway     *)
(* accepts until it expires, and a refresh token, which is kept in the     *)
(* database until it is used or revoked.  Neither the web client nor the   *)
(* service wraps its steps in a transaction or a lock: every statement of  *)
(* a handler and every write to the storage is a step of its own.          *)
(*                                                                         *)
(* Bounds: MaxGrants grants (no login is begun and no refresh succeeds     *)
(* beyond) and MaxEvents password changes, expiries and blocked users.     *)
(***************************************************************************)
EXTENDS Naturals, Sequences

CONSTANTS Tab, Browser, User, Nobody, MaxGrants, MaxEvents

ASSUME SessionAssumption ==
  Nobody \notin User /\ MaxGrants \in Nat /\ MaxEvents \in Nat

VARIABLES
  browser,   \* the browser a tab belongs to, which never changes
  storage,   \* the local storage of a browser: two tokens and a user
  call,      \* the request of a tab that is under way
  grant,     \* what auth-service has handed out so far
  password,  \* the number of the present password of a user
  active,    \* the users whose status is ACTIVE
  sweeps,    \* how often the refresh tokens of a user were revoked together
  events     \* how much of MaxEvents is used up

vars == <<browser, storage, call, grant, password, active, sweeps, events>>

Stage == {"none", "login", "admitted", "answered", "sent", "retried",
          "refreshing", "found", "rotated", "refreshed", "changing", "revoking", "changed"}
Empty == [access |-> 0, refresh |-> 0, user |-> Nobody]
Idle  == [stage |-> "none", kind |-> "load", user |-> Nobody, version |-> 0,
          token |-> 0, renew |-> 0, checked |-> 0]

\* spared: it was asked for before the refresh tokens of its user were revoked and
\* handed out afterwards, or the revocation failed.
Grant(u, version, spared) ==
  [user |-> u, password |-> version, expired |-> FALSE, revoked |-> FALSE, spared |-> spared]

Init ==
  /\ browser \in [Tab -> Browser]
  /\ storage = [b \in Browser |-> Empty]
  /\ call = [t \in Tab |-> Idle]
  /\ grant = <<>>
  /\ password = [u \in User |-> 1]
  /\ active = User
  /\ sweeps = [u \in User |-> 0]
  /\ events = 0

Stored(t)   == storage[browser[t]]
At(t, stages) == call[t].stage \in stages
Go(t, stage) == call' = [call EXCEPT ![t].stage = stage]
Finish(t)   == call' = [call EXCEPT ![t] = Idle]

Server == UNCHANGED <<browser, storage, events>>
Remote == UNCHANGED <<browser, grant, password, active, sweeps>>
Client == Remote /\ UNCHANGED events
Event  == events < MaxEvents /\ events' = events + 1

(***************************************************************************)
(* Signing in.                                                             *)
(***************************************************************************)
\* The login page opens whether or not the browser holds a session.
SubmitLogin(t, u) ==
  /\ At(t, {"none"}) /\ Len(grant) < MaxGrants
  /\ call' = [call EXCEPT ![t] = [Idle EXCEPT !.stage = "login", !.user = u,
                                              !.version = password[u]]]
  /\ Client /\ UNCHANGED storage

CheckCredentials(t) ==
  /\ At(t, {"login"}) /\ call[t].user \in active
  /\ call[t].version = password[call[t].user]
  /\ call' = [call EXCEPT ![t].stage = "admitted", ![t].checked = sweeps[call[t].user]]
  /\ Server /\ UNCHANGED <<grant, password, active, sweeps>>

\* Faulty: the refresh token is handed out but not kept.
OpenUnsaved(t) ==
  /\ At(t, {"admitted"}) /\ Len(grant) < MaxGrants
  /\ call' = [call EXCEPT ![t].stage = "answered", ![t].token = Len(grant) + 1]
  /\ Server /\ UNCHANGED <<grant, password, active, sweeps>>

OpenSession(t) ==
  LET c == call[t]
  IN  /\ At(t, {"admitted"}) /\ Len(grant) < MaxGrants
      /\ grant' = Append(grant, Grant(c.user, c.version, c.checked # sweeps[c.user]))
      /\ call' = [call EXCEPT ![t].stage = "answered", ![t].token = Len(grant) + 1]
      /\ Server /\ UNCHANGED <<password, active, sweeps>>

LoginFails(t) ==
  /\ At(t, {"login", "admitted"}) /\ Finish(t)
  /\ Client /\ UNCHANGED storage

\* Faulty: the user of the session before stays in the storage.
saveTokens(b, id, u) ==
  storage' = [storage EXCEPT ![b].access = id, ![b].refresh = id]

saveAuthSession(b, id, u) ==
  storage' = [storage EXCEPT ![b] = [access |-> id, refresh |-> id, user |-> u]]

LandLogin(t) ==
  /\ At(t, {"answered"})
  /\ saveAuthSession(browser[t], call[t].token, call[t].user)
  /\ Finish(t) /\ Client

clearAuthSession(b) == storage' = [storage EXCEPT ![b] = Empty]

(***************************************************************************)
(* Pages.  A page sends its requests with the token that is in the storage *)
(* at that moment, whoever it was opened for.                              *)
(***************************************************************************)
Send(t, kind, u, version) ==
  /\ At(t, {"none"}) /\ Stored(t).access # 0
  /\ call' = [call EXCEPT ![t] =
       [Idle EXCEPT !.stage = "sent", !.kind = kind, !.user = u,
                    !.version = version, !.token = Stored(t).access]]
  /\ Remote /\ UNCHANGED storage

StartLoad(t) == Send(t, "load", Nobody, 0) /\ UNCHANGED events

\* Whoever sits there types their present password, or a wrong one.
StartChange(t) ==
  /\ Event
  /\ Send(t, "change", Nobody, 0) \/ \E u \in User : Send(t, "change", u, password[u])

\* The page behind the link of a mail, which auth-service has checked.
SubmitReset(t, u) ==
  /\ Event /\ At(t, {"none"}) /\ u \in active
  /\ call' = [call EXCEPT ![t] = [Idle EXCEPT !.stage = "changing", !.kind = "reset",
                                              !.user = u]]
  /\ Remote /\ UNCHANGED storage

\* Signing out forgets the session and tells nobody; a request under way goes on.
handleLogout(t) ==
  /\ Stored(t) # Empty
  /\ clearAuthSession(browser[t])
  /\ Client /\ UNCHANGED call

(***************************************************************************)
(* A request with an access token.                                         *)
(***************************************************************************)
Valid(id) == ~grant[id].expired /\ grant[id].user \in active

Serve(t) ==
  LET u == grant[call[t].token].user
  IN  /\ At(t, {"sent", "retried"}) /\ Valid(call[t].token)
      /\ \/ call[t].kind = "load" /\ Finish(t)
         \/ /\ call[t].kind = "change" /\ call[t].user = u /\ call[t].version = password[u]
            /\ call' = [call EXCEPT ![t] = [Idle EXCEPT !.stage = "changing", !.kind = "change",
                                                         !.user = u]]
      /\ Server /\ UNCHANGED <<grant, password, active, sweeps>>

\* 401: the token is not valid, auth-service did not answer the gateway in time, or
\* the current password is wrong.  The first answer of this kind is followed by an
\* attempt to refresh, if there is a refresh token, the second one is not.
clearSessionAndRedirect(t) == clearAuthSession(browser[t]) /\ Finish(t)

tryRefreshToken(t) ==
  /\ Stored(t).refresh # 0
  /\ call' = [call EXCEPT ![t].stage = "refreshing", ![t].token = 0,
                          ![t].renew = Stored(t).refresh]
  /\ UNCHANGED storage

Refuse(t) ==
  /\ \/ At(t, {"sent"}) /\ tryRefreshToken(t)
     \/ At(t, {"sent"}) /\ Stored(t).refresh = 0 /\ clearSessionAndRedirect(t)
     \/ At(t, {"retried"}) /\ clearSessionAndRedirect(t)
  /\ Client

\* Any other failure is only shown.
CallFails(t) ==
  /\ At(t, {"sent", "retried", "changing", "changed"}) /\ Finish(t)
  /\ Client /\ UNCHANGED storage

(***************************************************************************)
(* Refreshing.  The client sends the refresh token it finds in the storage *)
(* and keeps the access token of the answer only.                          *)
(***************************************************************************)
FindValidRefreshToken(t) ==
  LET old == grant[call[t].renew]
  IN  /\ At(t, {"refreshing"}) /\ ~old.revoked /\ old.user \in active
      /\ call' = [call EXCEPT ![t].stage = "found", ![t].checked = sweeps[old.user]]
      /\ Server /\ UNCHANGED <<grant, password, active, sweeps>>

\* Faulty: the old refresh token stays valid.
KeepRefreshToken(t) ==
  /\ At(t, {"found"}) /\ Go(t, "rotated")
  /\ Server /\ UNCHANGED <<grant, password, active, sweeps>>

RevokeRefreshToken(t) ==
  /\ At(t, {"found"}) /\ Go(t, "rotated")
  /\ grant' = [grant EXCEPT ![call[t].renew].revoked = TRUE]
  /\ Server /\ UNCHANGED <<password, active, sweeps>>

CreateRefreshToken(t) ==
  LET old == grant[call[t].renew]
  IN  /\ At(t, {"rotated"}) /\ Len(grant) < MaxGrants
      /\ grant' = Append(grant, Grant(old.user, old.password,
                                      old.spared \/ call[t].checked # sweeps[old.user]))
      /\ call' = [call EXCEPT ![t].stage = "refreshed", ![t].token = Len(grant) + 1]
      /\ Server /\ UNCHANGED <<password, active, sweeps>>

RefreshFails(t) ==
  /\ At(t, {"refreshing", "found", "rotated", "refreshed"})
  /\ clearSessionAndRedirect(t) /\ Client

LandRefresh(t) ==
  /\ At(t, {"refreshed"})
  /\ storage' = [storage EXCEPT ![browser[t]].access = call[t].token]
  /\ call' = [call EXCEPT ![t].stage = "retried", ![t].renew = 0, ![t].checked = 0]
  /\ Client

(***************************************************************************)
(* A new password: the update, then the revocation, whose failure nobody   *)
(* notices.  The page of a changed password signs out a little later.      *)
(***************************************************************************)
UpdatePassword(t) ==
  /\ At(t, {"changing"}) /\ Go(t, "revoking")
  /\ password' = [password EXCEPT ![call[t].user] = @ + 1]
  /\ Server /\ UNCHANGED <<grant, active, sweeps>>

\* Faulty: the refresh tokens that were handed out last are missed.
RevokeFirst(u) ==
  grant' = [i \in DOMAIN grant |->
             IF grant[i].user = u /\ i < Len(grant) THEN [grant[i] EXCEPT !.revoked = TRUE]
             ELSE grant[i]]

RevokeAllForUser(u) ==
  grant' = [i \in DOMAIN grant |->
             IF grant[i].user = u THEN [grant[i] EXCEPT !.revoked = TRUE] ELSE grant[i]]
RevocationFails(u) ==
  grant' = [i \in DOMAIN grant |->
             IF grant[i].user = u THEN [grant[i] EXCEPT !.spared = TRUE] ELSE grant[i]]

Revoke(t) ==
  /\ At(t, {"revoking"})
  /\ call' = [call EXCEPT ![t].stage = "changed", ![t].user = Nobody]
  /\ RevokeAllForUser(call[t].user) \/ RevocationFails(call[t].user)
  /\ sweeps' = [sweeps EXCEPT ![call[t].user] = @ + 1]
  /\ Server /\ UNCHANGED <<password, active>>

LeaveChanged(t) ==
  /\ At(t, {"changed"}) /\ Finish(t)
  /\ IF call[t].kind = "reset" THEN UNCHANGED storage
     ELSE clearAuthSession(browser[t])
  /\ Client

(***************************************************************************)
(* Around it: access tokens expire, an administrator blocks a user.        *)
(***************************************************************************)
Expire ==
  /\ Event /\ \E i \in DOMAIN grant : ~grant[i].expired
  /\ grant' = [i \in DOMAIN grant |-> [grant[i] EXCEPT !.expired = TRUE]]
  /\ UNCHANGED <<browser, storage, call, password, active, sweeps>>

SetUserStatus(u) ==
  /\ Event /\ u \in active /\ active' = active \ {u}
  /\ UNCHANGED <<browser, storage, call, grant, password, sweeps>>

Proceed(t) ==
  \/ CheckCredentials(t) \/ OpenSession(t) \/ LoginFails(t) \/ LandLogin(t)
  \/ Serve(t) \/ Refuse(t) \/ CallFails(t)
  \/ FindValidRefreshToken(t) \/ RevokeRefreshToken(t)
  \/ CreateRefreshToken(t) \/ RefreshFails(t) \/ LandRefresh(t)
  \/ UpdatePassword(t) \/ Revoke(t) \/ LeaveChanged(t)

Next ==
  \/ \E t \in Tab :
       \/ Proceed(t) \/ StartLoad(t) \/ StartChange(t) \/ handleLogout(t)
       \/ \E u \in User : SubmitLogin(t, u) \/ SubmitReset(t, u)
  \/ Expire
  \/ \E u \in User : SetUserStatus(u)

Spec == Init /\ [][Next]_vars

(***************************************************************************)
(* Properties.                                                             *)
(***************************************************************************)

\* Every variable keeps its type: what a browser or a request holds are grants that
\* were handed out.
TypeOK ==
  /\ browser \in [Tab -> Browser]
  /\ storage \in [Browser -> [access : 0..Len(grant), refresh : 0..Len(grant),
                              user : User \cup {Nobody}]]
  /\ call \in [Tab -> [stage : Stage, kind : {"load", "change", "reset"},
                       user : User \cup {Nobody}, version : Nat, token : 0..Len(grant),
                       renew : 0..Len(grant), checked : Nat]]
  /\ grant \in Seq([user : User, password : Nat, expired : BOOLEAN, revoked : BOOLEAN,
                    spared : BOOLEAN])
  /\ password \in [User -> Nat] /\ active \subseteq User /\ sweeps \in [User -> Nat]
  /\ events \in 0..MaxEvents

\* The storage of a browser holds one session or none: two tokens of the user it
\* names.  A single step of the code can break it: a refresh whose answer comes
\* back after the session it was started for has been left, by signing out, in
\* another tab or by a forced sign-out; it stores its token all the same.
Whole(s) ==
  \/ s = Empty
  \/ /\ s.access # 0 /\ s.refresh # 0
     /\ grant[s.access].user = s.user /\ grant[s.refresh].user = s.user
LateRefresh(t) ==
  /\ At(t, {"refreshed"}) /\ call'[t].stage = "retried"
  /\ Stored(t).refresh # call[t].renew
MixedOnlyByLateRefresh ==
  [][\A b \in Browser :
       Whole(storage[b]) /\ ~Whole(storage[b])' =>
         \E t \in Tab : browser[t] = b /\ LateRefresh(t)]_vars

\* Once a password is changed or reset, nobody keeps a session that an older one
\* opened, except through a request that was under way while the refresh tokens
\* were revoked: a login that had checked the old password, or a refresh that had
\* found its token valid.
SurvivorsWereUnderWay ==
  \A i \in DOMAIN grant :
    ~grant[i].revoked /\ grant[i].password < password[grant[i].user] =>
      \/ grant[i].spared
      \/ \E t \in Tab : At(t, {"revoking"}) /\ call[t].user = grant[i].user

\* A session is renewed at most once: when a refresh that is not late has stored its
\* access token, the refresh token next to it is used up, since the one that
\* replaces it was thrown away.
RenewedOnce ==
  [][\A t \in Tab :
       At(t, {"refreshed"}) /\ call'[t].stage = "retried" /\ ~LateRefresh(t) =>
         grant[Stored(t).refresh].revoked]_vars
=============================================================================
