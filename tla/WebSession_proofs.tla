------------------------- MODULE WebSession_proofs -------------------------
(***************************************************************************)
(* Theorems about WebSession, for any tabs, browsers and users, any number *)
(* of grants and any number of password changes, expiries and blockings.   *)
(***************************************************************************)
EXTENDS WebSession, TLAPS

-----------------------------------------------------------------------------
(* The inductive invariant.                                                 *)

\* The refresh tokens of a user are about to be revoked.
Revoking(u) == \E t \in Tab : At(t, {"revoking"}) /\ call[t].user = u

\* A check that read a password, or a token, of this version when the tokens had
\* been revoked that often: if it is out of date, they have been revoked since or
\* are about to be.
InTime(u, version, checked) ==
  /\ checked <= sweeps[u]
  /\ version < password[u] => checked < sweeps[u] \/ Revoking(u)

\* What a request carries at its stage.
Sound(c) ==
  /\ c.stage \in {"login", "admitted", "answered", "changing", "revoking"} => c.user \in User
  /\ c.stage \in {"sent", "retried", "answered", "refreshed"} => c.token # 0
  /\ c.stage \in {"refreshing", "found", "rotated", "refreshed"} => c.renew # 0
  /\ c.stage = "answered" => grant[c.token].user = c.user
  /\ c.stage = "refreshed" => grant[c.token].user = grant[c.renew].user
  /\ c.stage \in {"rotated", "refreshed"} => grant[c.renew].revoked
  /\ c.stage = "admitted" => InTime(c.user, c.version, c.checked)
  /\ c.stage \in {"found", "rotated"} =>
       \/ grant[c.renew].spared
       \/ InTime(grant[c.renew].user, grant[c.renew].password, c.checked)

CallsOK == \A t \in Tab : Sound(call[t])

\* A grant that outlives its password.
GrantOK(i) ==
  ~grant[i].revoked /\ grant[i].password < password[grant[i].user] =>
    grant[i].spared \/ Revoking(grant[i].user)

GrantsOK == \A i \in DOMAIN grant : GrantOK(i)

IInv == TypeOK /\ CallsOK /\ GrantsOK

-----------------------------------------------------------------------------
(* Types.                                                                   *)

CallType(n) ==
  [stage : Stage, kind : {"load", "change", "reset"}, user : User \cup {Nobody},
   version : Nat, token : 0..n, renew : 0..n, checked : Nat]

StoreType(n) == [access : 0..n, refresh : 0..n, user : User \cup {Nobody}]

GrantType == [user : User, password : Nat, expired : BOOLEAN, revoked : BOOLEAN,
              spared : BOOLEAN]

LEMMA Types ==
  TypeOK <=> /\ browser \in [Tab -> Browser]
             /\ storage \in [Browser -> StoreType(Len(grant))]
             /\ call \in [Tab -> CallType(Len(grant))]
             /\ grant \in Seq(GrantType)
             /\ password \in [User -> Nat] /\ active \subseteq User /\ sweeps \in [User -> Nat]
             /\ events \in 0..MaxEvents
  BY DEF TypeOK, CallType, StoreType, GrantType

LEMMA TypesPrimed ==
  TypeOK' <=> /\ browser' \in [Tab -> Browser]
              /\ storage' \in [Browser -> StoreType(Len(grant'))]
              /\ call' \in [Tab -> CallType(Len(grant'))]
              /\ grant' \in Seq(GrantType)
              /\ password' \in [User -> Nat] /\ active' \subseteq User
              /\ sweeps' \in [User -> Nat]
              /\ events' \in 0..MaxEvents
  BY DEF TypeOK, CallType, StoreType, GrantType

LEMMA GrantFacts ==
  ASSUME TypeOK
  PROVE  /\ grant \in Seq(GrantType) /\ Len(grant) \in Nat /\ DOMAIN grant = 1..Len(grant)
         /\ \A i \in DOMAIN grant :
              /\ grant[i] \in GrantType
              /\ grant[i].user \in User /\ grant[i].password \in Nat
              /\ grant[i].revoked \in BOOLEAN /\ grant[i].spared \in BOOLEAN
<1>1. grant \in Seq(GrantType)
  BY Types
<1>2. Len(grant) \in Nat /\ DOMAIN grant = 1..Len(grant) /\ \A i \in DOMAIN grant : grant[i] \in GrantType
  BY <1>1
<1> QED BY <1>1, <1>2 DEF GrantType

LEMMA IdleFacts ==
  ASSUME NEW n \in Nat
  PROVE  Idle \in CallType(n) /\ Idle.stage = "none" /\ Sound(Idle)
  BY DEF Idle, CallType, Stage, Sound

LEMMA Growing ==
  ASSUME NEW m \in Nat, NEW n \in Nat, m <= n
  PROVE  CallType(m) \subseteq CallType(n) /\ StoreType(m) \subseteq StoreType(n)
<1>1. 0..m \subseteq 0..n
  OBVIOUS
<1> QED BY <1>1 DEF CallType, StoreType

\* Storing, or forgetting, is well typed.
LEMMA StorageTypes ==
  ASSUME NEW n \in Nat, storage \in [Browser -> StoreType(n)], NEW b \in Browser,
         \/ storage' = storage
         \/ clearAuthSession(b)
         \/ \E id \in 0..n, u \in User \cup {Nobody} : saveAuthSession(b, id, u)
         \/ \E id \in 0..n : storage' = [storage EXCEPT ![b].access = id]
  PROVE  storage' \in [Browser -> StoreType(n)]
<1>1. Empty \in StoreType(n)
  BY DEF Empty, StoreType
<1>2. ASSUME NEW id \in 0..n, NEW u \in User \cup {Nobody}
      PROVE  [access |-> id, refresh |-> id, user |-> u] \in StoreType(n)
  BY DEF StoreType
<1>3. ASSUME NEW id \in 0..n
      PROVE  [storage[b] EXCEPT !.access = id] \in StoreType(n)
  BY DEF StoreType
<1> QED BY <1>1, <1>2, <1>3 DEF clearAuthSession, saveAuthSession

-----------------------------------------------------------------------------
(* What every step keeps.                                                   *)

\* Grants are only added, revoked and spared.
GrantsForward ==
  /\ Len(grant) <= Len(grant')
  /\ \A i \in DOMAIN grant :
       /\ grant'[i].user = grant[i].user /\ grant'[i].password = grant[i].password
       /\ grant[i].revoked => grant'[i].revoked
       /\ grant[i].spared => grant'[i].spared

\* A password changes just before its tokens are revoked, who is about to revoke them
\* does, and a revocation misses none that it does not spare.
SweepsForward ==
  \A u \in User :
    /\ sweeps[u] <= sweeps'[u]
    /\ password'[u] = password[u] \/ Revoking(u)'
    /\ Revoking(u) => Revoking(u)' \/ sweeps[u] < sweeps'[u]
    /\ sweeps[u] < sweeps'[u] =>
         \A i \in DOMAIN grant : grant[i].user = u => grant'[i].revoked \/ grant'[i].spared

LEMMA InTimeKept ==
  ASSUME TypeOK, TypeOK', SweepsForward, NEW u \in User, NEW version \in Nat,
         NEW checked \in Nat, InTime(u, version, checked)
  PROVE  InTime(u, version, checked)'
<1>1. /\ sweeps[u] \in Nat /\ sweeps'[u] \in Nat /\ password[u] \in Nat /\ password'[u] \in Nat
  BY DEF TypeOK
<1>2. /\ sweeps[u] <= sweeps'[u]
      /\ password'[u] = password[u] \/ Revoking(u)'
      /\ Revoking(u) => Revoking(u)' \/ sweeps[u] < sweeps'[u]
  BY DEF SweepsForward
<1>3. /\ checked <= sweeps[u]
      /\ version < password[u] => checked < sweeps[u] \/ Revoking(u)
  BY DEF InTime
<1>4. checked <= sweeps'[u]
  BY <1>1, <1>2, <1>3
<1>5. ASSUME version < password'[u], ~Revoking(u)' PROVE checked < sweeps'[u]
  <2>1. checked < sweeps[u] \/ sweeps[u] < sweeps'[u]
    BY <1>2, <1>3, <1>5
  <2> QED BY <1>1, <1>2, <1>3, <2>1
<1> QED BY <1>4, <1>5 DEF InTime

LEMMA SoundKept ==
  ASSUME TypeOK, TypeOK', GrantsForward, SweepsForward,
         NEW c \in CallType(Len(grant)), Sound(c)
  PROVE  Sound(c)'
<1>1. /\ c.token \in 0..Len(grant) /\ c.renew \in 0..Len(grant)
      /\ c.version \in Nat /\ c.checked \in Nat
  BY DEF CallType
<1>2. c.token # 0 => c.token \in DOMAIN grant
  BY <1>1, GrantFacts
<1>3. c.renew # 0 => c.renew \in DOMAIN grant
  BY <1>1, GrantFacts
<1>4. c.stage = "admitted" => InTime(c.user, c.version, c.checked)'
  BY <1>1, InTimeKept DEF Sound
<1>5. ASSUME c.stage \in {"found", "rotated"}
      PROVE  (\/ grant[c.renew].spared
              \/ InTime(grant[c.renew].user, grant[c.renew].password, c.checked))'
  <2>1. PICK i \in DOMAIN grant : i = c.renew
    BY <1>3, <1>5 DEF Sound
  <2>2. PICK u \in User, v \in Nat : u = grant[i].user /\ v = grant[i].password
    BY GrantFacts
  <2>3. grant'[i].user = u /\ grant'[i].password = v /\ (grant[i].spared => grant'[i].spared)
    BY <2>2 DEF GrantsForward
  <2>4. grant[i].spared \/ InTime(u, v, c.checked)
    BY <1>5, <2>1, <2>2 DEF Sound
  <2>5. InTime(u, v, c.checked) => InTime(u, v, c.checked)'
    BY <1>1, InTimeKept
  <2>6. CASE grant[i].spared
    BY <2>1, <2>3, <2>6
  <2>7. CASE InTime(u, v, c.checked)
    <3>1. InTime(u, v, c.checked)'
      BY <2>5, <2>7
    <3>2. InTime(grant[i].user, grant[i].password, c.checked)'
      BY <3>1, <2>3 DEF InTime, Revoking, At
    <3> QED BY <3>2, <2>1 DEF InTime, Revoking, At
  <2> QED BY <2>4, <2>6, <2>7
<1>6. c.stage \in {"rotated", "refreshed"} => grant'[c.renew].revoked
  BY <1>3 DEF Sound, GrantsForward
<1>7. /\ c.stage = "answered" => grant'[c.token].user = c.user
      /\ c.stage = "refreshed" => grant'[c.token].user = grant'[c.renew].user
  BY <1>2, <1>3 DEF Sound, GrantsForward
<1>8. /\ c.stage \in {"login", "admitted", "answered", "changing", "revoking"} => c.user \in User
      /\ c.stage \in {"sent", "retried", "answered", "refreshed"} => c.token # 0
      /\ c.stage \in {"refreshing", "found", "rotated", "refreshed"} => c.renew # 0
  BY DEF Sound
<1> HIDE DEF InTime
<1> QED BY <1>4, <1>5, <1>6, <1>7, <1>8 DEF Sound

\* A request that is sound after the step, named by its value.
LEMMA SoundNamed ==
  ASSUME NEW t \in Tab, NEW d, d = call'[t], Sound(d)'
  PROVE  Sound(call[t])'
  BY DEF Sound, InTime, Revoking, At

LEMMA TabFacts ==
  ASSUME IInv, NEW t \in Tab
  PROVE  /\ Len(grant) \in Nat /\ call \in [Tab -> CallType(Len(grant))]
         /\ call[t] \in CallType(Len(grant)) /\ Sound(call[t])
         /\ browser[t] \in Browser /\ Stored(t) \in StoreType(Len(grant))
         /\ storage \in [Browser -> StoreType(Len(grant))]
  BY Types, GrantFacts DEF IInv, CallsOK, Stored

\* A step is right when it goes forward, the requests it moves are sound and the
\* grants it adds are.
LEMMA StepKeeps ==
  ASSUME IInv, TypeOK', GrantsForward, SweepsForward,
         \A s \in Tab : call'[s] = call[s] \/ Sound(call[s])',
         \A i \in DOMAIN grant' : i \notin DOMAIN grant => GrantOK(i)'
  PROVE  IInv'
<1>1. ASSUME NEW s \in Tab PROVE Sound(call[s])'
  <2>1. CASE Sound(call[s])'
    BY <2>1
  <2>2. CASE call'[s] = call[s]
    <3>1. PICK d \in CallType(Len(grant)) : d = call[s]
      BY TabFacts
    <3>2. d = call'[s]
      BY <2>2, <3>1
    <3>3. Sound(d)
      BY <3>1, TabFacts
    <3>4. Sound(d)'
      BY <3>3, SoundKept DEF IInv
    <3> QED BY <3>2, <3>4, SoundNamed
  <2> QED BY <2>1, <2>2
<1>2. ASSUME NEW i \in DOMAIN grant PROVE GrantOK(i)'
  <2>1. PICK u \in User, v \in Nat : u = grant[i].user /\ v = grant[i].password
    BY GrantFacts DEF IInv
  <2>2. /\ grant'[i].user = u /\ grant'[i].password = v
        /\ grant[i].revoked => grant'[i].revoked
        /\ grant[i].spared => grant'[i].spared
    BY <2>1 DEF GrantsForward
  <2>3. ~grant[i].revoked /\ v < password[u] => grant[i].spared \/ Revoking(u)
    BY <2>1 DEF IInv, GrantsOK, GrantOK
  <2>4. /\ password'[u] = password[u] \/ Revoking(u)'
        /\ Revoking(u) => Revoking(u)' \/ sweeps[u] < sweeps'[u]
        /\ sweeps[u] < sweeps'[u] => grant'[i].revoked \/ grant'[i].spared
    BY <2>1 DEF SweepsForward
  <2>5. ~grant'[i].revoked /\ v < password'[u] => grant'[i].spared \/ Revoking(u)'
    BY <2>2, <2>3, <2>4
  <2> QED BY <2>2, <2>5 DEF GrantOK, Revoking, At
<1>3. CallsOK' /\ GrantsOK'
  BY <1>1, <1>2 DEF CallsOK, GrantsOK
<1> QED BY <1>3 DEF IInv

\* A step that only moves a request, and what the browser holds.
LEMMA Quiet ==
  ASSUME IInv, NEW t \in Tab, NEW c \in CallType(Len(grant)), Sound(c),
         call[t].stage = "revoking" => c = call[t],
         call' = [call EXCEPT ![t] = c],
         storage' \in [Browser -> StoreType(Len(grant))], events' \in 0..MaxEvents,
         UNCHANGED <<browser, grant, password, active, sweeps>>
  PROVE  IInv'
<1>1. TypeOK'
  BY Types, TypesPrimed DEF IInv
<1>2. GrantsForward
  BY GrantFacts DEF GrantsForward, IInv
<1>3. call'[t] = c /\ \A s \in Tab : s # t => call'[s] = call[s]
  BY TabFacts
<1>4. ASSUME NEW u \in User, Revoking(u) PROVE Revoking(u)'
  <2>1. PICK s \in Tab : call[s].stage = "revoking" /\ call[s].user = u
    BY <1>4 DEF Revoking, At
  <2>2. call'[s] = call[s]
    BY <2>1, <1>3
  <2> QED BY <2>1, <2>2 DEF Revoking, At
<1>5. \A u \in User : sweeps[u] \in Nat
  BY DEF IInv, TypeOK
<1>6. SweepsForward
  BY <1>4, <1>5 DEF SweepsForward
<1>7. Sound(c)'
  BY <1>1, <1>2, <1>6, SoundKept DEF IInv
<1>8. Sound(call[t])'
  BY <1>3, <1>7, SoundNamed
<1> QED BY <1>1, <1>2, <1>3, <1>6, <1>8, StepKeeps

LEMMA FinishKeeps ==
  ASSUME IInv, NEW t \in Tab, ~At(t, {"revoking"}), Finish(t),
         storage' \in [Browser -> StoreType(Len(grant))], events' \in 0..MaxEvents,
         UNCHANGED <<browser, grant, password, active, sweeps>>
  PROVE  IInv'
  BY Quiet, TabFacts, IdleFacts DEF Finish, At

-----------------------------------------------------------------------------
(* The initial states.                                                      *)

LEMMA InitOK == Init => IInv
<1> SUFFICES ASSUME Init PROVE IInv
  OBVIOUS
<1>1. grant = <<>> /\ Len(grant) = 0 /\ DOMAIN grant = {}
  BY DEF Init
<1>2. Empty \in StoreType(0) /\ 0 \in 0..MaxEvents
  BY SessionAssumption DEF Empty, StoreType
<1>3. TypeOK
  BY <1>1, <1>2, IdleFacts, Types DEF Init
<1>4. CallsOK
  BY IdleFacts DEF Init, CallsOK
<1> QED BY <1>1, <1>3, <1>4 DEF IInv, GrantsOK

-----------------------------------------------------------------------------
(* One lemma per step: the steps of a tab that only move its request.       *)

LEMMA EventFacts ==
  ASSUME IInv
  PROVE  /\ events \in 0..MaxEvents
         /\ Event => events' \in 0..MaxEvents
  BY SessionAssumption DEF IInv, TypeOK, Event

\* A request that has just begun.
Request(stage, kind, u, version, id) ==
  [stage |-> stage, kind |-> kind, user |-> u, version |-> version, token |-> id,
   renew |-> 0, checked |-> 0]

LEMMA RequestFacts ==
  ASSUME NEW n \in Nat, NEW stage \in Stage, NEW kind \in {"load", "change", "reset"},
         NEW u \in User \cup {Nobody}, NEW version \in Nat, NEW id \in 0..n
  PROVE  /\ Request(stage, kind, u, version, id) \in CallType(n)
         /\ (stage \in {"login", "changing"} /\ u \in User) \/ (stage = "sent" /\ id # 0)
              => Sound(Request(stage, kind, u, version, id))
  BY DEF Request, CallType, Sound

LEMMA SubmitLoginKeeps ==
  ASSUME IInv, NEW t \in Tab, NEW u \in User, SubmitLogin(t, u)
  PROVE  IInv'
<1>1. PICK c : c = [Idle EXCEPT !.stage = "login", !.user = u, !.version = password[u]]
  OBVIOUS
<1>2. c \in CallType(Len(grant)) /\ Sound(c)
  <2>1. password[u] \in Nat
    BY DEF IInv, TypeOK
  <2>2. c = Request("login", "load", u, password[u], 0)
    BY <1>1 DEF Idle, Request
  <2>3. 0 \in 0..Len(grant) /\ "login" \in Stage
    BY TabFacts DEF Stage
  <2> QED BY <2>1, <2>2, <2>3, TabFacts, RequestFacts DEF Stage
<1> QED BY <1>1, <1>2, Quiet, TabFacts, EventFacts DEF SubmitLogin, Client, Remote, At

LEMMA CheckCredentialsKeeps ==
  ASSUME IInv, NEW t \in Tab, CheckCredentials(t)
  PROVE  IInv'
<1>1. PICK c : c = [call[t] EXCEPT !.stage = "admitted", !.checked = sweeps[call[t].user]]
  OBVIOUS
<1>2. call[t].user \in User /\ call[t].version = password[call[t].user]
  BY TabFacts DEF CheckCredentials, At, Sound
<1>3. sweeps[call[t].user] \in Nat /\ password[call[t].user] \in Nat
  BY <1>2 DEF IInv, TypeOK
<1>4. c \in CallType(Len(grant))
  BY <1>1, <1>3, TabFacts DEF CallType, Stage
<1>5. c.stage = "admitted" /\ c.user = call[t].user /\ c.version = call[t].version
      /\ c.checked = sweeps[call[t].user]
  BY <1>1, TabFacts DEF CallType
<1>6. Sound(c)
  BY <1>2, <1>3, <1>5 DEF Sound, InTime
<1>7. call' = [call EXCEPT ![t] = c]
  BY <1>1, TabFacts DEF CheckCredentials, CallType
<1> QED BY <1>4, <1>6, <1>7, Quiet, TabFacts, EventFacts DEF CheckCredentials, Server, At

LEMMA LoginFailsKeeps ==
  ASSUME IInv, NEW t \in Tab, LoginFails(t)
  PROVE  IInv'
  BY FinishKeeps, TabFacts, EventFacts DEF LoginFails, Client, Remote, At

LEMMA LandLoginKeeps ==
  ASSUME IInv, NEW t \in Tab, LandLogin(t)
  PROVE  IInv'
<1>1. call[t].token \in 0..Len(grant) /\ call[t].user \in User \cup {Nobody}
  BY TabFacts DEF CallType
<1>2. storage' \in [Browser -> StoreType(Len(grant))]
  BY <1>1, TabFacts, StorageTypes DEF LandLogin
<1> QED BY <1>2, FinishKeeps, EventFacts DEF LandLogin, Client, Remote, At

LEMMA SendKeeps ==
  ASSUME IInv, NEW t \in Tab, NEW kind \in {"load", "change"}, NEW u \in User \cup {Nobody},
         NEW version \in Nat, Send(t, kind, u, version), events' \in 0..MaxEvents
  PROVE  IInv'
<1>1. PICK id : id = Stored(t).access
  OBVIOUS
<1>2. id \in 0..Len(grant) /\ id # 0
  BY <1>1, TabFacts DEF Send, StoreType
<1>3. PICK c : c = [Idle EXCEPT !.stage = "sent", !.kind = kind, !.user = u,
                                !.version = version, !.token = id]
  OBVIOUS
<1>4. c \in CallType(Len(grant)) /\ Sound(c)
  <2>1. c = Request("sent", kind, u, version, id)
    BY <1>3 DEF Idle, Request
  <2> QED BY <1>2, <2>1, TabFacts, RequestFacts DEF Stage
<1>5. call' = [call EXCEPT ![t] = c]
  BY <1>1, <1>3 DEF Send
<1> QED BY <1>4, <1>5, Quiet, TabFacts DEF Send, Remote, At

LEMMA StartLoadKeeps ==
  ASSUME IInv, NEW t \in Tab, StartLoad(t)
  PROVE  IInv'
  BY SendKeeps, EventFacts DEF StartLoad

LEMMA StartChangeKeeps ==
  ASSUME IInv, NEW t \in Tab, StartChange(t)
  PROVE  IInv'
<1>1. CASE Send(t, "change", Nobody, 0)
  BY <1>1, SendKeeps, EventFacts DEF StartChange
<1>2. CASE \E u \in User : Send(t, "change", u, password[u])
  <2>1. PICK u \in User : Send(t, "change", u, password[u])
    BY <1>2
  <2>2. password[u] \in Nat
    BY DEF IInv, TypeOK
  <2> QED BY <2>1, <2>2, SendKeeps, EventFacts DEF StartChange
<1> QED BY <1>1, <1>2 DEF StartChange

LEMMA SubmitResetKeeps ==
  ASSUME IInv, NEW t \in Tab, NEW u \in User, SubmitReset(t, u)
  PROVE  IInv'
<1>1. PICK c : c = [Idle EXCEPT !.stage = "changing", !.kind = "reset", !.user = u]
  OBVIOUS
<1>2. c \in CallType(Len(grant)) /\ Sound(c)
  <2>1. c = Request("changing", "reset", u, 0, 0)
    BY <1>1 DEF Idle, Request
  <2>2. 0 \in 0..Len(grant) /\ 0 \in Nat /\ "changing" \in Stage
    BY TabFacts DEF Stage
  <2> QED BY <2>1, <2>2, TabFacts, RequestFacts DEF Stage
<1> QED BY <1>1, <1>2, Quiet, TabFacts, EventFacts DEF SubmitReset, Remote, At

LEMMA handleLogoutKeeps ==
  ASSUME IInv, NEW t \in Tab, handleLogout(t)
  PROVE  IInv'
<1>1. storage' \in [Browser -> StoreType(Len(grant))]
  BY TabFacts, StorageTypes DEF handleLogout
<1>2. call' = [call EXCEPT ![t] = call[t]]
  BY TabFacts DEF handleLogout
<1> QED BY <1>1, <1>2, Quiet, TabFacts, EventFacts DEF handleLogout, Client, Remote

LEMMA ServeKeeps ==
  ASSUME IInv, NEW t \in Tab, Serve(t)
  PROVE  IInv'
<1>1. call[t].token # 0 /\ call[t].token \in 0..Len(grant)
  BY TabFacts DEF Serve, At, Sound, CallType
<1>2. PICK u \in User : u = grant[call[t].token].user
  BY <1>1, GrantFacts DEF IInv
<1>3. PICK c : c = [Idle EXCEPT !.stage = "changing", !.kind = "change", !.user = u]
  OBVIOUS
<1>4. c \in CallType(Len(grant)) /\ Sound(c)
  <2>1. c = Request("changing", "change", u, 0, 0)
    BY <1>3 DEF Idle, Request
  <2>2. 0 \in 0..Len(grant) /\ 0 \in Nat /\ "changing" \in Stage
    BY TabFacts DEF Stage
  <2> QED BY <2>1, <2>2, TabFacts, RequestFacts DEF Stage
<1>5. Finish(t) \/ call' = [call EXCEPT ![t] = c]
  BY <1>2, <1>3 DEF Serve
<1>6. /\ storage' \in [Browser -> StoreType(Len(grant))] /\ events' \in 0..MaxEvents
      /\ UNCHANGED <<browser, grant, password, active, sweeps>>
      /\ call[t].stage # "revoking" /\ ~At(t, {"revoking"})
  BY TabFacts, EventFacts DEF Serve, Server, At
<1>7. CASE Finish(t)
  BY <1>6, <1>7, FinishKeeps
<1>8. CASE call' = [call EXCEPT ![t] = c]
  BY <1>4, <1>6, <1>8, Quiet
<1> QED BY <1>5, <1>7, <1>8

LEMMA RefuseKeeps ==
  ASSUME IInv, NEW t \in Tab, Refuse(t)
  PROVE  IInv'
<1>1. At(t, {"sent", "retried"}) /\ Client
  BY DEF Refuse, At
<1>2. CASE clearSessionAndRedirect(t)
  <2>1. storage' \in [Browser -> StoreType(Len(grant))]
    BY <1>2, TabFacts, StorageTypes DEF clearSessionAndRedirect
  <2> QED BY <1>1, <1>2, <2>1, FinishKeeps, EventFacts DEF clearSessionAndRedirect, Client, Remote, At
<1>3. CASE tryRefreshToken(t)
  <2>1. PICK id : id = Stored(t).refresh
    OBVIOUS
  <2>2. id \in 0..Len(grant) /\ id # 0
    BY <1>3, <2>1, TabFacts DEF tryRefreshToken, StoreType
  <2>3. PICK c : c = [call[t] EXCEPT !.stage = "refreshing", !.token = 0, !.renew = id]
    OBVIOUS
  <2>4. c \in CallType(Len(grant)) /\ c.stage = "refreshing" /\ c.renew = id
    <3>1. 0 \in 0..Len(grant) /\ "refreshing" \in Stage
      BY TabFacts DEF Stage
    <3> QED BY <2>2, <2>3, <3>1, TabFacts DEF CallType
  <2>5. Sound(c)
    BY <2>2, <2>4 DEF Sound
  <2>6. call' = [call EXCEPT ![t] = c]
    BY <1>3, <2>1, <2>3, TabFacts DEF tryRefreshToken, CallType
  <2> QED BY <1>1, <1>3, <2>4, <2>5, <2>6, Quiet, TabFacts, EventFacts
          DEF tryRefreshToken, Client, Remote, At
<1> QED BY <1>2, <1>3 DEF Refuse

LEMMA CallFailsKeeps ==
  ASSUME IInv, NEW t \in Tab, CallFails(t)
  PROVE  IInv'
  BY FinishKeeps, TabFacts, EventFacts DEF CallFails, Client, Remote, At

LEMMA FindValidRefreshTokenKeeps ==
  ASSUME IInv, NEW t \in Tab, FindValidRefreshToken(t)
  PROVE  IInv'
<1>1. PICK i \in DOMAIN grant : i = call[t].renew
  BY TabFacts, GrantFacts DEF FindValidRefreshToken, At, Sound, CallType, IInv
<1>2. PICK u \in User, v \in Nat : u = grant[i].user /\ v = grant[i].password
  BY GrantFacts DEF IInv
<1>3. PICK n \in Nat : n = sweeps[u]
  BY DEF IInv, TypeOK
<1>4. PICK c : c = [call[t] EXCEPT !.stage = "found", !.checked = n]
  OBVIOUS
<1>5. /\ c \in CallType(Len(grant))
      /\ c.stage = "found" /\ c.renew = i /\ c.checked = n
  BY <1>1, <1>4, TabFacts DEF CallType, Stage
<1>6. v < password[u] => grant[i].spared \/ Revoking(u)
  BY <1>1, <1>2 DEF FindValidRefreshToken, IInv, GrantsOK, GrantOK
<1>7. grant[i].spared \/ InTime(u, v, n)
  BY <1>3, <1>6 DEF InTime
<1>8. i # 0
  BY <1>1, TabFacts DEF FindValidRefreshToken, At, Sound
<1>9. Sound(c)
  BY <1>2, <1>5, <1>7, <1>8 DEF Sound
<1>10. call' = [call EXCEPT ![t] = c]
  BY <1>1, <1>2, <1>3, <1>4, TabFacts DEF FindValidRefreshToken, CallType
<1> QED BY <1>5, <1>9, <1>10, Quiet, TabFacts, EventFacts DEF FindValidRefreshToken, Server, At

LEMMA RefreshFailsKeeps ==
  ASSUME IInv, NEW t \in Tab, RefreshFails(t)
  PROVE  IInv'
<1>1. storage' \in [Browser -> StoreType(Len(grant))]
  BY TabFacts, StorageTypes DEF RefreshFails, clearSessionAndRedirect
<1> QED BY <1>1, FinishKeeps, EventFacts
        DEF RefreshFails, clearSessionAndRedirect, Client, Remote, At

LEMMA LandRefreshKeeps ==
  ASSUME IInv, NEW t \in Tab, LandRefresh(t)
  PROVE  IInv'
<1>1. call[t].token \in 0..Len(grant) /\ call[t].token # 0
  BY TabFacts DEF LandRefresh, At, Sound, CallType
<1>2. storage' \in [Browser -> StoreType(Len(grant))]
  BY <1>1, TabFacts, StorageTypes DEF LandRefresh
<1>3. PICK c : c = [call[t] EXCEPT !.stage = "retried", !.renew = 0, !.checked = 0]
  OBVIOUS
<1>4. c \in CallType(Len(grant)) /\ c.stage = "retried" /\ c.token = call[t].token
  <2>1. 0 \in 0..Len(grant) /\ 0 \in Nat /\ "retried" \in Stage
    BY TabFacts DEF Stage
  <2> QED BY <1>3, <2>1, TabFacts DEF CallType
<1>5. Sound(c)
  BY <1>1, <1>4 DEF Sound
<1>6. call' = [call EXCEPT ![t] = c]
  BY <1>3, TabFacts DEF LandRefresh, CallType
<1> QED BY <1>2, <1>4, <1>5, <1>6, Quiet, EventFacts DEF LandRefresh, Client, Remote, At

LEMMA LeaveChangedKeeps ==
  ASSUME IInv, NEW t \in Tab, LeaveChanged(t)
  PROVE  IInv'
<1>1. storage' \in [Browser -> StoreType(Len(grant))]
  BY TabFacts, StorageTypes DEF LeaveChanged
<1> QED BY <1>1, FinishKeeps, EventFacts DEF LeaveChanged, Client, Remote, At

-----------------------------------------------------------------------------
(* One lemma per step: the steps of auth-service that change what it keeps. *)

LEMMA CallTyped ==
  ASSUME IInv, NEW t \in Tab, NEW n \in Nat, Len(grant) <= n, NEW c \in CallType(n),
         call' = [call EXCEPT ![t] = c]
  PROVE  /\ call' \in [Tab -> CallType(n)] /\ call'[t] = c
         /\ \A s \in Tab : s # t => call'[s] = call[s]
<1>1. call \in [Tab -> CallType(n)]
  BY TabFacts, Growing
<1> QED BY <1>1

LEMMA RevokingKept ==
  ASSUME NEW t \in Tab, \A s \in Tab : s # t => call'[s] = call[s],
         NEW u, call[t].stage = "revoking" => call[t].user # u, Revoking(u)
  PROVE  Revoking(u)'
<1>1. PICK s \in Tab : call[s].stage = "revoking" /\ call[s].user = u
  BY DEF Revoking, At
<1>2. s # t
  BY <1>1
<1> QED BY <1>1, <1>2 DEF Revoking, At

LEMMA Opening ==
  ASSUME IInv, NEW t \in Tab, NEW g \in GrantType, NEW c \in CallType(Len(grant) + 1),
         call[t].stage # "revoking",
         grant' = Append(grant, g), call' = [call EXCEPT ![t] = c],
         \/ c.stage = "answered" /\ c.token = Len(grant) + 1 /\ g.user = c.user
         \/ /\ c.stage = "refreshed" /\ c.token = Len(grant) + 1 /\ c.renew \in DOMAIN grant
            /\ grant[c.renew].revoked /\ g.user = grant[c.renew].user,
         g.password < password[g.user] => g.spared \/ Revoking(g.user),
         UNCHANGED <<storage, browser, password, active, sweeps, events>>
  PROVE  IInv'
<1>1. grant \in Seq(GrantType) /\ Len(grant) \in Nat /\ DOMAIN grant = 1..Len(grant)
  BY GrantFacts DEF IInv
<1>2. /\ grant' \in Seq(GrantType) /\ Len(grant') = Len(grant) + 1
      /\ DOMAIN grant' = 1..(Len(grant) + 1)
      /\ \A i \in DOMAIN grant : grant'[i] = grant[i]
      /\ grant'[Len(grant) + 1] = g
  BY <1>1
<1>3. /\ call' \in [Tab -> CallType(Len(grant'))] /\ call'[t] = c
      /\ \A s \in Tab : s # t => call'[s] = call[s]
  <2>1. Len(grant) + 1 \in Nat /\ Len(grant) <= Len(grant) + 1
    BY <1>1
  <2> QED BY <1>2, <2>1, CallTyped
<1>4. TypeOK'
  <2>1. storage' \in [Browser -> StoreType(Len(grant'))]
    BY <1>1, <1>2, Growing, Types DEF IInv
  <2> QED BY <1>2, <1>3, <2>1, Types, TypesPrimed DEF IInv
<1>5. GrantsForward
  BY <1>1, <1>2 DEF GrantsForward
<1>6. \A u \in User : Revoking(u) => Revoking(u)'
  BY <1>3, RevokingKept
<1>7. SweepsForward
  BY <1>6 DEF SweepsForward, IInv, TypeOK
<1>8. ASSUME NEW i \in DOMAIN grant', i \notin DOMAIN grant PROVE GrantOK(i)'
  <2>1. grant'[i] = g /\ g.user \in User
    BY <1>1, <1>2, <1>8 DEF GrantType
  <2>2. PICK u \in User : u = g.user
    BY <2>1
  <2>3. g.password < password[u] => g.spared \/ Revoking(u)'
    BY <1>6, <2>2
  <2> QED BY <2>1, <2>2, <2>3 DEF GrantOK, Revoking, At
<1>9. Sound(c)'
  <2>1. grant'[c.token] = g \/ c.stage \notin {"answered", "refreshed"}
    BY <1>2
  <2>2. c.token # 0 /\ (c.stage = "refreshed" => c.renew # 0 /\ grant'[c.renew] = grant[c.renew])
    BY <1>1, <1>2
  <2>3. c.stage = "answered" => c.user \in User
    BY DEF GrantType
  <2> QED BY <2>1, <2>2, <2>3 DEF Sound
<1>10. Sound(call[t])'
  BY <1>3, <1>9, SoundNamed
<1> QED BY <1>3, <1>4, <1>5, <1>7, <1>8, <1>10, StepKeeps

LEMMA OpenSessionKeeps ==
  ASSUME IInv, NEW t \in Tab, OpenSession(t)
  PROVE  IInv'
<1>1. PICK d \in CallType(Len(grant)) : d = call[t] /\ Sound(d) /\ d.stage = "admitted"
  BY TabFacts DEF OpenSession, At
<1>2. PICK g : g = Grant(d.user, d.version, d.checked # sweeps[d.user])
  OBVIOUS
<1>3. PICK c : c = [d EXCEPT !.stage = "answered", !.token = Len(grant) + 1]
  OBVIOUS
<1>4. d.user \in User /\ InTime(d.user, d.version, d.checked)
  BY <1>1 DEF Sound
<1>5. d.version \in Nat /\ d.checked \in Nat /\ sweeps[d.user] \in Nat
  BY <1>1, <1>4 DEF CallType, IInv, TypeOK
<1>6. /\ g \in GrantType /\ g.user = d.user /\ g.password = d.version
      /\ g.spared = (d.checked # sweeps[d.user])
  BY <1>2, <1>4, <1>5 DEF Grant, GrantType
<1>7. Len(grant) \in Nat /\ CallType(Len(grant)) \subseteq CallType(Len(grant) + 1)
  BY TabFacts, Growing
<1>8. Len(grant) + 1 \in 0..(Len(grant) + 1) /\ "answered" \in Stage
  BY <1>7 DEF Stage
<1>9. /\ c \in CallType(Len(grant) + 1)
      /\ c.stage = "answered" /\ c.token = Len(grant) + 1 /\ c.user = d.user
  BY <1>1, <1>3, <1>7, <1>8 DEF CallType
<1>10. g.password < password[g.user] => g.spared \/ Revoking(g.user)
  <2>1. d.checked = sweeps[d.user] => ~(d.checked < sweeps[d.user])
    BY <1>5
  <2>2. d.version < password[d.user] => d.checked # sweeps[d.user] \/ Revoking(d.user)
    BY <1>4, <2>1 DEF InTime
  <2> QED BY <1>6, <2>2
<1>11. call' = [call EXCEPT ![t] = c] /\ grant' = Append(grant, g)
  BY <1>1, <1>2, <1>3, TabFacts DEF OpenSession, CallType
<1>12. /\ call[t].stage # "revoking"
       /\ UNCHANGED <<storage, browser, password, active, sweeps, events>>
  BY <1>1 DEF OpenSession, Server
<1>13. c.stage = "answered" /\ c.token = Len(grant) + 1 /\ g.user = c.user
  BY <1>6, <1>9
<1> QED BY <1>6, <1>9, <1>10, <1>11, <1>12, <1>13, Opening

LEMMA CreateRefreshTokenKeeps ==
  ASSUME IInv, NEW t \in Tab, CreateRefreshToken(t)
  PROVE  IInv'
<1>1. PICK d \in CallType(Len(grant)) : d = call[t] /\ Sound(d) /\ d.stage = "rotated"
  BY TabFacts DEF CreateRefreshToken, At
<1>2. PICK i \in DOMAIN grant : i = d.renew
  BY <1>1, GrantFacts DEF Sound, CallType, IInv
<1>3. PICK old \in GrantType : old = grant[i]
  BY GrantFacts DEF IInv
<1>4. PICK g : g = Grant(old.user, old.password, old.spared \/ d.checked # sweeps[old.user])
  OBVIOUS
<1>5. PICK c : c = [d EXCEPT !.stage = "refreshed", !.token = Len(grant) + 1]
  OBVIOUS
<1>6. old.spared \/ InTime(old.user, old.password, d.checked)
  BY <1>1, <1>2, <1>3 DEF Sound
<1>7. /\ old.user \in User /\ old.password \in Nat /\ d.checked \in Nat
      /\ old.spared \in BOOLEAN /\ sweeps[old.user] \in Nat
  BY <1>1, <1>3 DEF CallType, GrantType, IInv, TypeOK
<1>8. /\ g \in GrantType /\ g.user = old.user /\ g.password = old.password
      /\ g.spared = (old.spared \/ d.checked # sweeps[old.user])
  BY <1>4, <1>7 DEF Grant, GrantType
<1>9. Len(grant) \in Nat /\ CallType(Len(grant)) \subseteq CallType(Len(grant) + 1)
  BY TabFacts, Growing
<1>10. Len(grant) + 1 \in 0..(Len(grant) + 1) /\ "refreshed" \in Stage
  BY <1>9 DEF Stage
<1>11. /\ c \in CallType(Len(grant) + 1)
       /\ c.stage = "refreshed" /\ c.token = Len(grant) + 1 /\ c.renew = i
  BY <1>1, <1>2, <1>5, <1>9, <1>10 DEF CallType
<1>12. grant[i].revoked
  BY <1>1, <1>2 DEF Sound
<1>13. g.password < password[g.user] => g.spared \/ Revoking(g.user)
  <2>1. d.checked = sweeps[old.user] => ~(d.checked < sweeps[old.user])
    BY <1>7
  <2>2. old.password < password[old.user] =>
          old.spared \/ d.checked # sweeps[old.user] \/ Revoking(old.user)
    BY <1>6, <2>1 DEF InTime
  <2> QED BY <1>8, <2>2
<1>14. call' = [call EXCEPT ![t] = c] /\ grant' = Append(grant, g)
  BY <1>1, <1>2, <1>3, <1>4, <1>5, TabFacts DEF CreateRefreshToken, CallType
<1>15. /\ call[t].stage # "revoking"
       /\ UNCHANGED <<storage, browser, password, active, sweeps, events>>
  BY <1>1 DEF CreateRefreshToken, Server
<1>16. /\ c.stage = "refreshed" /\ c.token = Len(grant) + 1 /\ c.renew \in DOMAIN grant
       /\ grant[c.renew].revoked /\ g.user = grant[c.renew].user
  BY <1>3, <1>8, <1>11, <1>12
<1> QED BY <1>8, <1>11, <1>13, <1>14, <1>15, <1>16, Opening

\* What is kept of the grants changes, but none is added.
LEMMA Changing ==
  ASSUME IInv, NEW t \in Tab, NEW d, d = call[t], NEW c \in CallType(Len(grant)),
         call' = [call EXCEPT ![t] = c],
         grant' \in Seq(GrantType), Len(grant') = Len(grant),
         \A i \in DOMAIN grant :
           /\ grant'[i].user = grant[i].user /\ grant'[i].password = grant[i].password
           /\ grant[i].revoked => grant'[i].revoked
           /\ grant[i].spared => grant'[i].spared,
         password' \in [User -> Nat], sweeps' \in [User -> Nat], SweepsForward,
         Sound(d)' => Sound(c)',
         UNCHANGED <<storage, browser, active, events>>
  PROVE  IInv'
<1>1. grant \in Seq(GrantType) /\ Len(grant) \in Nat /\ DOMAIN grant = 1..Len(grant)
  BY GrantFacts DEF IInv
<1>2. DOMAIN grant' = DOMAIN grant
  BY <1>1
<1>3. /\ call' \in [Tab -> CallType(Len(grant'))] /\ call'[t] = c
      /\ \A s \in Tab : s # t => call'[s] = call[s]
  <2>1. Len(grant) <= Len(grant)
    BY <1>1
  <2>2. /\ call' \in [Tab -> CallType(Len(grant))] /\ call'[t] = c
        /\ \A s \in Tab : s # t => call'[s] = call[s]
    BY <1>1, <2>1, CallTyped
  <2> QED BY <2>2
<1>4. TypeOK'
  BY <1>3, Types, TypesPrimed DEF IInv
<1>5. GrantsForward
  BY <1>1 DEF GrantsForward
<1>6. d \in CallType(Len(grant)) /\ Sound(d)
  BY TabFacts
<1>7. Sound(d)'
  BY <1>4, <1>5, <1>6, SoundKept DEF IInv
<1>8. Sound(call[t])'
  BY <1>3, <1>7, SoundNamed
<1> QED BY <1>2, <1>3, <1>4, <1>5, <1>8, StepKeeps

LEMMA RevokeRefreshTokenKeeps ==
  ASSUME IInv, NEW t \in Tab, RevokeRefreshToken(t)
  PROVE  IInv'
<1>1. PICK d \in CallType(Len(grant)) : d = call[t] /\ Sound(d) /\ d.stage = "found"
  BY TabFacts DEF RevokeRefreshToken, At
<1>2. PICK c : c = [d EXCEPT !.stage = "rotated"]
  OBVIOUS
<1>3. PICK i \in DOMAIN grant : i = d.renew
  BY <1>1, GrantFacts DEF Sound, CallType, IInv
<1>4. /\ c \in CallType(Len(grant)) /\ c.stage = "rotated" /\ c.renew = i
      /\ c.checked = d.checked
  BY <1>1, <1>2, <1>3 DEF CallType, Stage
<1>5. call' = [call EXCEPT ![t] = c] /\ \A s \in Tab : s # t => call'[s] = call[s]
  BY <1>1, <1>2, TabFacts DEF RevokeRefreshToken, Go
<1>6. grant \in Seq(GrantType) /\ Len(grant) \in Nat /\ DOMAIN grant = 1..Len(grant)
  BY GrantFacts DEF IInv
<1>7. [grant[i] EXCEPT !.revoked = TRUE] \in GrantType
  BY GrantFacts DEF IInv, GrantType
<1>8. grant' = [grant EXCEPT ![i] = [grant[i] EXCEPT !.revoked = TRUE]]
  BY <1>1, <1>3, <1>6 DEF RevokeRefreshToken
<1>9. grant' \in Seq(GrantType) /\ Len(grant') = Len(grant)
  BY <1>6, <1>7, <1>8
<1>10. /\ \A j \in DOMAIN grant :
            /\ grant'[j].user = grant[j].user /\ grant'[j].password = grant[j].password
            /\ grant[j].revoked => grant'[j].revoked
            /\ grant[j].spared => grant'[j].spared
       /\ grant'[i].revoked
  BY <1>6, <1>8, GrantFacts DEF IInv, GrantType
<1>11. \A u \in User : Revoking(u) => Revoking(u)'
  BY <1>1, <1>5, RevokingKept
<1>12. SweepsForward
  <2>1. password' = password /\ sweeps' = sweeps /\ \A u \in User : sweeps[u] \in Nat
    BY DEF RevokeRefreshToken, IInv, TypeOK
  <2> QED BY <1>11, <2>1 DEF SweepsForward
<1>13. Sound(d)' => Sound(c)'
  BY <1>1, <1>3, <1>4, <1>10 DEF Sound
<1>14. /\ password' \in [User -> Nat] /\ sweeps' \in [User -> Nat]
       /\ UNCHANGED <<storage, browser, active, events>>
  BY DEF RevokeRefreshToken, Server, IInv, TypeOK
<1> QED BY <1>1, <1>4, <1>5, <1>9, <1>10, <1>12, <1>13, <1>14, Changing

LEMMA UpdatePasswordKeeps ==
  ASSUME IInv, NEW t \in Tab, UpdatePassword(t)
  PROVE  IInv'
<1>1. PICK d \in CallType(Len(grant)) : d = call[t] /\ Sound(d) /\ d.stage = "changing"
  BY TabFacts DEF UpdatePassword, At
<1>2. PICK c : c = [d EXCEPT !.stage = "revoking"]
  OBVIOUS
<1>3. /\ c \in CallType(Len(grant)) /\ c.stage = "revoking" /\ c.user = d.user
      /\ d.user \in User
  BY <1>1, <1>2 DEF CallType, Stage, Sound
<1>4. /\ call' = [call EXCEPT ![t] = c] /\ call'[t] = c
      /\ \A s \in Tab : s # t => call'[s] = call[s]
  BY <1>1, <1>2, TabFacts DEF UpdatePassword, Go
<1>5. \A u \in User : Revoking(u) => Revoking(u)'
  BY <1>1, <1>4, RevokingKept
<1>6. Revoking(d.user)'
  BY <1>3, <1>4 DEF Revoking, At
<1>7. /\ password' \in [User -> Nat]
      /\ \A u \in User : u # d.user => password'[u] = password[u]
  BY <1>1, <1>3 DEF UpdatePassword, IInv, TypeOK
<1>8. SweepsForward
  <2>1. \A u \in User : password'[u] = password[u] \/ Revoking(u)'
    BY <1>6, <1>7
  <2> QED BY <1>5, <2>1 DEF UpdatePassword, SweepsForward, IInv, TypeOK
<1>9. Sound(d)' => Sound(c)'
  BY <1>3 DEF Sound
<1>10. /\ sweeps' \in [User -> Nat] /\ grant' = grant /\ grant \in Seq(GrantType)
       /\ UNCHANGED <<storage, browser, active, events>>
  BY GrantFacts DEF UpdatePassword, Server, IInv, TypeOK
<1> QED BY <1>1, <1>3, <1>4, <1>7, <1>8, <1>9, <1>10, Changing

LEMMA RevokeKeeps ==
  ASSUME IInv, NEW t \in Tab, Revoke(t)
  PROVE  IInv'
<1>1. PICK d \in CallType(Len(grant)) : d = call[t] /\ Sound(d) /\ d.stage = "revoking"
  BY TabFacts DEF Revoke, At
<1>2. PICK c : c = [d EXCEPT !.stage = "changed", !.user = Nobody]
  OBVIOUS
<1>3. c \in CallType(Len(grant)) /\ c.stage = "changed"
  BY <1>1, <1>2 DEF CallType, Stage
<1>4. d.user \in User
  BY <1>1 DEF Sound
<1>5. call' = [call EXCEPT ![t] = c] /\ \A s \in Tab : s # t => call'[s] = call[s]
  BY <1>1, <1>2, TabFacts DEF Revoke, CallType
<1>6. grant \in Seq(GrantType) /\ Len(grant) \in Nat /\ DOMAIN grant = 1..Len(grant)
  BY GrantFacts DEF IInv
<1>7. ASSUME NEW i \in DOMAIN grant
      PROVE  /\ [grant[i] EXCEPT !.revoked = TRUE] \in GrantType
             /\ [grant[i] EXCEPT !.spared = TRUE] \in GrantType
  BY GrantFacts DEF IInv, GrantType
<1>8. RevokeAllForUser(d.user) \/ RevocationFails(d.user)
  BY <1>1 DEF Revoke
<1>9. DOMAIN grant' = 1..Len(grant) /\ \A i \in DOMAIN grant : grant'[i] \in GrantType
  BY <1>6, <1>7, <1>8, GrantFacts DEF RevokeAllForUser, RevocationFails, IInv
<1>10. grant' \in Seq(GrantType) /\ Len(grant') = Len(grant)
  <2>1. \A i \in 1..Len(grant) : grant'[i] \in GrantType
    BY <1>6, <1>9
  <2>2. \E f : grant' = [i \in 1..Len(grant) |-> f[i]]
    BY <1>6, <1>8 DEF RevokeAllForUser, RevocationFails
  <2>3. grant' \in [1..Len(grant) -> GrantType]
    BY <1>9, <2>1, <2>2
  <2> QED BY <1>6, <2>3
<1>11. \A i \in DOMAIN grant :
         /\ grant'[i].user = grant[i].user /\ grant'[i].password = grant[i].password
         /\ grant[i].revoked => grant'[i].revoked
         /\ grant[i].spared => grant'[i].spared
         /\ grant[i].user = d.user => grant'[i].revoked \/ grant'[i].spared
  BY <1>8, GrantFacts DEF RevokeAllForUser, RevocationFails, IInv, GrantType
<1>12. /\ sweeps' \in [User -> Nat] /\ sweeps[d.user] < sweeps'[d.user]
       /\ \A u \in User : sweeps[u] \in Nat /\ (u # d.user => sweeps'[u] = sweeps[u])
  BY <1>1, <1>4 DEF Revoke, IInv, TypeOK
<1>13. \A u \in User : Revoking(u) /\ u # d.user => Revoking(u)'
  BY <1>1, <1>5, RevokingKept
<1>14. SweepsForward
  <2> SUFFICES ASSUME NEW u \in User
               PROVE  /\ sweeps[u] <= sweeps'[u]
                      /\ password'[u] = password[u]
                      /\ Revoking(u) => Revoking(u)' \/ sweeps[u] < sweeps'[u]
                      /\ sweeps[u] < sweeps'[u] =>
                           \A i \in DOMAIN grant :
                             grant[i].user = u => grant'[i].revoked \/ grant'[i].spared
    BY DEF SweepsForward
  <2>1. password' = password
    BY DEF Revoke
  <2>2. CASE u = d.user
    BY <1>11, <1>12, <2>1, <2>2
  <2>3. CASE u # d.user
    BY <1>12, <1>13, <2>1, <2>3
  <2> QED BY <2>2, <2>3
<1>15. Sound(d)' => Sound(c)'
  BY <1>3 DEF Sound
<1>16. password' \in [User -> Nat] /\ UNCHANGED <<storage, browser, active, events>>
  BY DEF Revoke, Server, IInv, TypeOK
<1> QED BY <1>1, <1>3, <1>5, <1>10, <1>11, <1>12, <1>14, <1>15, <1>16, Changing

\* A step that changes nothing the requests are judged by.
LEMMA AroundKeeps ==
  ASSUME IInv, UNCHANGED <<browser, storage, call, password, sweeps>>, active' \subseteq User,
         events' \in 0..MaxEvents, grant' \in Seq(GrantType), Len(grant') = Len(grant),
         \A i \in DOMAIN grant :
           /\ grant'[i].user = grant[i].user /\ grant'[i].password = grant[i].password
           /\ grant[i].revoked => grant'[i].revoked
           /\ grant[i].spared => grant'[i].spared
  PROVE  IInv'
<1>1. grant \in Seq(GrantType) /\ Len(grant) \in Nat /\ DOMAIN grant = 1..Len(grant)
  BY GrantFacts DEF IInv
<1>2. DOMAIN grant' = DOMAIN grant
  BY <1>1
<1>3. TypeOK'
  BY Types, TypesPrimed DEF IInv
<1>4. GrantsForward
  BY <1>1 DEF GrantsForward
<1>5. \A u \in User : Revoking(u) => Revoking(u)'
  BY DEF Revoking, At
<1>6. SweepsForward
  <2>1. \A u \in User : sweeps[u] \in Nat
    BY DEF IInv, TypeOK
  <2> QED BY <1>5, <2>1 DEF SweepsForward
<1> QED BY <1>2, <1>3, <1>4, <1>6, StepKeeps

LEMMA ExpireKeeps ==
  ASSUME IInv, Expire
  PROVE  IInv'
<1>1. grant \in Seq(GrantType) /\ Len(grant) \in Nat /\ DOMAIN grant = 1..Len(grant)
  BY GrantFacts DEF IInv
<1>2. grant' = [i \in 1..Len(grant) |-> [grant[i] EXCEPT !.expired = TRUE]]
  BY <1>1 DEF Expire
<1>3. \A i \in DOMAIN grant : [grant[i] EXCEPT !.expired = TRUE] \in GrantType
  BY GrantFacts DEF IInv, GrantType
<1>4. grant' \in [1..Len(grant) -> GrantType]
  BY <1>1, <1>2, <1>3
<1>5. grant' \in Seq(GrantType) /\ Len(grant') = Len(grant)
  BY <1>1, <1>4
<1>6. \A i \in DOMAIN grant :
        /\ grant'[i].user = grant[i].user /\ grant'[i].password = grant[i].password
        /\ grant[i].revoked => grant'[i].revoked
        /\ grant[i].spared => grant'[i].spared
  BY <1>1, <1>2, GrantFacts DEF IInv, GrantType
<1>7. active' \subseteq User /\ events' \in 0..MaxEvents
  BY EventFacts DEF Expire, IInv, TypeOK
<1> QED BY <1>5, <1>6, <1>7, AroundKeeps DEF Expire

LEMMA SetUserStatusKeeps ==
  ASSUME IInv, NEW u \in User, SetUserStatus(u)
  PROVE  IInv'
<1>1. active' \subseteq User /\ events' \in 0..MaxEvents
  BY EventFacts DEF SetUserStatus, IInv, TypeOK
<1> QED BY <1>1, GrantFacts, AroundKeeps DEF SetUserStatus, IInv

LEMMA ProceedKeeps ==
  ASSUME IInv, NEW t \in Tab, Proceed(t)
  PROVE  IInv'
  BY CheckCredentialsKeeps, OpenSessionKeeps, LoginFailsKeeps, LandLoginKeeps, ServeKeeps,
     RefuseKeeps, CallFailsKeeps, FindValidRefreshTokenKeeps, RevokeRefreshTokenKeeps,
     CreateRefreshTokenKeeps, RefreshFailsKeeps, LandRefreshKeeps, UpdatePasswordKeeps,
     RevokeKeeps, LeaveChangedKeeps
  DEF Proceed

LEMMA StepOK == IInv /\ [Next]_vars => IInv'
<1> SUFFICES ASSUME IInv, [Next]_vars PROVE IInv'
  OBVIOUS
<1>1. CASE UNCHANGED vars
  BY <1>1, GrantFacts, EventFacts, AroundKeeps DEF vars, IInv, TypeOK
<1>2. CASE Next
  <2>1. ASSUME NEW t \in Tab,
               \/ Proceed(t) \/ StartLoad(t) \/ StartChange(t) \/ handleLogout(t)
               \/ \E u \in User : SubmitLogin(t, u) \/ SubmitReset(t, u)
        PROVE  IInv'
    BY <2>1, ProceedKeeps, StartLoadKeeps, StartChangeKeeps, handleLogoutKeeps,
       SubmitLoginKeeps, SubmitResetKeeps
  <2>2. CASE Expire
    BY <2>2, ExpireKeeps
  <2>3. CASE \E u \in User : SetUserStatus(u)
    BY <2>3, SetUserStatusKeeps
  <2> QED BY <1>2, <2>1, <2>2, <2>3 DEF Next
<1> QED BY <1>1, <1>2

-----------------------------------------------------------------------------
(* The theorems.                                                            *)

\* The inductive invariant holds in every reachable state.
THEOREM IInvHolds == Spec => []IInv
  BY InitOK, StepOK, PTL DEF Spec

\* Every variable keeps its type: what browsers and requests hold are grants that
\* auth-service has handed out.
THEOREM SessionTypeCorrect == Spec => []TypeOK
<1>1. IInv => TypeOK
  BY DEF IInv
<1> QED BY <1>1, IInvHolds, PTL

\* No session outlives the password that opened it, except through a request that was
\* under way while its tokens were revoked, or while the revocation is still to come.
THEOREM OldPasswordsDoNotLast == Spec => []SurvivorsWereUnderWay
<1>1. IInv => SurvivorsWereUnderWay
  BY DEF IInv, GrantsOK, GrantOK, Revoking, SurvivorsWereUnderWay
<1> QED BY <1>1, IInvHolds, PTL

\* The refresh token that stays in the browser after a refresh is used up.
THEOREM SessionsAreRenewedOnce == Spec => RenewedOnce
<1>1. ASSUME IInv, NEW t \in Tab, At(t, {"refreshed"}), call'[t].stage = "retried",
             ~LateRefresh(t)
      PROVE  grant[Stored(t).refresh].revoked
  <2>1. Stored(t).refresh = call[t].renew
    BY <1>1 DEF LateRefresh
  <2> QED BY <1>1, <2>1, TabFacts DEF Sound, At
<1>2. IInv => \A t \in Tab :
        At(t, {"refreshed"}) /\ call'[t].stage = "retried" /\ ~LateRefresh(t) =>
          grant[Stored(t).refresh].revoked
  BY <1>1
<1> QED BY <1>2, IInvHolds, PTL DEF RenewedOnce

\* How a step may touch the storage and the users of the grants.
LEMMA StorageSteps ==
  ASSUME IInv, [Next]_vars
  PROVE  \/ storage' = storage /\ \A i \in DOMAIN grant : grant'[i].user = grant[i].user
         \/ grant' = grant /\ \E t \in Tab :
              clearAuthSession(browser[t]) \/ LandLogin(t) \/ LandRefresh(t)
<1> DEFINE Kept == \A i \in DOMAIN grant : grant'[i].user = grant[i].user
<1>1. grant \in Seq(GrantType) /\ Len(grant) \in Nat /\ DOMAIN grant = 1..Len(grant)
  BY GrantFacts DEF IInv
<1>2. ASSUME NEW t \in Tab, OpenSession(t) \/ CreateRefreshToken(t) PROVE storage' = storage /\ Kept
  <2>1. PICK g : grant' = Append(grant, g)
    BY <1>2 DEF OpenSession, CreateRefreshToken
  <2>2. \A i \in DOMAIN grant : grant'[i] = grant[i]
    BY <1>1, <2>1
  <2> QED BY <1>2, <2>2 DEF OpenSession, CreateRefreshToken, Server
<1>3. ASSUME NEW t \in Tab, RevokeRefreshToken(t) PROVE storage' = storage /\ Kept
  BY <1>1, <1>3, GrantFacts DEF RevokeRefreshToken, Server, IInv, GrantType
<1>4. ASSUME NEW t \in Tab, Revoke(t) PROVE storage' = storage /\ Kept
  <2>1. \E u : RevokeAllForUser(u) \/ RevocationFails(u)
    BY <1>4 DEF Revoke
  <2>2. Kept
    BY <2>1, GrantFacts DEF RevokeAllForUser, RevocationFails, IInv, GrantType
  <2> QED BY <1>4, <2>2 DEF Revoke, Server
<1>5. ASSUME Expire PROVE storage' = storage /\ Kept
  BY <1>5, GrantFacts DEF Expire, IInv, GrantType
<1>6. ASSUME NEW t \in Tab,
             \/ CheckCredentials(t) \/ Serve(t) \/ FindValidRefreshToken(t) \/ UpdatePassword(t)
             \/ LoginFails(t) \/ CallFails(t) \/ StartLoad(t) \/ StartChange(t)
             \/ \E u \in User : SubmitLogin(t, u) \/ SubmitReset(t, u)
      PROVE  storage' = storage /\ grant' = grant
  BY <1>6 DEF CheckCredentials, Serve, FindValidRefreshToken, UpdatePassword, LoginFails, CallFails,
     StartLoad, StartChange, Send, SubmitLogin, SubmitReset, Server, Client, Remote
<1>7. ASSUME NEW t \in Tab, handleLogout(t) \/ RefreshFails(t) \/ LeaveChanged(t) \/ Refuse(t)
      PROVE  grant' = grant /\ (storage' = storage \/ clearAuthSession(browser[t]))
  BY <1>7 DEF handleLogout, RefreshFails, LeaveChanged, Refuse, clearSessionAndRedirect,
     tryRefreshToken, Client, Remote
<1>8. ASSUME NEW t \in Tab, LandLogin(t) \/ LandRefresh(t) PROVE grant' = grant
  BY <1>8 DEF LandLogin, LandRefresh, Client, Remote
<1>9. ASSUME NEW u \in User, SetUserStatus(u) PROVE storage' = storage /\ grant' = grant
  BY <1>9 DEF SetUserStatus
<1>10. CASE UNCHANGED vars
  BY <1>10 DEF vars
<1>11. CASE Next
  <2>1. ASSUME NEW t \in Tab, Proceed(t)
        PROVE  \/ storage' = storage /\ Kept
               \/ grant' = grant /\
                    (clearAuthSession(browser[t]) \/ LandLogin(t) \/ LandRefresh(t))
    <3> HIDE DEF Kept
    <3>1. grant' = grant => Kept
      BY DEF Kept
    <3> QED BY <2>1, <3>1, <1>2, <1>3, <1>4, <1>6, <1>7, <1>8 DEF Proceed
  <2>2. ASSUME NEW t \in Tab,
               \/ StartLoad(t) \/ StartChange(t) \/ handleLogout(t)
               \/ \E u \in User : SubmitLogin(t, u) \/ SubmitReset(t, u)
        PROVE  grant' = grant /\ (storage' = storage \/ clearAuthSession(browser[t]))
    BY <2>2, <1>6, <1>7
  <2> QED BY <1>11, <2>1, <2>2, <1>5, <1>9 DEF Next
<1> QED BY <1>10, <1>11

\* The storage of a browser holds one session or none, until a late refresh lands.
THEOREM OnlyLateRefreshesMix == Spec => MixedOnlyByLateRefresh
<1>1. ASSUME IInv, [Next]_vars, NEW b \in Browser, Whole(storage[b]), ~Whole(storage[b])'
      PROVE  \E t \in Tab : browser[t] = b /\ LateRefresh(t)
  <2>1. grant \in Seq(GrantType) /\ Len(grant) \in Nat /\ DOMAIN grant = 1..Len(grant)
    BY <1>1, GrantFacts DEF IInv
  <2>2. PICK s \in StoreType(Len(grant)) : s = storage[b]
    BY <1>1, Types DEF IInv
  <2>3. \/ s = Empty
        \/ /\ s.access \in DOMAIN grant /\ s.refresh \in DOMAIN grant
           /\ s.access # 0 /\ s.refresh # 0
           /\ grant[s.access].user = s.user /\ grant[s.refresh].user = s.user
    BY <1>1, <2>1, <2>2 DEF Whole, StoreType
  <2>4. storage'[b] # s \/ \E i \in DOMAIN grant : grant'[i].user # grant[i].user
    <3> SUFFICES ASSUME storage'[b] = s, \A i \in DOMAIN grant : grant'[i].user = grant[i].user
                 PROVE  FALSE
      OBVIOUS
    <3>1. \/ storage'[b] = Empty
          \/ /\ storage'[b].access # 0 /\ storage'[b].refresh # 0
             /\ grant'[storage'[b].access].user = storage'[b].user
             /\ grant'[storage'[b].refresh].user = storage'[b].user
      BY <2>3
    <3> QED BY <1>1, <3>1 DEF Whole, Empty
  <2>5. PICK t \in Tab : /\ grant' = grant /\ storage'[b] # s
                         /\ clearAuthSession(browser[t]) \/ LandLogin(t) \/ LandRefresh(t)
    BY <1>1, <2>2, <2>4, StorageSteps
  <2>6. browser[t] \in Browser /\ storage \in [Browser -> StoreType(Len(grant))]
    BY <1>1, TabFacts
  <2>7. browser[t] = b
    BY <2>2, <2>5, <2>6 DEF clearAuthSession, LandLogin, saveAuthSession, LandRefresh
  <2>8. CASE clearAuthSession(browser[t])
    <3>1. storage'[b] = Empty
      BY <2>6, <2>7, <2>8 DEF clearAuthSession
    <3> QED BY <1>1, <3>1 DEF Whole, Empty
  <2>9. CASE LandLogin(t)
    <3>1. PICK id \in Nat, u \in User : /\ id = call[t].token /\ u = call[t].user
                                        /\ id # 0 /\ grant[id].user = u
      BY <1>1, <2>9, TabFacts DEF LandLogin, At, Sound, CallType
    <3>2. storage'[b] = [access |-> id, refresh |-> id, user |-> u]
      BY <2>6, <2>7, <2>9, <3>1 DEF LandLogin, saveAuthSession
    <3>3. /\ storage'[b].access # 0 /\ storage'[b].refresh # 0
          /\ grant'[storage'[b].access].user = storage'[b].user
          /\ grant'[storage'[b].refresh].user = storage'[b].user
      BY <2>5, <3>1, <3>2
    <3> QED BY <1>1, <3>3 DEF Whole, Empty
  <2>10. CASE LandRefresh(t)
    <3>1. PICK id \in Nat, i \in Nat : id = call[t].token /\ i = call[t].renew
      BY <1>1, TabFacts DEF CallType
    <3>2. id # 0 /\ i # 0 /\ grant[id].user = grant[i].user /\ At(t, {"refreshed"})
      BY <1>1, <2>10, <3>1, TabFacts DEF LandRefresh, At, Sound
    <3>3. storage'[b] = [s EXCEPT !.access = id]
      BY <2>2, <2>6, <2>7, <2>10, <3>1 DEF LandRefresh
    <3>4. call'[t].stage = "retried"
      BY <1>1, <2>10, TabFacts DEF LandRefresh, CallType
    <3>5. s.refresh # i
      <4> SUFFICES ASSUME s.refresh = i PROVE FALSE
        OBVIOUS
      <4>1. s # Empty
        BY <3>2 DEF Empty
      <4>2. grant[i].user = s.user
        BY <2>3, <4>1
      <4>3. storage'[b].access = id /\ storage'[b].refresh = i /\ storage'[b].user = s.user
        BY <3>3 DEF StoreType
      <4>4. /\ storage'[b].access # 0 /\ storage'[b].refresh # 0
            /\ grant'[storage'[b].access].user = storage'[b].user
            /\ grant'[storage'[b].refresh].user = storage'[b].user
        BY <2>5, <3>2, <4>2, <4>3
      <4> QED BY <1>1, <4>4 DEF Whole, Empty
    <3> QED BY <2>2, <2>7, <3>1, <3>2, <3>4, <3>5 DEF LateRefresh, Stored
  <2> QED BY <2>5, <2>7, <2>8, <2>9, <2>10
<1>2. IInv /\ [Next]_vars => \A b \in Browser :
        Whole(storage[b]) /\ ~Whole(storage[b])' =>
          \E t \in Tab : browser[t] = b /\ LateRefresh(t)
  BY <1>1
<1> QED BY <1>2, IInvHolds, PTL DEF Spec, MixedOnlyByLateRefresh
=============================================================================
