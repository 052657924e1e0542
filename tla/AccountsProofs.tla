--------------------------- MODULE AccountsProofs ---------------------------
(***************************************************************************)
(* Passwords, sessions and reset links of Accounts for any number of       *)
(* browsers, threads, requests and faults.                                 *)
(*                                                                         *)
(* A step is the arrival of a request (which only reads), one of the eight *)
(* commits, a crash or the passing of time.  IInv says what a request in   *)
(* progress carries (RequestsFit, LinkRequestsFit), that an older session  *)
(* has a revocation coming (OlderSessionsEnd), and the properties          *)
(* themselves.  CookiesFit, on top of it, relates the cookies of browsers  *)
(* to the sessions.                                                        *)
(***************************************************************************)
EXTENDS Accounts, TLAPS

(* What a thread serves is a request, or nothing.                          *)
LEMMA Serving ==
  ASSUME TypeOK, NEW t \in Threads, request[t].at # "idle"
  PROVE  request[t] \in Requests
BY DEF TypeOK, Idle

(* What the bounds of the model are.                                       *)
LEMMA Bounds ==
  /\ MaxSessions \in Nat /\ MaxLinks \in Nat /\ MaxPasswords \in Nat
  /\ MaxRefreshes \in Nat /\ MaxRequests \in Nat /\ MaxFaults \in Nat
  /\ MaxSessions > 0
BY AccountsAssumption

(* New rows are well typed, and None is not a row.                         *)
LEMMA NewRowsAreRows ==
  /\ NewUser \in Users /\ NewUser.password = 0
  /\ \A p \in Passwords : user \in Users => NewSession(p) \in Sessions
  /\ None \notin Users /\ None \notin Sessions
  /\ None # "used" /\ None # "unused"
BY AccountsAssumption DEF NewUser, NewUserNamed, Users, NewSession, Sessions, Passwords

(* revoke_all_for_user leaves no active session, and no row disappears.    *)
LEMMA RevokedAllRows ==
  ASSUME TypeOK
  PROVE  /\ RevokedAll \in [Sids -> Sessions \cup {None}]
         /\ \A s \in Sids : ~IsActive(RevokedAll[s])
         /\ \A s \in Sids : sessions[s] # None => RevokedAll[s] # None
         /\ \A s \in Sids : sessions[s] = None => RevokedAll[s] = None
         /\ \A s \in Sids : sessions[s] # None /\ sessions[s].revoked => RevokedAll[s].revoked
<1>1. \A s \in Sids : IsActive(sessions[s]) => sessions[s] \in Sessions
  BY DEF TypeOK, IsActive
<1>2. \A s \in Sids : IsActive(sessions[s]) =>
        /\ RevokedAll[s] = [sessions[s] EXCEPT !.revoked = TRUE]
        /\ RevokedAll[s] \in Sessions
        /\ RevokedAll[s].revoked
  BY <1>1 DEF RevokedAll, Sessions
<1>3. \A s \in Sids : ~IsActive(sessions[s]) => RevokedAll[s] = sessions[s]
  BY DEF RevokedAll
<1>4. \A s \in Sids : RevokedAll[s] \in Sessions \cup {None}
  BY <1>2, <1>3 DEF TypeOK
<1>5. RevokedAll \in [Sids -> Sessions \cup {None}]
  BY <1>4 DEF RevokedAll
<1>6. \A s \in Sids : ~IsActive(RevokedAll[s])
  BY <1>2, <1>3 DEF IsActive
<1>7. \A s \in Sids : sessions[s] # None => RevokedAll[s] # None
  BY <1>2, <1>3, NewRowsAreRows
<1>8. \A s \in Sids : sessions[s] = None => RevokedAll[s] = None
  BY <1>3 DEF IsActive
<1>9. \A s \in Sids : sessions[s] # None /\ sessions[s].revoked => RevokedAll[s].revoked
  BY <1>3 DEF IsActive
<1> QED
  BY <1>5, <1>6, <1>7, <1>8, <1>9

(* What a request is when it begins.                                       *)
Arrival(req) ==
  /\ req \in Requests
  /\ RequestFits(req)
  /\ req.at = "link" => req.links = UnusedLinks
  /\ req.at = "password" => req.links \subseteq UnusedLinks
  /\ req.at = "refresh" =>
       /\ req.browser \in Browsers
       /\ browser[req.browser].token = <<req.sid, sessions[req.sid].rot>>

LEMMA FreshIsRequest ==
  ASSUME NEW kind \in Kinds, NEW at \in Stages, NEW b \in Browsers \cup {None}
  PROVE  /\ Fresh(kind, at, b) \in Requests
         /\ Fresh(kind, at, b).kind = kind
         /\ Fresh(kind, at, b).at = at
         /\ Fresh(kind, at, b).links = {}
BY DEF Fresh, Requests

(* Every arrival but a logout without a session begins a request.          *)
LEMMA ArrivalsBegin ==
  ASSUME TypeOK, AccountFirst, NEW t \in Threads, Arrive(t)
  PROVE  \/ \E b \in Browsers : LogoutDead(t, b)
         \/ \E req : Arrival(req) /\ Begin(t, req)
<1>1. ASSUME NEW b \in Browsers, Register(t, b)
      PROVE  \E req : Arrival(req) /\ Begin(t, req)
  BY <1>1, FreshIsRequest DEF Register, Arrival, RequestFits, Kinds, Stages
<1>2. ASSUME NEW b \in Browsers, Login(t, b)
      PROVE  \E req : Arrival(req) /\ Begin(t, req)
  <2> DEFINE req == [Fresh("login", "login", b) EXCEPT
                       !.password = user.password, !.outdated = user.outdated]
  <2>1. user \in Users
    BY <1>2 DEF Login, TypeOK
  <2>2. req \in Requests /\ req.kind = "login" /\ req.at = "login" /\ req.password \in Passwords
    BY <2>1 DEF Fresh, Requests, Kinds, Stages, Users
  <2>3. Arrival(req)
    BY <1>2, <2>2 DEF Arrival, RequestFits, Login
  <2> QED
    BY <1>2, <2>3 DEF Login
<1>3. ASSUME NEW b \in Browsers, ChangePassword(t, b)
      PROVE  \E req : Arrival(req) /\ Begin(t, req)
  BY <1>3, FreshIsRequest DEF ChangePassword, Arrival, RequestFits, Kinds, Stages
<1>4. \A b \in Browsers : Live(b) # {} => user # None
  BY DEF AccountFirst, Live, IsActive
<1>5. ASSUME NEW b \in Browsers, Refresh(t, b)
      PROVE  \E req : Arrival(req) /\ Begin(t, req)
  <2>1. PICK s \in Live(b) : Begin(t, [Fresh("refresh", "refresh", b) EXCEPT !.sid = s])
    BY <1>5 DEF Refresh
  <2> DEFINE req == [Fresh("refresh", "refresh", b) EXCEPT !.sid = s]
  <2>2. s \in Sids /\ sessions[s] # None /\ user # None
    BY <1>4, <2>1 DEF Live, IsActive
  <2>3. /\ req \in Requests
        /\ req.at = "refresh" /\ req.sid = s /\ req.browser = b
    BY <2>2 DEF Fresh, Requests, Kinds, Stages
  <2>5. browser[b].token = <<s, sessions[s].rot>>
    BY <2>1 DEF Live
  <2>4. Arrival(req)
    BY <2>2, <2>3, <2>5 DEF Arrival, RequestFits
  <2> QED
    BY <2>1, <2>4
<1>6. ASSUME NEW b \in Browsers, Logout(t, b)
      PROVE  \E req : Arrival(req) /\ Begin(t, req)
  <2>1. PICK s \in Live(b) : Begin(t, [Fresh("logout", "logout", b) EXCEPT !.sid = s])
    BY <1>6 DEF Logout
  <2> DEFINE req == [Fresh("logout", "logout", b) EXCEPT !.sid = s]
  <2>2. s \in Sids /\ sessions[s] # None /\ user # None
    BY <1>4, <2>1 DEF Live, IsActive
  <2>3. /\ req \in Requests
        /\ req.at = "logout" /\ req.sid = s
    BY <2>2 DEF Fresh, Requests, Kinds, Stages
  <2>4. Arrival(req)
    BY <2>2, <2>3 DEF Arrival, RequestFits
  <2> QED
    BY <2>1, <2>4
<1>7. ASSUME NEW b \in Browsers, LogoutAll(t, b)
      PROVE  \E req : Arrival(req) /\ Begin(t, req)
  BY <1>7, FreshIsRequest DEF LogoutAll, Arrival, RequestFits, Kinds, Stages
<1>8. ASSUME RequestPasswordReset(t)
      PROVE  \E req : Arrival(req) /\ Begin(t, req)
  <2> DEFINE req == [Fresh("forgot", "link", None) EXCEPT !.links = UnusedLinks]
  <2>1. /\ req \in Requests
        /\ req.at = "link" /\ req.kind = "forgot" /\ req.links = UnusedLinks
    BY DEF Fresh, Requests, Kinds, Stages, UnusedLinks
  <2>2. Arrival(req)
    BY <1>8, <2>1 DEF Arrival, RequestFits, RequestPasswordReset
  <2> QED
    BY <1>8, <2>2 DEF RequestPasswordReset, UnusedLinks
<1>9. ASSUME ResetPassword(t)
      PROVE  \E req : Arrival(req) /\ Begin(t, req)
  <2>1. PICK l \in Links :
          /\ links[l] = "unused"
          /\ Begin(t, [Fresh("reset", "password", None) EXCEPT !.links = {l}])
    BY <1>9 DEF ResetPassword
  <2> DEFINE req == [Fresh("reset", "password", None) EXCEPT !.links = {l}]
  <2>2. /\ req \in Requests
        /\ req.at = "password" /\ req.kind = "reset" /\ req.links = {l}
    BY DEF Fresh, Requests, Kinds, Stages
  <2>3. user # None
    BY <1>9 DEF ResetPassword
  <2>4. Arrival(req)
    BY <2>1, <2>2, <2>3 DEF Arrival, RequestFits, UnusedLinks
  <2> QED
    BY <2>1, <2>4
<1> QED
  BY <1>1, <1>2, <1>3, <1>5, <1>6, <1>7, <1>8, <1>9 DEF Arrive

-----------------------------------------------------------------------------
(* Each step preserves IInv.                                               *)

LEMMA BeginPreserves ==
  ASSUME IInv, NEW t \in Threads, NEW req, Arrival(req), Begin(t, req)
  PROVE  IInv'
<1> USE DEF Begin
<1>1. request' = [request EXCEPT ![t] = req] /\ request[t].at = "idle"
  BY DEF Idle
<1>2. \A u \in Threads : request'[u] = IF u = t THEN req ELSE request[u]
  BY <1>1 DEF IInv, TypeOK
<1>3. TypeOK'
  <2>1. request' \in [Threads -> Requests \cup {Idle}]
    BY <1>1 DEF IInv, TypeOK, Arrival
  <2>2. confused' \subseteq Browsers
    BY DEF IInv, TypeOK, Arrival, Requests
  <2>3. served' \in 0..MaxRequests /\ crossed' \in BOOLEAN /\ shared' \subseteq Links
    BY Bounds DEF IInv, TypeOK, Arrival, Requests
  <2> QED
    BY <2>1, <2>2, <2>3 DEF IInv, TypeOK
<1>4. RequestsFit'
  BY <1>2 DEF IInv, RequestsFit, RequestFits, Arrival
<1>5. AccountFirst' /\ PasswordIsLastSet' /\ ResetLinksAreSingle'
  <2>1. ~crossed' => ~crossed
    BY DEF IInv, TypeOK
  <2> QED
    BY <2>1 DEF IInv, AccountFirst, PasswordIsLastSet, ResetLinksAreSingle
<1>6. OlderSessionsEnd'
  <2>1. \A u \in Threads : request[u].at = "revoke_all" => request'[u].at = "revoke_all"
    BY <1>1, <1>2
  <2> QED
    BY <2>1 DEF IInv, OlderSessionsEnd, IsActive
<1>7. LinkRequestsFit'
  <2>1. UnusedLinks' = UnusedLinks
    BY DEF UnusedLinks
  <2>2. ASSUME ~crossed'
        PROVE  /\ \A u, v \in Threads : request'[u].at = "link" /\ request'[v].at = "link" => u = v
               /\ \A u \in Threads : request'[u].at = "link" => UnusedLinks \subseteq request'[u].links
    <3>1. ~crossed /\ (req.at = "link" => \A u \in Busy : request[u].at # "link")
      BY <2>2 DEF IInv, TypeOK
    <3>2. \A u \in Threads : request[u].at = "link" => u \in Busy
      BY DEF Busy
    <3> QED
      BY <1>2, <3>1, <3>2 DEF IInv, LinkRequestsFit, AskersKnowTheLinks, Arrival
  <2>3. ASSUME NEW l \in Links \ shared'
        PROVE  /\ \A u, v \in Threads : AboutToUse(u, l)' /\ AboutToUse(v, l)' => u = v
               /\ \A u \in Threads : AboutToUse(u, l)' => uses[l] = 0
    <3>1. l \notin shared
      BY <2>3
    <3>2. /\ \A u, v \in Threads : AboutToUse(u, l) /\ AboutToUse(v, l) => u = v
          /\ \A u \in Threads : AboutToUse(u, l) => uses[l] = 0 /\ u \in Busy
      BY <2>3, <3>1 DEF IInv, LinkRequestsFit, UsersAreAlone, AboutToUse, Busy
    <3>3. \A u \in Threads : u # t => (AboutToUse(u, l)' <=> AboutToUse(u, l))
      BY <1>2 DEF AboutToUse
    <3>4. AboutToUse(t, l)' => /\ req.at = "password" /\ l \in req.links
                              /\ uses[l] = 0
      <4>1. l \in UnusedLinks => uses[l] = 0
        BY <2>3 DEF IInv, TypeOK, ResetLinksAreSingle, UnusedLinks
      <4> QED
        BY <1>2, <4>1 DEF AboutToUse, Arrival
    <3>5. AboutToUse(t, l)' => \A u \in Threads : ~AboutToUse(u, l)
      BY <2>3, <3>2, <3>4
    <3> QED
      BY <3>2, <3>3, <3>4, <3>5
  <2> QED
    BY <2>1, <2>2, <2>3 DEF LinkRequestsFit, AskersKnowTheLinks, UsersAreAlone
<1> QED
  BY <1>3, <1>4, <1>5, <1>6, <1>7 DEF IInv

(* A request that ends, or goes to a stage with nothing to carry there,    *)
(* leaves the others as they were.                                         *)
LEMMA Others ==
  ASSUME TypeOK, NEW t \in Threads, NEW req, request' = [request EXCEPT ![t] = req]
  PROVE  \A u \in Threads : request'[u] = IF u = t THEN req ELSE request[u]
BY DEF TypeOK

(* A step that starts no request about links.                              *)
LEMMA LinksKept ==
  ASSUME LinkRequestsFit, UNCHANGED <<crossed, shared>>, UnusedLinks' \subseteq UnusedLinks,
         \A u \in Threads : request'[u].at = "link" => request'[u] = request[u],
         \A u \in Threads : request'[u].at = "password" => request'[u] = request[u],
         \A u \in Threads : request'[u].at = "password" =>
           \A l \in Links : l \in request[u].links /\ l \notin shared => uses'[l] = uses[l]
  PROVE  LinkRequestsFit'
<1>1. AskersKnowTheLinks'
  <2>1. SUFFICES ASSUME ~crossed PROVE AskersKnowTheLinks'
    BY DEF AskersKnowTheLinks
  <2> QED
    BY <2>1 DEF LinkRequestsFit, AskersKnowTheLinks
<1>2. UsersAreAlone'
  <2>1. ASSUME NEW l \in Links \ shared, NEW u \in Threads,
               request'[u].at = "password", l \in request'[u].links
        PROVE  AboutToUse(u, l) /\ uses'[l] = uses[l]
    BY <2>1 DEF AboutToUse
  <2>2. ASSUME NEW l \in Links \ shared
        PROVE  /\ \A t, u \in Threads : AboutToUse(t, l) /\ AboutToUse(u, l) => t = u
               /\ \A t \in Threads : AboutToUse(t, l) => uses[l] = 0
    BY <2>2 DEF LinkRequestsFit, UsersAreAlone
  <2> QED
    BY <2>1, <2>2 DEF UsersAreAlone, AboutToUse
<1> QED
  BY <1>1, <1>2 DEF LinkRequestsFit

(* Cookies alone: a logout without a session, and the end of a CSRF cookie.*)
LEMMA CookiesPreserve ==
  ASSUME IInv, browser' \in [Browsers -> Cookies], confused' \subseteq Browsers,
         served' \in 0..MaxRequests,
         UNCHANGED <<user, sessions, links, request, lastSet, stale, uses,
                     crossed, shared, faults>>
  PROVE  IInv'
<1>1. TypeOK'
  BY DEF IInv, TypeOK
<1>2. RequestsFit' /\ AccountFirst' /\ PasswordIsLastSet' /\ ResetLinksAreSingle'
  BY DEF IInv, RequestsFit, RequestFits, AccountFirst, PasswordIsLastSet, ResetLinksAreSingle
<1>3. OlderSessionsEnd' /\ LinkRequestsFit'
  BY DEF IInv, OlderSessionsEnd, LinkRequestsFit, AskersKnowTheLinks, UsersAreAlone,
         IsActive, AboutToUse, UnusedLinks
<1> QED
  BY <1>1, <1>2, <1>3 DEF IInv

LEMMA LogoutDeadPreserves ==
  ASSUME IInv, NEW t \in Threads, NEW b \in Browsers, LogoutDead(t, b)
  PROVE  IInv'
<1>1. browser' \in [Browsers -> Cookies]
  BY DEF LogoutDead, IInv, TypeOK, NoCookies, Cookies
<1>2. served' \in 0..MaxRequests /\ confused' \subseteq Browsers
  BY Bounds DEF LogoutDead, IInv, TypeOK
<1> QED
  BY <1>1, <1>2, CookiesPreserve DEF LogoutDead

LEMMA CsrfCookieExpiresPreserves ==
  ASSUME IInv, NEW b \in Browsers, CsrfCookieExpires(b)
  PROVE  IInv'
<1>1. browser' \in [Browsers -> Cookies]
  BY DEF CsrfCookieExpires, IInv, TypeOK, Cookies
<1> QED
  BY <1>1, CookiesPreserve DEF CsrfCookieExpires, IInv, TypeOK

(* A request that only ends, in a crash or beside a change of one session. *)
LEMMA EndPreservesLinks ==
  ASSUME IInv, NEW t \in Threads, Ends(t), UNCHANGED <<links, uses, crossed, shared>>
  PROVE  /\ LinkRequestsFit' /\ ResetLinksAreSingle'
         /\ request' \in [Threads -> Requests \cup {Idle}]
         /\ \A u \in Threads : request'[u] = IF u = t THEN Idle ELSE request[u]
<1>1. \A u \in Threads : request'[u] = IF u = t THEN Idle ELSE request[u]
  BY Others DEF Ends, IInv
<1>2. request' \in [Threads -> Requests \cup {Idle}]
  BY DEF Ends, IInv, TypeOK
<1>3. UnusedLinks' = UnusedLinks
  BY DEF UnusedLinks
<1>4. \A u \in Threads : request'[u].at \in {"link", "password"} => request'[u] = request[u]
  BY <1>1 DEF Idle
<1>5. LinkRequestsFit'
  BY <1>3, <1>4, LinksKept DEF IInv
<1>6. ResetLinksAreSingle'
  BY DEF IInv, ResetLinksAreSingle
<1> QED
  BY <1>1, <1>2, <1>5, <1>6

LEMMA CrashPreserves ==
  ASSUME IInv, NEW t \in Threads, Crash(t)
  PROVE  IInv'
<1>1. /\ LinkRequestsFit' /\ ResetLinksAreSingle'
      /\ request' \in [Threads -> Requests \cup {Idle}]
      /\ \A u \in Threads : request'[u] = IF u = t THEN Idle ELSE request[u]
  BY EndPreservesLinks DEF Crash
<1>2. TypeOK'
  BY <1>1, Bounds DEF Crash, IInv, TypeOK
<1>3. RequestsFit'
  BY <1>1 DEF Crash, IInv, RequestsFit, RequestFits, Idle
<1>4. AccountFirst' /\ PasswordIsLastSet'
  BY DEF Crash, IInv, AccountFirst, PasswordIsLastSet
<1>5. OlderSessionsEnd'
  BY DEF Crash, IInv, TypeOK, OlderSessionsEnd
<1> QED
  BY <1>1, <1>2, <1>3, <1>4, <1>5 DEF IInv

-----------------------------------------------------------------------------
(* The commits.                                                            *)

(* A request that goes on to a stage of its own, links left alone.         *)
LEMMA GoesPreservesLinks ==
  ASSUME IInv, NEW t \in Threads, NEW req \in Requests, t \in Busy,
         request' = [request EXCEPT ![t] = req],
         req.at \notin {"link", "password"},
         UNCHANGED <<links, uses, crossed, shared>>
  PROVE  LinkRequestsFit' /\ ResetLinksAreSingle'
<1>1. \A u \in Threads : request'[u] = IF u = t THEN req ELSE request[u]
  BY Others DEF IInv
<1>2. UnusedLinks' = UnusedLinks
  BY DEF UnusedLinks
<1>3. \A u \in Threads : request'[u].at \in {"link", "password"} => request'[u] = request[u]
  BY <1>1
<1>4. LinkRequestsFit'
  BY <1>2, <1>3, LinksKept DEF IInv
<1> QED
  BY <1>4 DEF IInv, ResetLinksAreSingle

LEMMA CommitRegisterPreserves ==
  ASSUME IInv, NEW t \in Threads, CommitRegister(t)
  PROVE  IInv'
<1> USE DEF CommitRegister
<1>0. TypeOK
  BY DEF IInv
<1>1. request[t] \in Requests /\ t \in Busy
  BY Serving DEF IInv, Busy
<1>2. CASE user = None
  <2> DEFINE req == [request[t] EXCEPT !.at = "create", !.password = 0]
  <2>1. /\ req \in Requests
        /\ req.at = "create" /\ req.password = 0 /\ 0 \in Passwords
        /\ req.kind = request[t].kind
    <3>1. 0 \in Passwords
      BY Bounds DEF Passwords
    <3> QED
      BY <1>1, <3>1 DEF Requests, Stages
  <2>2. request' = [request EXCEPT ![t] = req] /\ user' = NewUser
    BY <1>2, <1>1 DEF IInv, TypeOK
  <2>3. \A u \in Threads : request'[u] = IF u = t THEN req ELSE request[u]
    <3> HIDE DEF CommitRegister, req
    <3> QED
      BY <2>2, <1>0, Others
  <2>4. user' \in Users /\ user' # None /\ user'.password = 0
    BY <2>2, NewRowsAreRows
  <2>5. TypeOK'
    BY <2>1, <2>2, <2>4 DEF IInv, TypeOK
  <2>6. RequestsFit'
    <3> SUFFICES ASSUME NEW u \in Threads PROVE RequestFits(request[u])'
      BY DEF RequestsFit
    <3>1. CASE u = t
      BY <3>1, <2>1, <2>3, <2>4 DEF RequestFits
    <3>2. CASE u # t
      <4>1. request'[u] = request[u] /\ RequestFits(request[u])
        BY <3>2, <2>3 DEF IInv, RequestsFit
      <4> QED
        BY <4>1, <2>1, <2>3, <2>4 DEF RequestFits
    <3> QED
      BY <3>1, <3>2
  <2>7. AccountFirst' /\ PasswordIsLastSet'
    BY <1>2, <2>4 DEF IInv, AccountFirst, PasswordIsLastSet
  <2>8. OlderSessionsEnd'
    BY <1>2 DEF IInv, AccountFirst, OlderSessionsEnd, IsActive
  <2>9. LinkRequestsFit' /\ ResetLinksAreSingle'
    BY <1>1, <2>1, <2>2, GoesPreservesLinks
  <2> QED
    BY <2>5, <2>6, <2>7, <2>8, <2>9 DEF IInv
<1>3. CASE user # None
  <2>1. /\ LinkRequestsFit' /\ ResetLinksAreSingle'
        /\ request' \in [Threads -> Requests \cup {Idle}]
        /\ \A u \in Threads : request'[u] = IF u = t THEN Idle ELSE request[u]
    BY <1>3, EndPreservesLinks
  <2>2. TypeOK'
    BY <1>3, <2>1 DEF IInv, TypeOK
  <2>3. RequestsFit'
    BY <1>3, <2>1 DEF IInv, RequestsFit, RequestFits, Idle
  <2>4. AccountFirst' /\ PasswordIsLastSet'
    BY <1>3 DEF IInv, AccountFirst, PasswordIsLastSet
  <2>5. OlderSessionsEnd'
    BY <1>3, <2>1 DEF IInv, OlderSessionsEnd, IsActive
  <2> QED
    BY <2>1, <2>2, <2>3, <2>4, <2>5 DEF IInv
<1> QED
  BY <1>2, <1>3

(* The rehash keeps the password, or is noted as stale.                    *)
LEMMA CommitLoginPreserves ==
  ASSUME IInv, NEW t \in Threads, CommitLogin(t)
  PROVE  IInv'
<1> USE DEF CommitLogin
<1> DEFINE req == [request[t] EXCEPT !.at = "create"]
<1>0. TypeOK
  BY DEF IInv
<1>1. /\ request[t] \in Requests /\ t \in Busy
      /\ user \in Users /\ request[t].password \in Passwords
  BY Serving DEF IInv, TypeOK, Busy, RequestsFit, RequestFits
<1>2. /\ req \in Requests
      /\ req.at = "create" /\ req.password = request[t].password
      /\ req.kind = request[t].kind
  BY <1>1 DEF Requests, Stages
<1>3. request' = [request EXCEPT ![t] = req]
  BY DEF Goes
<1>4. \A u \in Threads : request'[u] = IF u = t THEN req ELSE request[u]
  <2> HIDE DEF CommitLogin, req
  <2> QED
    BY <1>3, <1>0, Others
<1>5. user' \in Users /\ (~stale' => ~stale /\ user'.password = user.password)
  BY <1>1 DEF IInv, TypeOK, Rehashed, RehashedAlways, Users
<1>6. user' # None
  BY <1>5, NewRowsAreRows
<1>7. stale' \in BOOLEAN
  BY DEF IInv, TypeOK
<1>8. TypeOK'
  BY <1>2, <1>3, <1>5, <1>7 DEF IInv, TypeOK
<1>9. RequestsFit'
  <2> SUFFICES ASSUME NEW u \in Threads PROVE RequestFits(request[u])'
    BY DEF RequestsFit
  <2>1. CASE u = t
    BY <2>1, <1>1, <1>2, <1>4, <1>6 DEF RequestFits
  <2>2. CASE u # t
    <3>1. request'[u] = request[u] /\ RequestFits(request[u])
      BY <2>2, <1>4 DEF IInv, RequestsFit
    <3> QED
      BY <3>1, <1>1, <1>2, <1>4, <1>6 DEF RequestFits
  <2> QED
    BY <2>1, <2>2
<1>10. AccountFirst' /\ PasswordIsLastSet'
  BY <1>1, <1>5, <1>6, NewRowsAreRows DEF IInv, AccountFirst, PasswordIsLastSet
<1>11. OlderSessionsEnd'
  BY <1>4, <1>5 DEF IInv, OlderSessionsEnd, IsActive
<1>12. LinkRequestsFit' /\ ResetLinksAreSingle'
  BY <1>1, <1>2, <1>3, GoesPreservesLinks
<1> QED
  BY <1>8, <1>9, <1>10, <1>11, <1>12 DEF IInv

(* A new password: the sessions of older ones are about to be revoked, and *)
(* the link that set it is used.                                           *)
LEMMA CommitPasswordPreserves ==
  ASSUME IInv, NEW t \in Threads, CommitPassword(t)
  PROVE  IInv'
<1> USE DEF CommitPassword
<1> DEFINE req  == [request[t] EXCEPT !.at = "revoke_all", !.password = lastSet + 1]
           used == request[t].links
<1>0. TypeOK
  BY DEF IInv
<1>1. /\ request[t] \in Requests /\ t \in Busy /\ user \in Users
      /\ lastSet + 1 \in Passwords
      /\ request[t].kind = "reset" \/ used = {}
  <2>1. request[t] \in Requests /\ t \in Busy
    BY Serving DEF IInv, Busy
  <2>2. user \in Users /\ (request[t].kind = "reset" \/ used = {})
    BY DEF IInv, TypeOK, RequestsFit, RequestFits
  <2>3. lastSet + 1 \in Passwords
    BY Bounds DEF IInv, TypeOK, Passwords
  <2> QED
    BY <2>1, <2>2, <2>3
<1>2. /\ req \in Requests
      /\ req.at = "revoke_all" /\ req.kind = request[t].kind
      /\ req.password \in Passwords
  BY <1>1 DEF Requests, Stages
<1>3. request' = [request EXCEPT ![t] = req]
  BY <1>1 DEF AfterPassword, IInv, TypeOK
<1>4. \A u \in Threads : request'[u] = IF u = t THEN req ELSE request[u]
  <2> HIDE DEF CommitPassword, req
  <2> QED
    BY <1>3, <1>0, Others
<1>5. user' \in Users /\ user'.password = lastSet'
  BY <1>1 DEF Users
<1>6. user' # None
  BY <1>5, NewRowsAreRows
<1>7. /\ links' \in [Links -> {"unused", "used", None}]
      /\ uses' \in [Links -> Nat]
  BY DEF IInv, TypeOK
<1>8. TypeOK'
  <2>1. request' \in [Threads -> Requests \cup {Idle}]
    <3> HIDE DEF CommitPassword, req
    <3> QED
      BY <1>0, <1>2, <1>3 DEF TypeOK
  <2> HIDE DEF req, used
  <2> QED
    BY <1>0, <1>1, <1>5, <1>7, <2>1 DEF TypeOK
<1>9. RequestsFit'
  <2> SUFFICES ASSUME NEW u \in Threads PROVE RequestFits(request[u])'
    BY DEF RequestsFit
  <2>1. CASE u = t
    BY <2>1, <1>2, <1>4, <1>6 DEF RequestFits
  <2>2. CASE u # t
    <3>1. request'[u] = request[u] /\ RequestFits(request[u])
      BY <2>2, <1>4 DEF IInv, RequestsFit
    <3> QED
      BY <3>1, <1>2, <1>4, <1>6 DEF RequestFits
  <2> QED
    BY <2>1, <2>2
<1>10. AccountFirst' /\ PasswordIsLastSet'
  BY <1>5, <1>6 DEF AccountFirst, PasswordIsLastSet
<1>11. OlderSessionsEnd'
  BY <1>2, <1>4 DEF OlderSessionsEnd
<1>12. LinkRequestsFit' /\ ResetLinksAreSingle'
  <2> HIDE DEF used
  <2>0. PICK mine \in SUBSET Links : mine = request[t].links
    BY <1>1 DEF Requests
  <2>1. /\ \A l \in Links : /\ links'[l] = IF l \in mine THEN "used" ELSE links[l]
                            /\ uses'[l] = IF l \in mine THEN uses[l] + 1 ELSE uses[l]
        /\ UNCHANGED <<crossed, shared>>
        /\ request[t].at = "password"
    <3>1. /\ links' = [l \in Links |-> IF l \in mine THEN "used" ELSE links[l]]
          /\ uses' = [l \in Links |-> IF l \in mine THEN uses[l] + 1 ELSE uses[l]]
          /\ UNCHANGED <<crossed, shared>>
          /\ request[t].at = "password"
      BY <2>0
    <3> HIDE DEF CommitPassword, req
    <3> QED
      BY <3>1
  <2> HIDE DEF CommitPassword, req
  <2>2. \A u \in Threads : request'[u].at \in {"link", "password"} =>
                              u # t /\ request'[u] = request[u]
    BY <1>2, <1>4
  <2>3. \A l \in Links : uses[l] \in Nat
    BY <1>0 DEF TypeOK
  <2>4. \A l \in Links \ shared : l \in mine =>
          uses[l] = 0 /\ \A u \in Threads : AboutToUse(u, l) => u = t
    <3>1. SUFFICES ASSUME NEW l \in Links \ shared, l \in mine
                   PROVE  uses[l] = 0 /\ \A u \in Threads : AboutToUse(u, l) => u = t
      OBVIOUS
    <3>2. AboutToUse(t, l)
      BY <2>0, <2>1, <3>1 DEF AboutToUse
    <3> QED
      BY <3>1, <3>2 DEF IInv, LinkRequestsFit, UsersAreAlone
  <2>5. UnusedLinks' \subseteq UnusedLinks
    <3> QED
      BY <2>1 DEF UnusedLinks
  <2>6. ResetLinksAreSingle'
    <3>1. \A l \in Links : uses'[l] > 0 => links'[l] = "used"
      BY <2>1, <2>3 DEF IInv, ResetLinksAreSingle
    <3>2. \A l \in Links \ shared : uses'[l] <= 1
      BY <2>1, <2>3, <2>4 DEF IInv, ResetLinksAreSingle
    <3>3. \A l \in Links : links'[l] = "unused" => links[l] = "unused"
      BY <2>1
    <3> QED
      BY <2>1, <3>1, <3>2, <3>3 DEF IInv, ResetLinksAreSingle
  <2>7. ASSUME NEW u \in Threads, request'[u].at = "password",
               NEW l \in Links, l \in request[u].links, l \notin shared
        PROVE  uses'[l] = uses[l]
    <3>1. AboutToUse(u, l) /\ u # t
      BY <2>2, <2>7 DEF AboutToUse
    <3>2. l \notin mine
      BY <2>4, <2>7, <3>1
    <3> QED
      BY <2>1, <3>2
  <2>8. LinkRequestsFit'
    BY <2>1, <2>2, <2>5, <2>7, LinksKept DEF IInv
  <2> QED
    BY <2>6, <2>8
<1> QED
  BY <1>8, <1>9, <1>10, <1>11, <1>12 DEF IInv

LEMMA RevokeAllPreserves ==
  ASSUME IInv, NEW t \in Threads, RevokeAll(t)
  PROVE  IInv'
<1> USE DEF RevokeAll
<1> DEFINE req == [request[t] EXCEPT !.at = "create"]
<1>0. TypeOK
  BY DEF IInv
<1>1. request[t] \in Requests /\ t \in Busy
  BY Serving DEF IInv, Busy
<1>2. browser' \in [Browsers -> Cookies]
  BY DEF IInv, TypeOK, NoCookies, Cookies
<1>3. OlderSessionsEnd'
  BY RevokedAllRows DEF IInv, OlderSessionsEnd, IsActive
<1>4. AccountFirst' /\ PasswordIsLastSet'
  <2>1. \A s \in Sids : sessions[s] = None => RevokedAll[s] = None
    BY RevokedAllRows DEF IInv
  <2>2. user = None => sessions' = [s \in Sids |-> None]
    BY <2>1, RevokedAllRows DEF IInv, AccountFirst
  <2> QED
    BY <2>2 DEF IInv, AccountFirst, PasswordIsLastSet
<1>5. \A s \in Sids : sessions[s] # None => sessions'[s] # None
  BY RevokedAllRows DEF IInv
<1>6. CASE request[t].kind = "change"
  <2>1. user # None /\ request[t].password \in Passwords
    BY <1>6 DEF IInv, RequestsFit, RequestFits
  <2>2. /\ req \in Requests
        /\ req.at = "create" /\ req.kind = request[t].kind
        /\ req.password = request[t].password
    BY <1>1 DEF Requests, Stages
  <2>3. request' = [request EXCEPT ![t] = req]
    BY <1>6 DEF Goes
  <2>4. \A u \in Threads : request'[u] = IF u = t THEN req ELSE request[u]
    <3> HIDE DEF RevokeAll, req
    <3> QED
      BY <2>3, <1>0, Others
  <2>5. TypeOK'
    BY <1>2, <2>2, <2>3, RevokedAllRows DEF IInv, TypeOK
  <2>6. RequestsFit'
    <3> SUFFICES ASSUME NEW u \in Threads PROVE RequestFits(request[u])'
      BY DEF RequestsFit
    <3>1. CASE u = t
      BY <3>1, <1>5, <2>1, <2>2, <2>4 DEF RequestFits
    <3>2. CASE u # t
      <4>1. request'[u] = request[u] /\ RequestFits(request[u])
        BY <3>2, <2>4 DEF IInv, RequestsFit
      <4> QED
        BY <4>1, <1>5, <2>1, <2>2, <2>4 DEF RequestFits
    <3> QED
      BY <3>1, <3>2
  <2>7. LinkRequestsFit' /\ ResetLinksAreSingle'
    BY <1>1, <2>2, <2>3, GoesPreservesLinks
  <2> QED
    BY <1>3, <1>4, <2>5, <2>6, <2>7 DEF IInv
<1>7. CASE request[t].kind # "change"
  <2>1. /\ LinkRequestsFit' /\ ResetLinksAreSingle'
        /\ request' \in [Threads -> Requests \cup {Idle}]
        /\ \A u \in Threads : request'[u] = IF u = t THEN Idle ELSE request[u]
    BY <1>7, EndPreservesLinks
  <2>2. TypeOK'
    BY <1>2, <2>1, RevokedAllRows DEF IInv, TypeOK
  <2>3. RequestsFit'
    BY <1>5, <2>1 DEF IInv, RequestsFit, RequestFits, Idle
  <2> QED
    BY <1>3, <1>4, <2>1, <2>2, <2>3 DEF IInv
<1> QED
  BY <1>6, <1>7

(* The new session is of the present password, or late.                    *)
LEMMA CreateSessionPreserves ==
  ASSUME IInv, NEW t \in Threads, CreateSession(t)
  PROVE  IInv'
<1> USE DEF CreateSession
<1> DEFINE new == NewSession(request[t].password)
<1>1. PICK s \in Sids : /\ sessions' = [sessions EXCEPT ![s] = new]
                        /\ browser' = BothCookies(request[t].browser, s, 0)
  BY DEF NextFree, IInv, TypeOK
<1>2. user # None /\ user \in Users /\ request[t].password \in Passwords
  BY DEF IInv, TypeOK, RequestsFit, RequestFits
<1>3. new \in Sessions /\ new # None /\ (~new.late => new.born = user.password)
  BY <1>2, NewRowsAreRows DEF NewSession
<1>4. browser' \in [Browsers -> Cookies]
  <2>1. <<s, 0>> \in Tokens
    BY Bounds DEF Tokens
  <2>2. [token |-> <<s, 0>>, csrf |-> s] \in Cookies
    BY <2>1 DEF Cookies
  <2> QED
    BY <1>1, <2>2 DEF BothCookies, IInv, TypeOK
<1>5. /\ LinkRequestsFit' /\ ResetLinksAreSingle'
      /\ request' \in [Threads -> Requests \cup {Idle}]
      /\ \A u \in Threads : request'[u] = IF u = t THEN Idle ELSE request[u]
  BY EndPreservesLinks
<1>6. TypeOK'
  BY <1>1, <1>3, <1>4, <1>5 DEF IInv, TypeOK
<1>7. \A r \in Sids : sessions'[r] = IF r = s THEN new ELSE sessions[r]
  BY <1>1 DEF IInv, TypeOK
<1>8. RequestsFit'
  BY <1>3, <1>5, <1>7 DEF IInv, RequestsFit, RequestFits, Idle
<1>9. AccountFirst' /\ PasswordIsLastSet'
  BY <1>2 DEF IInv, AccountFirst, PasswordIsLastSet
<1>10. OlderSessionsEnd'
  BY <1>3, <1>5, <1>7 DEF IInv, OlderSessionsEnd, IsActive
<1> QED
  BY <1>5, <1>6, <1>8, <1>9, <1>10 DEF IInv

LEMMA CommitLinkPreserves ==
  ASSUME IInv, NEW t \in Threads, CommitLink(t)
  PROVE  IInv'
<1> USE DEF CommitLink
<1>1. PICK l \in Links : /\ links[l] = None
                         /\ links' = LinkReplaced(request[t].links, l)
  BY DEF NextFree, IInv, TypeOK
<1>2. /\ t \in Busy /\ request[t].kind = "forgot"
  BY DEF IInv, RequestsFit, RequestFits, Busy
<1>3. \A m \in Links : links'[m] = IF m \in request[t].links THEN "used"
                                   ELSE IF m = l THEN "unused"
                                   ELSE links[m]
  BY <1>1 DEF LinkReplaced, LinkAdded, IInv, TypeOK
<1>4. links' \in [Links -> {"unused", "used", None}]
  BY <1>1 DEF LinkReplaced, LinkAdded, IInv, TypeOK
<1>5. /\ request' \in [Threads -> Requests \cup {Idle}]
      /\ \A u \in Threads : request'[u] = IF u = t THEN Idle ELSE request[u]
  BY Others DEF Ends, IInv, TypeOK
<1>6. TypeOK'
  BY <1>4, <1>5 DEF IInv, TypeOK
<1>7. RequestsFit'
  BY <1>5 DEF IInv, RequestsFit, RequestFits, Idle
<1>8. AccountFirst' /\ PasswordIsLastSet'
  BY DEF IInv, AccountFirst, PasswordIsLastSet
<1>9. OlderSessionsEnd'
  BY <1>5 DEF IInv, OlderSessionsEnd, IsActive
<1>10. LinkRequestsFit' /\ ResetLinksAreSingle'
  <2>1. /\ \A u \in Threads : request'[u].at \in {"link", "password"} =>
                                u # t /\ request'[u] = request[u]
        /\ UNCHANGED <<uses, crossed, shared>>
        /\ request[t].at = "link"
    BY <1>5 DEF Idle
  <2> HIDE DEF CommitLink
  <2>2. ~crossed => \A u \in Threads : request'[u].at # "link"
    BY <2>1 DEF IInv, LinkRequestsFit, AskersKnowTheLinks
  <2>3. ~crossed => \A m \in Links : links'[m] = "unused" => m = l
    BY <1>3, <2>1 DEF IInv, LinkRequestsFit, AskersKnowTheLinks, UnusedLinks
  <2>4. \A m \in Links : uses[m] > 0 => links'[m] = "used"
    BY <1>1, <1>3, NewRowsAreRows DEF IInv, ResetLinksAreSingle
  <2>5. ResetLinksAreSingle'
    BY <2>1, <2>3, <2>4 DEF IInv, ResetLinksAreSingle
  <2>6. AskersKnowTheLinks'
    BY <2>1, <2>2 DEF AskersKnowTheLinks
  <2>7. UsersAreAlone'
    <3>1. ASSUME NEW m \in Links, NEW u \in Threads,
                 request'[u].at = "password", m \in request'[u].links
          PROVE  AboutToUse(u, m)
      BY <2>1, <3>1 DEF AboutToUse
    <3>2. UsersAreAlone
      BY DEF IInv, LinkRequestsFit
    <3> QED
      BY <2>1, <3>1, <3>2 DEF UsersAreAlone, AboutToUse
  <2> QED
    BY <2>5, <2>6, <2>7 DEF LinkRequestsFit
<1> QED
  BY <1>6, <1>7, <1>8, <1>9, <1>10 DEF IInv

(* A step that changes one session, and brings none of an older password   *)
(* to life.                                                                *)
LEMMA OneSessionPreserves ==
  ASSUME IInv, NEW s \in Sids, NEW row \in Sessions, sessions[s] # None,
         sessions' = [sessions EXCEPT ![s] = row],
         IsActive(row) /\ ~row.late =>
           /\ IsActive(sessions[s]) /\ ~sessions[s].late
           /\ row.born = sessions[s].born,
         browser' \in [Browsers -> Cookies],
         request' \in [Threads -> Requests \cup {Idle}],
         \A u \in Threads : request'[u] = request[u] \/ request'[u] = Idle,
         \A u \in Threads : request[u].at = "revoke_all" => request'[u] = request[u],
         LinkRequestsFit', ResetLinksAreSingle',
         UNCHANGED <<user, links, lastSet, stale, uses, crossed, shared, confused,
                     served, faults>>
  PROVE  IInv'
<1>1. \A r \in Sids : sessions'[r] = IF r = s THEN row ELSE sessions[r]
  BY DEF IInv, TypeOK
<1>2. row # None
  BY NewRowsAreRows
<1>3. TypeOK'
  BY DEF IInv, TypeOK
<1>4. RequestsFit'
  BY <1>1, <1>2 DEF IInv, RequestsFit, RequestFits, Idle
<1>5. AccountFirst' /\ PasswordIsLastSet'
  BY DEF IInv, AccountFirst, PasswordIsLastSet
<1>6. OlderSessionsEnd'
  BY <1>1 DEF IInv, OlderSessionsEnd, IsActive
<1> QED
  BY <1>3, <1>4, <1>5, <1>6 DEF IInv

LEMMA CommitRefreshPreserves ==
  ASSUME IInv, NEW t \in Threads, CommitRefresh(t)
  PROVE  IInv'
<1> USE DEF CommitRefresh
<1> DEFINE s == request[t].sid
<1>1. s \in Sids /\ sessions[s] # None /\ sessions[s] \in Sessions
  BY DEF IInv, TypeOK, RequestsFit, RequestFits
<1>2. sessions[s].rot + 1 \in 0..MaxRefreshes
  BY <1>1, Bounds DEF Sessions
<1>3. Rotated(sessions[s]) \in Sessions
  BY <1>1, <1>2 DEF Rotated, Sessions
<1>4. browser' \in [Browsers -> Cookies]
  <2>1. <<s, sessions[s].rot + 1>> \in Tokens
    BY <1>1, <1>2 DEF Tokens
  <2>2. browser \in [Browsers -> Cookies]
    BY DEF IInv, TypeOK
  <2>3. browser' = SessionCookieOnly(request[t].browser, s, sessions[s].rot + 1)
    OBVIOUS
  <2> HIDE DEF CommitRefresh, s
  <2> QED
    BY <2>1, <2>2, <2>3 DEF SessionCookieOnly, Cookies
<1>5. /\ LinkRequestsFit' /\ ResetLinksAreSingle'
      /\ request' \in [Threads -> Requests \cup {Idle}]
      /\ \A u \in Threads : request'[u] = IF u = t THEN Idle ELSE request[u]
  BY EndPreservesLinks
<1>6. IsActive(Rotated(sessions[s])) /\ ~Rotated(sessions[s]).late =>
        /\ IsActive(sessions[s]) /\ ~sessions[s].late
        /\ Rotated(sessions[s]).born = sessions[s].born
  BY <1>1 DEF Rotated, IsActive, Sessions
<1>7. sessions' = [sessions EXCEPT ![s] = Rotated(sessions[s])]
  BY <1>1 DEF IInv, TypeOK
<1> QED
  BY <1>1, <1>3, <1>4, <1>5, <1>6, <1>7, OneSessionPreserves

LEMMA CommitLogoutPreserves ==
  ASSUME IInv, NEW t \in Threads, CommitLogout(t)
  PROVE  IInv'
<1> USE DEF CommitLogout
<1> DEFINE s == request[t].sid
           row == [sessions[s] EXCEPT !.revoked = TRUE]
<1>1. s \in Sids /\ sessions[s] # None /\ sessions[s] \in Sessions
  BY DEF IInv, TypeOK, RequestsFit, RequestFits
<1>2. row \in Sessions /\ ~IsActive(row)
  BY <1>1 DEF Sessions, IsActive
<1>3. browser' \in [Browsers -> Cookies]
  BY DEF NoCookies, Cookies, IInv, TypeOK
<1>4. /\ LinkRequestsFit' /\ ResetLinksAreSingle'
      /\ request' \in [Threads -> Requests \cup {Idle}]
      /\ \A u \in Threads : request'[u] = IF u = t THEN Idle ELSE request[u]
  BY EndPreservesLinks
<1>5. sessions' = [sessions EXCEPT ![s] = row]
  BY <1>1 DEF IInv, TypeOK
<1>6. /\ \A u \in Threads : request'[u] = request[u] \/ request'[u] = Idle
      /\ \A u \in Threads : request[u].at = "revoke_all" => request'[u] = request[u]
  BY <1>4
<1>7. UNCHANGED <<user, links, lastSet, stale, uses, crossed, shared, confused, served, faults>>
  OBVIOUS
<1> HIDE DEF CommitLogout, s, row
<1> QED
  BY <1>1, <1>2, <1>3, <1>4, <1>5, <1>6, <1>7, OneSessionPreserves

LEMMA ExpirePreserves ==
  ASSUME IInv, NEW s \in Sids, Expire(s)
  PROVE  IInv'
<1> USE DEF Expire
<1> DEFINE row == [sessions[s] EXCEPT !.expired = TRUE]
<1>1. sessions[s] # None /\ sessions[s] \in Sessions
  BY DEF IInv, TypeOK, IsActive
<1>2. row \in Sessions /\ ~IsActive(row)
  BY <1>1 DEF Sessions, IsActive
<1>3. LinkRequestsFit' /\ ResetLinksAreSingle'
  BY DEF IInv, LinkRequestsFit, AskersKnowTheLinks, UsersAreAlone, ResetLinksAreSingle,
         AboutToUse, UnusedLinks
<1>4. sessions' = [sessions EXCEPT ![s] = row]
  BY <1>1 DEF IInv, TypeOK
<1>5. browser' \in [Browsers -> Cookies] /\ request' \in [Threads -> Requests \cup {Idle}]
  BY DEF IInv, TypeOK
<1> QED
  BY <1>1, <1>2, <1>3, <1>4, <1>5, OneSessionPreserves

-----------------------------------------------------------------------------
(* Invariance.                                                             *)

LEMMA InitEstablishes == Init => IInv
<1> SUFFICES ASSUME Init PROVE IInv
  OBVIOUS
<1> USE DEF Init
<1>1. \A t \in Threads : request[t].at = "idle"
  BY DEF Idle
<1>2. TypeOK
  <2>1. 0 \in Passwords /\ 0 \in 0..MaxRequests /\ 0 \in 0..MaxFaults /\ 0 \in 0..MaxRefreshes
    BY Bounds DEF Passwords
  <2>2. user \in Users \cup {None}
    BY <2>1 DEF Users
  <2>3. sessions \in [Sids -> Sessions \cup {None}]
    <3>1. [rot |-> 0, revoked |-> FALSE, expired |-> FALSE, born |-> 0, late |-> FALSE]
            \in Sessions
      BY <2>1 DEF Sessions
    <3> QED
      BY <3>1
  <2>4. browser \in [Browsers -> Cookies]
    <3>1. <<1, 0>> \in Tokens /\ 1 \in Sids
      BY <2>1, Bounds DEF Tokens, Sids
    <3>2. [token |-> <<1, 0>>, csrf |-> 1] \in Cookies /\ NoCookies \in Cookies
      BY <3>1 DEF NoCookies, Cookies
    <3> QED
      BY <3>1, <3>2
  <2> QED
    BY <2>1, <2>2, <2>3, <2>4 DEF TypeOK
<1>3. RequestsFit
  BY <1>1 DEF RequestsFit, RequestFits
<1>4. AccountFirst
  <2>1. user \in [password : {0}, outdated : BOOLEAN, status : {"ACTIVE", "SUSPENDED"}]
          => user \in Users
    BY Bounds DEF Users, Passwords
  <2> QED
    BY <2>1, NewRowsAreRows DEF AccountFirst
<1>5. PasswordIsLastSet
  BY DEF PasswordIsLastSet
<1>6. OlderSessionsEnd
  BY DEF OlderSessionsEnd, IsActive
<1>7. LinkRequestsFit /\ ResetLinksAreSingle
  BY <1>1, NewRowsAreRows
  DEF LinkRequestsFit, AskersKnowTheLinks, UsersAreAlone, ResetLinksAreSingle, AboutToUse
<1> QED
  BY <1>2, <1>3, <1>4, <1>5, <1>6, <1>7 DEF IInv

LEMMA StepPreserves ==
  ASSUME IInv, [Next]_vars
  PROVE  IInv'
<1>1. ASSUME NEW t \in Threads, Arrive(t)
      PROVE  IInv'
  BY <1>1, ArrivalsBegin, BeginPreserves, LogoutDeadPreserves DEF IInv
<1>2. ASSUME NEW t \in Threads, Proceed(t)
      PROVE  IInv'
  BY <1>2, CommitRegisterPreserves, CommitLoginPreserves, CommitPasswordPreserves,
     RevokeAllPreserves, CreateSessionPreserves, CommitLinkPreserves,
     CommitRefreshPreserves, CommitLogoutPreserves DEF Proceed
<1>3. ASSUME NEW t \in Threads, Crash(t)
      PROVE  IInv'
  BY <1>3, CrashPreserves
<1>4. ASSUME NEW s \in Sids, Expire(s)
      PROVE  IInv'
  BY <1>4, ExpirePreserves
<1>5. ASSUME NEW b \in Browsers, CsrfCookieExpires(b)
      PROVE  IInv'
  BY <1>5, CsrfCookieExpiresPreserves
<1>6. CASE UNCHANGED vars
  <2>1. browser' \in [Browsers -> Cookies] /\ confused' \subseteq Browsers
          /\ served' \in 0..MaxRequests
    BY <1>6 DEF vars, IInv, TypeOK
  <2> QED
    BY <1>6, <2>1, CookiesPreserve DEF vars
<1> QED
  BY <1>1, <1>2, <1>3, <1>4, <1>5, <1>6 DEF Next

(* Accounts always satisfies its inductive invariant.                      *)
THEOREM Invariance == Spec => []IInv
<1>1. Init => IInv
  BY InitEstablishes
<1>2. IInv /\ [Next]_vars => IInv'
  BY StepPreserves
<1> QED
  BY <1>1, <1>2, PTL DEF Spec

(* Every reachable state is well typed.                                    *)
THEOREM TypeCorrect == Spec => []TypeOK
<1>1. IInv => TypeOK
  BY DEF IInv
<1> QED
  BY <1>1, Invariance, PTL

(* No login brings an old password back (authenticate beside               *)
(* change_password and reset_password).                                    *)
THEOREM LastPasswordStays == Spec => []PasswordIsLastSet
<1>1. IInv => PasswordIsLastSet
  BY DEF IInv
<1> QED
  BY <1>1, Invariance, PTL

(* However requests overlap, a reset link that set a password is never     *)
(* good again; it sets no second one unless two resets read it at once,    *)
(* and links replace one another unless two requests for a link overlap    *)
(* (request_password_reset, reset_password).                               *)
THEOREM LinksStaySingle == Spec => []ResetLinksAreSingle
<1>1. IInv => ResetLinksAreSingle
  BY DEF IInv
<1> QED
  BY <1>1, Invariance, PTL

(* A change or a reset of the password leaves no session of an older one,  *)
(* in whatever order requests meet, when none of them died.                *)
THEOREM NoSessionOfOldPassword == Spec => []SessionsKnowThePassword
<1>1. IInv => SessionsKnowThePassword
  BY DEF IInv, OlderSessionsEnd, SessionsKnowThePassword, Quiet, Busy
<1> QED
  BY <1>1, Invariance, PTL

(* A revoked session is never revived: neither a refresh that read it      *)
(* before, nor any other request (refresh_session, revoke).                *)
THEOREM RevocationIsFinal == Spec => RevokedForGood
<1> DEFINE Stay == \A s \in Sids : sessions[s] # None /\ sessions[s].revoked
                                     => sessions'[s].revoked
<1>1. IInv /\ [Next]_vars => [Stay]_sessions
  <2> SUFFICES ASSUME IInv, Next, sessions' # sessions PROVE Stay
    BY DEF vars
  <2>1. ASSUME NEW t \in Threads, Arrive(t)
        PROVE  FALSE
    BY <2>1, ArrivalsBegin DEF IInv, Begin, LogoutDead
  <2>2. ASSUME NEW t \in Threads, RevokeAll(t)
        PROVE  Stay
    BY <2>2, RevokedAllRows DEF RevokeAll, IInv
  <2>3. ASSUME NEW t \in Threads, CreateSession(t)
        PROVE  Stay
    BY <2>3 DEF CreateSession, NextFree, IInv, TypeOK
  <2>4. ASSUME NEW t \in Threads, CommitRefresh(t)
        PROVE  Stay
    <3>1. sessions[request[t].sid] \in Sessions
      BY <2>4 DEF CommitRefresh, IInv, TypeOK, RequestsFit, RequestFits
    <3>2. Rotated(sessions[request[t].sid]).revoked = sessions[request[t].sid].revoked
      BY <3>1 DEF Rotated, Sessions
    <3> QED
      BY <2>4, <3>2 DEF CommitRefresh, IInv, TypeOK
  <2>5. ASSUME NEW t \in Threads, CommitLogout(t)
        PROVE  Stay
    <3>1. sessions[request[t].sid] \in Sessions
      BY <2>5 DEF CommitLogout, IInv, TypeOK, RequestsFit, RequestFits
    <3>2. [sessions[request[t].sid] EXCEPT !.revoked = TRUE].revoked
      BY <3>1 DEF Sessions
    <3> QED
      BY <2>5, <3>2 DEF CommitLogout, IInv, TypeOK
  <2>6. ASSUME NEW s \in Sids, Expire(s)
        PROVE  Stay
    BY <2>6 DEF Expire, IsActive, IInv, TypeOK
  <2>7. ASSUME NEW t \in Threads,
               CommitRegister(t) \/ CommitLogin(t) \/ CommitPassword(t)
                 \/ CommitLink(t) \/ Crash(t)
        PROVE  FALSE
    BY <2>7 DEF CommitRegister, CommitLogin, CommitPassword, CommitLink, Crash
  <2>8. ASSUME NEW b \in Browsers, CsrfCookieExpires(b)
        PROVE  FALSE
    BY <2>8 DEF CsrfCookieExpires
  <2> QED
    BY <2>1, <2>2, <2>3, <2>4, <2>5, <2>6, <2>7, <2>8 DEF Next, Proceed
<1> QED
  BY <1>1, Invariance, PTL DEF Spec, RevokedForGood
-----------------------------------------------------------------------------
(* Cookies: a second invariant, on top of the first.                       *)

(* The sessions a browser is the one to use: the one its cookie names, and *)
(* the one that a refresh of its own is about to rotate.                   *)
Names(b, s) ==
  \/ browser[b].token # None /\ browser[b].token[1] = s
  \/ \E t \in Threads : /\ request[t].at = "refresh"
                        /\ request[t].browser = b /\ request[t].sid = s

NamesExist == \A b \in Browsers, s \in Sids : Names(b, s) => sessions[s] # None

NamesApart ==
  \A b, c \in Browsers, s \in Sids : Names(b, s) /\ Names(c, s) => b = c

(* A refresh is of the browser's own session.                              *)
RefreshesFit ==
  \A t \in Threads : request[t].at = "refresh" =>
    /\ request[t].browser \in Browsers
    /\ request[t].browser \notin confused =>
         /\ browser[request[t].browser].token # None
         /\ browser[request[t].browser].token[1] = request[t].sid

OneRequestEach ==
  \A b \in Browsers \ confused, t, u \in Busy :
    request[t].browser = b /\ request[u].browser = b => t = u

(* What BrowserKeepsSession says of a browser, but at any time.            *)
SignedIn(b) ==
  \/ browser[b] = NoCookies
  \/ \E s \in Sids :
       /\ sessions[s] # None
       /\ browser[b].token = <<s, sessions[s].rot>>
       /\ \/ browser[b].csrf = s
          \/ browser[b].csrf = None /\ sessions[s].rot > 0

CookiesFit ==
  /\ NamesExist
  /\ NamesApart
  /\ RefreshesFit
  /\ OneRequestEach
  /\ \A b \in Browsers \ confused : SignedIn(b)

BInv == IInv /\ CookiesFit

LEMMA TokensAreNotNone ==
  ASSUME NEW s \in Sids, NEW n \in 0..MaxRefreshes
  PROVE  <<s, n>> # None /\ <<s, n>>[1] = s
BY AccountsAssumption DEF Tokens

LEMMA SignedInNames ==
  ASSUME TypeOK, NEW b \in Browsers, NEW s \in Sids, sessions[s] # None,
         browser[b].token = <<s, sessions[s].rot>>
  PROVE  Names(b, s) /\ browser[b].token # None /\ browser[b].token[1] = s
<1>1. sessions[s].rot \in 0..MaxRefreshes
  BY DEF TypeOK, Sessions
<1> QED
  BY <1>1, TokensAreNotNone DEF Names

(* Steps that leave a browser's cookies, or clear them.                    *)
LEMMA CookiesStay ==
  ASSUME CookiesFit, confused \subseteq confused',
         \A b \in Browsers :
           \/ browser'[b] = browser[b]
           \/ /\ browser'[b] = NoCookies
              /\ b \notin confused' => \A u \in Threads :
                   ~(request'[u].at = "refresh" /\ request'[u].browser = b),
         \A s \in Sids : sessions[s] # None =>
           sessions'[s] # None /\ sessions'[s].rot = sessions[s].rot,
         \A u \in Threads : request'[u].at # "idle" =>
           request[u].at # "idle" /\ request'[u].browser = request[u].browser,
         \A u \in Threads : request'[u].at = "refresh" =>
           request[u].at = "refresh" /\ request'[u].sid = request[u].sid
  PROVE  CookiesFit'
<1>1. \A b \in Browsers, s \in Sids : Names(b, s)' => Names(b, s)
  BY DEF Names, NoCookies
<1>2. NamesExist'
  BY <1>1 DEF CookiesFit, NamesExist
<1>3. NamesApart'
  BY <1>1 DEF CookiesFit, NamesApart
<1>4. RefreshesFit'
  <2> SUFFICES ASSUME NEW t \in Threads, request'[t].at = "refresh"
               PROVE  /\ request'[t].browser \in Browsers
                      /\ request'[t].browser \notin confused' =>
                           /\ browser'[request'[t].browser].token # None
                           /\ browser'[request'[t].browser].token[1] = request'[t].sid
    BY DEF RefreshesFit
  <2>1. /\ request[t].at = "refresh" /\ request'[t].sid = request[t].sid
        /\ request'[t].browser = request[t].browser
    OBVIOUS
  <2>2. request[t].browser \in Browsers
    BY <2>1 DEF CookiesFit, RefreshesFit
  <2>3. ASSUME request[t].browser \notin confused'
        PROVE  browser'[request[t].browser] = browser[request[t].browser]
    BY <2>1, <2>2, <2>3
  <2> QED
    BY <2>1, <2>2, <2>3 DEF CookiesFit, RefreshesFit
<1>5. OneRequestEach'
  BY DEF CookiesFit, OneRequestEach, Busy
<1>6. ASSUME NEW b \in Browsers \ confused'
      PROVE  SignedIn(b)'
  <2>1. CASE browser'[b] = NoCookies
    BY <2>1 DEF SignedIn, NoCookies
  <2>2. CASE browser'[b] = browser[b]
    BY <2>2 DEF CookiesFit, SignedIn, NoCookies
  <2> QED
    BY <2>1, <2>2
<1> QED
  BY <1>2, <1>3, <1>4, <1>5, <1>6 DEF CookiesFit

LEMMA BeginFits ==
  ASSUME BInv, NEW t \in Threads, NEW req, Arrival(req), Begin(t, req)
  PROVE  CookiesFit'
<1>1. /\ \A u \in Threads : request'[u] = IF u = t THEN req ELSE request[u]
      /\ request[t].at = "idle"
      /\ UNCHANGED <<browser, sessions>> /\ confused \subseteq confused'
  <2>1. request' = [request EXCEPT ![t] = req] /\ UNCHANGED <<browser, sessions>>
    BY DEF Begin
  <2>2. request[t].at = "idle"
    BY DEF Begin, Idle
  <2>3. confused \subseteq confused'
    BY DEF Begin
  <2> QED
    BY <2>1, <2>2, <2>3, Others DEF BInv, IInv
<1>2. ASSUME req.at = "refresh"
      PROVE  /\ req.browser \in Browsers /\ req.sid \in Sids
             /\ Names(req.browser, req.sid)
             /\ browser[req.browser].token # None
             /\ browser[req.browser].token[1] = req.sid
  <2>1. req.browser \in Browsers /\ req.sid \in Sids /\ sessions[req.sid] # None
    BY <1>2 DEF Arrival, RequestFits
  <2>2. browser[req.browser].token = <<req.sid, sessions[req.sid].rot>>
    BY <1>2 DEF Arrival
  <2> QED
    BY <2>1, <2>2, SignedInNames DEF BInv, IInv
<1>3. \A b \in Browsers, s \in Sids : Names(b, s)' => Names(b, s)
  BY <1>1, <1>2 DEF Names
<1>4. NamesExist' /\ NamesApart'
  BY <1>1, <1>3 DEF BInv, CookiesFit, NamesExist, NamesApart
<1>5. RefreshesFit'
  BY <1>1, <1>2 DEF BInv, CookiesFit, RefreshesFit
<1>6. OneRequestEach'
  <2> SUFFICES ASSUME NEW b \in Browsers \ confused', NEW u \in Busy', NEW v \in Busy',
                      request'[u].browser = b, request'[v].browser = b
               PROVE  u = v
    BY DEF OneRequestEach
  <2>1. b \in Browsers \ confused
    BY <1>1
  <2>2. \A w \in Busy' : w # t => w \in Busy /\ request'[w] = request[w]
    BY <1>1 DEF Busy
  <2>3. CASE u # t /\ v # t
    BY <2>1, <2>2, <2>3 DEF BInv, CookiesFit, OneRequestEach
  <2>4. ASSUME NEW w \in Busy', w # t, request'[w].browser = b, req.browser = b
        PROVE  FALSE
    <3>1. b # None
      BY AccountsAssumption
    <3> QED
      BY <2>2, <2>4, <3>1 DEF Begin
  <2>5. t \in Busy' => request'[t].browser = req.browser
    BY <1>1
  <2> QED
    BY <2>3, <2>4, <2>5
<1>7. ASSUME NEW b \in Browsers \ confused'
      PROVE  SignedIn(b)'
  BY <1>1 DEF BInv, CookiesFit, SignedIn, NoCookies
<1> QED
  BY <1>4, <1>5, <1>6, <1>7 DEF CookiesFit

(* A request that ends, and what it leaves of the others.                  *)
LEMMA EndedAlone ==
  ASSUME BInv, NEW t \in Threads, Ends(t), UNCHANGED confused
  PROVE  /\ \A u \in Threads : request'[u] = IF u = t THEN Idle ELSE request[u]
         /\ \A u \in Threads : request'[u].at # "idle" =>
              u # t /\ u \in Busy /\ request'[u] = request[u]
         /\ OneRequestEach'
         /\ t \in Busy /\ request[t].browser \in Browsers \ confused =>
              \A u \in Busy' : request'[u].browser # request[t].browser
<1>1. \A u \in Threads : request'[u] = IF u = t THEN Idle ELSE request[u]
  BY Others DEF BInv, IInv, Ends
<1>2. \A u \in Threads : request'[u].at # "idle" =>
        u # t /\ u \in Busy /\ request'[u] = request[u]
  BY <1>1 DEF Idle, Busy
<1>3. OneRequestEach'
  BY <1>2 DEF BInv, CookiesFit, OneRequestEach, Busy
<1>4. t \in Busy /\ request[t].browser \in Browsers \ confused =>
        \A u \in Busy' : request'[u].browser # request[t].browser
  BY <1>2 DEF BInv, CookiesFit, OneRequestEach, Busy
<1> QED
  BY <1>1, <1>2, <1>3, <1>4

LEMMA LogoutDeadFits ==
  ASSUME BInv, NEW t \in Threads, NEW b \in Browsers, LogoutDead(t, b)
  PROVE  CookiesFit'
<1>1. browser' = [browser EXCEPT ![b] = NoCookies] /\ UNCHANGED <<sessions, request>>
  BY DEF LogoutDead
<1>2. \A c \in Browsers : browser'[c] = browser[c] \/ (c = b /\ browser'[c] = NoCookies)
  BY <1>1 DEF BInv, IInv, TypeOK
<1>3. confused \subseteq confused'
  BY DEF LogoutDead
<1>4. b \notin confused' => \A u \in Threads :
        ~(request'[u].at = "refresh" /\ request'[u].browser = b)
  BY <1>1 DEF LogoutDead, Busy
<1> QED
  BY <1>1, <1>2, <1>3, <1>4, CookiesStay DEF BInv

LEMMA RevokeAllFits ==
  ASSUME BInv, NEW t \in Threads, RevokeAll(t)
  PROVE  CookiesFit'
<1> DEFINE b == request[t].browser
<1>1. /\ request[t].at = "revoke_all" /\ t \in Busy /\ request[t] \in Requests
      /\ UNCHANGED confused
  BY Serving DEF RevokeAll, Busy, BInv, IInv
<1>2. \A s \in Sids : sessions[s] # None =>
        sessions'[s] # None /\ sessions'[s].rot = sessions[s].rot
  <2> SUFFICES ASSUME NEW s \in Sids, sessions[s] # None
               PROVE  sessions'[s] # None /\ sessions'[s].rot = sessions[s].rot
    OBVIOUS
  <2>1. sessions' = RevokedAll /\ sessions[s] \in Sessions
    BY DEF RevokeAll, BInv, IInv, TypeOK
  <2>2. sessions'[s] # None
    BY <2>1, RevokedAllRows DEF BInv, IInv
  <2> QED
    BY <2>1, <2>2 DEF RevokedAll, Sessions
<1>3. CASE request[t].kind = "change"
  <2>1. \A u \in Threads :
          request'[u] = IF u = t THEN [request[t] EXCEPT !.at = "create"] ELSE request[u]
    BY <1>3 DEF RevokeAll, Goes, BInv, IInv, TypeOK
  <2>2. /\ [request[t] EXCEPT !.at = "create"].at = "create"
        /\ [request[t] EXCEPT !.at = "create"].browser = b
    BY <1>1 DEF Requests
  <2>3. browser' = browser
    BY <1>3 DEF RevokeAll
  <2>4. \A u \in Threads : request'[u].at # "idle" =>
          request[u].at # "idle" /\ request'[u].browser = request[u].browser
    BY <1>1, <2>1, <2>2
  <2>5. \A u \in Threads : request'[u].at = "refresh" =>
          request[u].at = "refresh" /\ request'[u].sid = request[u].sid
    BY <2>1, <2>2
  <2> QED
    BY <1>1, <1>2, <2>3, <2>4, <2>5, CookiesStay DEF BInv
<1>4. CASE request[t].kind # "change"
  <2>1. Ends(t)
    BY <1>4 DEF RevokeAll
  <2>2. /\ \A u \in Threads : request'[u].at # "idle" =>
             u # t /\ u \in Busy /\ request'[u] = request[u]
        /\ b \in Browsers \ confused => \A u \in Busy' : request'[u].browser # b
    BY <1>1, <2>1, EndedAlone
  <2>3. \A c \in Browsers :
          browser'[c] = browser[c] \/ (c = b /\ browser'[c] = NoCookies)
    BY DEF RevokeAll, BInv, IInv, TypeOK
  <2>4. \A u \in Threads : request'[u].at = "refresh" => u \in Busy'
    BY DEF Busy
  <2>5. \A u \in Threads : request'[u].at # "idle" =>
          request[u].at # "idle" /\ request'[u].browser = request[u].browser
    BY <2>2 DEF Busy
  <2>6. \A u \in Threads : request'[u].at = "refresh" =>
          request[u].at = "refresh" /\ request'[u].sid = request[u].sid
    BY <2>2
  <2>7. \A c \in Browsers :
          \/ browser'[c] = browser[c]
          \/ /\ browser'[c] = NoCookies
             /\ c \notin confused' => \A u \in Threads :
                  ~(request'[u].at = "refresh" /\ request'[u].browser = c)
    BY <1>1, <2>2, <2>3, <2>4
  <2> QED
    BY <1>1, <1>2, <2>5, <2>6, <2>7, CookiesStay DEF BInv
<1> QED
  BY <1>3, <1>4

LEMMA CommitLogoutFits ==
  ASSUME BInv, NEW t \in Threads, CommitLogout(t)
  PROVE  CookiesFit'
<1> DEFINE b == request[t].browser
<1>1. /\ request[t].at = "logout" /\ t \in Busy /\ Ends(t) /\ UNCHANGED confused
  BY DEF CommitLogout, Busy
<1>2. request[t].sid \in Sids /\ sessions[request[t].sid] \in Sessions
  BY <1>1 DEF BInv, IInv, TypeOK, RequestsFit, RequestFits
<1>3. \A s \in Sids : sessions[s] # None =>
        sessions'[s] # None /\ sessions'[s].rot = sessions[s].rot
  <2>1. /\ [sessions[request[t].sid] EXCEPT !.revoked = TRUE] \in Sessions
        /\ [sessions[request[t].sid] EXCEPT !.revoked = TRUE].rot
             = sessions[request[t].sid].rot
    BY <1>2 DEF Sessions
  <2> QED
    BY <1>2, <2>1, NewRowsAreRows DEF CommitLogout, BInv, IInv, TypeOK
<1>4. /\ \A u \in Threads : request'[u].at # "idle" =>
           u # t /\ u \in Busy /\ request'[u] = request[u]
      /\ b \in Browsers \ confused => \A u \in Busy' : request'[u].browser # b
  BY <1>1, EndedAlone
<1>5. \A c \in Browsers :
        browser'[c] = browser[c] \/ (c = b /\ browser'[c] = NoCookies)
  BY DEF CommitLogout, BInv, IInv, TypeOK
<1>6. \A u \in Threads : request'[u].at = "refresh" => u \in Busy'
  BY DEF Busy
<1>7. \A u \in Threads : request'[u].at # "idle" =>
        request[u].at # "idle" /\ request'[u].browser = request[u].browser
  BY <1>4 DEF Busy
<1>8. \A u \in Threads : request'[u].at = "refresh" =>
        request[u].at = "refresh" /\ request'[u].sid = request[u].sid
  BY <1>4
<1>9. \A c \in Browsers :
        \/ browser'[c] = browser[c]
        \/ /\ browser'[c] = NoCookies
           /\ c \notin confused' => \A u \in Threads :
                ~(request'[u].at = "refresh" /\ request'[u].browser = c)
  BY <1>1, <1>4, <1>5, <1>6
<1> QED
  BY <1>1, <1>3, <1>7, <1>8, <1>9, CookiesStay DEF BInv

(* A new session is nobody's yet.                                          *)
LEMMA CreateSessionFits ==
  ASSUME BInv, NEW t \in Threads, CreateSession(t)
  PROVE  CookiesFit'
<1> DEFINE b == request[t].browser
<1>1. PICK s \in NextFree(sessions) :
        /\ sessions' = [sessions EXCEPT ![s] = NewSession(request[t].password)]
        /\ browser' = BothCookies(b, s, 0)
  BY DEF CreateSession
<1>2. request[t].at = "create" /\ t \in Busy /\ Ends(t) /\ UNCHANGED confused
  BY DEF CreateSession, Busy
<1>3. s \in Sids /\ sessions[s] = None
  BY <1>1 DEF NextFree, BInv, IInv, TypeOK
<1>4. /\ sessions'[s] # None /\ sessions'[s].rot = 0
      /\ \A r \in Sids : r # s => sessions'[r] = sessions[r]
  <2>1. request[t].password \in Passwords /\ user \in Users
    BY <1>2 DEF BInv, IInv, TypeOK, RequestsFit, RequestFits
  <2>2. /\ NewSession(request[t].password) # None
        /\ NewSession(request[t].password).rot = 0
    BY <2>1, NewRowsAreRows DEF NewSession
  <2> QED
    BY <1>1, <1>3, <2>2 DEF BInv, IInv, TypeOK
<1>5. /\ \A c \in Browsers : c # b => browser'[c] = browser[c]
      /\ b \in Browsers => browser'[b] = [token |-> <<s, 0>>, csrf |-> s]
  BY <1>1 DEF BothCookies, BInv, IInv, TypeOK
<1>6. /\ \A u \in Threads : request'[u].at # "idle" =>
           u # t /\ u \in Busy /\ request'[u] = request[u]
      /\ OneRequestEach'
      /\ b \in Browsers \ confused => \A u \in Busy' : request'[u].browser # b
  BY <1>2, EndedAlone
<1>7. <<s, 0>> # None /\ <<s, 0>>[1] = s
  BY <1>3, Bounds, TokensAreNotNone
<1>8. \A c \in Browsers, r \in Sids :
        Names(c, r)' => Names(c, r) \/ (c = b /\ r = s)
  <2> SUFFICES ASSUME NEW c \in Browsers, NEW r \in Sids, Names(c, r)'
               PROVE  Names(c, r) \/ (c = b /\ r = s)
    OBVIOUS
  <2>1. CASE browser'[c].token # None /\ browser'[c].token[1] = r
    <3>1. CASE c = b
      BY <1>5, <1>7, <2>1, <3>1
    <3>2. CASE c # b
      BY <1>5, <2>1, <3>2 DEF Names
    <3> QED
      BY <3>1, <3>2
  <2>2. CASE \E u \in Threads : /\ request'[u].at = "refresh"
                                /\ request'[u].browser = c /\ request'[u].sid = r
    BY <1>6, <2>2 DEF Names
  <2> QED
    BY <2>1, <2>2 DEF Names
<1>9. \A c \in Browsers : ~Names(c, s)
  BY <1>3 DEF BInv, CookiesFit, NamesExist
<1>10. NamesExist'
  BY <1>4, <1>8 DEF BInv, CookiesFit, NamesExist
<1>11. NamesApart'
  BY <1>8, <1>9 DEF BInv, CookiesFit, NamesApart
<1>12. RefreshesFit'
  <2> SUFFICES ASSUME NEW u \in Threads, request'[u].at = "refresh"
               PROVE  /\ request'[u].browser \in Browsers
                      /\ request'[u].browser \notin confused' =>
                           /\ browser'[request'[u].browser].token # None
                           /\ browser'[request'[u].browser].token[1] = request'[u].sid
    BY DEF RefreshesFit
  <2>1. u # t /\ request'[u] = request[u] /\ u \in Busy'
    BY <1>6 DEF Busy
  <2>2. request[u].browser \in Browsers
    BY <2>1 DEF BInv, CookiesFit, RefreshesFit
  <2>3. request[u].browser \notin confused => request[u].browser # b
    BY <1>6, <2>1, <2>2
  <2>4. request[u].browser \notin confused =>
          /\ browser[request[u].browser].token # None
          /\ browser[request[u].browser].token[1] = request[u].sid
    BY <2>1 DEF BInv, CookiesFit, RefreshesFit
  <2>5. request[u].browser \notin confused =>
          browser'[request[u].browser] = browser[request[u].browser]
    BY <1>5, <2>2, <2>3
  <2> QED
    BY <1>2, <2>1, <2>2, <2>4, <2>5
<1>13. ASSUME NEW c \in Browsers \ confused'
       PROVE  SignedIn(c)'
  <2>1. CASE c = b
    BY <1>3, <1>4, <1>5, <2>1 DEF SignedIn
  <2>2. CASE c # b
    <3>1. browser'[c] = browser[c] /\ SignedIn(c)
      BY <1>2, <1>5, <2>2 DEF BInv, CookiesFit
    <3>2. \A r \in Sids : sessions[r] # None => sessions'[r] = sessions[r]
      BY <1>3, <1>4
    <3> QED
      BY <3>1, <3>2 DEF SignedIn, NoCookies
  <2> QED
    BY <2>1, <2>2
<1> QED
  BY <1>6, <1>10, <1>11, <1>12, <1>13 DEF CookiesFit

(* A refresh rotates the session only its browser names.                   *)
LEMMA CommitRefreshFits ==
  ASSUME BInv, NEW t \in Threads, CommitRefresh(t)
  PROVE  CookiesFit'
<1> DEFINE b == request[t].browser
           s == request[t].sid
<1>1. /\ request[t].at = "refresh" /\ t \in Busy /\ Ends(t) /\ UNCHANGED confused
      /\ sessions' = [sessions EXCEPT ![s] = Rotated(@)]
      /\ browser' = SessionCookieOnly(b, s, sessions[s].rot + 1)
      /\ sessions[s].rot < MaxRefreshes
  BY DEF CommitRefresh, Busy
<1>2. s \in Sids /\ sessions[s] \in Sessions /\ b \in Browsers /\ Names(b, s)
  BY <1>1 DEF BInv, IInv, TypeOK, RequestsFit, RequestFits, CookiesFit, RefreshesFit, Names
<1>3. /\ sessions[s].rot \in 0..MaxRefreshes
      /\ sessions[s].rot + 1 \in 0..MaxRefreshes
      /\ sessions[s].rot + 1 > 0
  BY <1>1, <1>2, Bounds DEF Sessions
<1>4. /\ sessions'[s] # None /\ sessions'[s].rot = sessions[s].rot + 1
      /\ \A r \in Sids : r # s => sessions'[r] = sessions[r]
  <2>1. Rotated(sessions[s]) \in Sessions /\ Rotated(sessions[s]).rot = sessions[s].rot + 1
    BY <1>2, <1>3 DEF Rotated, Sessions
  <2> QED
    BY <1>1, <1>2, <2>1, NewRowsAreRows DEF BInv, IInv, TypeOK
<1>5. /\ \A c \in Browsers : c # b => browser'[c] = browser[c]
      /\ browser'[b].token = <<s, sessions[s].rot + 1>>
      /\ browser'[b].csrf = browser[b].csrf
  BY <1>1, <1>2 DEF SessionCookieOnly, BInv, IInv, TypeOK, Cookies
<1>6. /\ \A u \in Threads : request'[u].at # "idle" =>
           u # t /\ u \in Busy /\ request'[u] = request[u]
      /\ OneRequestEach'
      /\ b \in Browsers \ confused => \A u \in Busy' : request'[u].browser # b
  BY <1>1, EndedAlone
<1>7. browser'[b].token # None /\ browser'[b].token[1] = s
  BY <1>2, <1>3, <1>5, TokensAreNotNone
<1>8. \A c \in Browsers, r \in Sids : Names(c, r)' => Names(c, r)
  <2> SUFFICES ASSUME NEW c \in Browsers, NEW r \in Sids, Names(c, r)'
               PROVE  Names(c, r)
    OBVIOUS
  <2>1. CASE browser'[c].token # None /\ browser'[c].token[1] = r
    <3>1. CASE c = b
      BY <1>2, <1>7, <2>1, <3>1
    <3>2. CASE c # b
      BY <1>5, <2>1, <3>2 DEF Names
    <3> QED
      BY <3>1, <3>2
  <2>2. CASE \E u \in Threads : /\ request'[u].at = "refresh"
                                /\ request'[u].browser = c /\ request'[u].sid = r
    BY <1>6, <2>2 DEF Names
  <2> QED
    BY <2>1, <2>2 DEF Names
<1>9. NamesExist'
  BY <1>4, <1>8 DEF BInv, CookiesFit, NamesExist
<1>10. NamesApart'
  BY <1>8 DEF BInv, CookiesFit, NamesApart
<1>11. RefreshesFit'
  <2> SUFFICES ASSUME NEW u \in Threads, request'[u].at = "refresh"
               PROVE  /\ request'[u].browser \in Browsers
                      /\ request'[u].browser \notin confused' =>
                           /\ browser'[request'[u].browser].token # None
                           /\ browser'[request'[u].browser].token[1] = request'[u].sid
    BY DEF RefreshesFit
  <2>1. u # t /\ request'[u] = request[u] /\ u \in Busy'
    BY <1>6 DEF Busy
  <2>2. request[u].browser \in Browsers
    BY <2>1 DEF BInv, CookiesFit, RefreshesFit
  <2>3. request[u].browser \notin confused => request[u].browser # b
    BY <1>2, <1>6, <2>1, <2>2
  <2>4. request[u].browser \notin confused =>
          /\ browser[request[u].browser].token # None
          /\ browser[request[u].browser].token[1] = request[u].sid
    BY <2>1 DEF BInv, CookiesFit, RefreshesFit
  <2>5. request[u].browser \notin confused =>
          browser'[request[u].browser] = browser[request[u].browser]
    BY <1>5, <2>2, <2>3
  <2> QED
    BY <1>1, <2>1, <2>2, <2>4, <2>5
<1>12. ASSUME NEW c \in Browsers \ confused'
       PROVE  SignedIn(c)'
  <2>1. SignedIn(c)
    BY <1>1 DEF BInv, CookiesFit
  <2>2. CASE c = b
    <3>1. browser[b].token # None /\ browser[b].token[1] = s
      BY <1>1, <2>2 DEF BInv, CookiesFit, RefreshesFit
    <3>4. browser[b] # NoCookies
      BY <3>1 DEF NoCookies
    <3>5. SignedIn(b)
      BY <2>1, <2>2
    <3> HIDE DEF b, s
    <3>2. PICK r \in Sids :
            /\ sessions[r] # None
            /\ browser[b].token = <<r, sessions[r].rot>>
            /\ \/ browser[b].csrf = r
               \/ browser[b].csrf = None /\ sessions[r].rot > 0
      BY <3>4, <3>5 DEF SignedIn
    <3>3. r = s
      BY <3>1, <3>2
    <3> QED
      BY <1>2, <1>3, <1>4, <1>5, <2>2, <3>2, <3>3 DEF SignedIn
  <2>3. CASE c # b
    <3>1. browser'[c] = browser[c]
      BY <1>5, <2>3
    <3>2. ASSUME NEW r \in Sids, sessions[r] # None,
                 browser[c].token = <<r, sessions[r].rot>>
          PROVE  sessions'[r] = sessions[r]
      <4>1. Names(c, r)
        BY <3>2, SignedInNames DEF BInv, IInv
      <4>2. r # s
        BY <1>2, <2>3, <4>1 DEF BInv, CookiesFit, NamesApart
      <4> QED
        BY <1>4, <4>2
    <3> QED
      BY <2>1, <3>1, <3>2 DEF SignedIn, NoCookies
  <2> QED
    BY <2>2, <2>3
<1> QED
  BY <1>6, <1>9, <1>10, <1>11, <1>12 DEF CookiesFit

(* Commits that touch neither cookies nor sessions, and a crash.           *)
LEMMA OnwardsFits ==
  ASSUME BInv, NEW t \in Threads, t \in Busy, NEW req,
         request' = [request EXCEPT ![t] = req],
         req = Idle \/ (req.at # "refresh" /\ req.browser = request[t].browser),
         UNCHANGED <<browser, sessions, confused>>
  PROVE  CookiesFit'
<1>1. \A u \in Threads : request'[u] = IF u = t THEN req ELSE request[u]
  BY Others DEF BInv, IInv
<1>2. req.at # "refresh" /\ (req.at # "idle" => req.browser = request[t].browser)
  BY DEF Idle
<1>3. request[t].at # "idle"
  BY DEF Busy
<1>4. \A u \in Threads : request'[u].at # "idle" =>
        request[u].at # "idle" /\ request'[u].browser = request[u].browser
  BY <1>1, <1>2, <1>3
<1>5. \A u \in Threads : request'[u].at = "refresh" =>
        request[u].at = "refresh" /\ request'[u].sid = request[u].sid
  BY <1>1, <1>2
<1> QED
  BY <1>4, <1>5, CookiesStay DEF BInv

LEMMA CommitsFit ==
  ASSUME BInv, NEW t \in Threads,
         \/ CommitRegister(t) \/ CommitLogin(t) \/ CommitPassword(t)
         \/ CommitLink(t) \/ Crash(t)
  PROVE  CookiesFit'
<1>1. UNCHANGED <<browser, sessions, confused>>
  BY DEF CommitRegister, CommitLogin, CommitPassword, CommitLink, Crash
<1>2. t \in Busy
  BY DEF CommitRegister, CommitLogin, CommitPassword, CommitLink, Crash, Busy
<1>3. request[t] \in Requests
  BY <1>2, Serving DEF Busy, BInv, IInv
<1>4. CASE Ends(t)
  BY <1>1, <1>2, <1>4, OnwardsFits DEF Ends
<1>5. CASE CommitRegister(t)
  <2> DEFINE req == [request[t] EXCEPT !.at = "create", !.password = 0]
  <2>1. req.at = "create" /\ req.browser = request[t].browser
    BY <1>3 DEF Requests
  <2>2. CASE user = None
    <3>1. request' = [request EXCEPT ![t] = req]
      BY <1>3, <1>5, <2>2 DEF CommitRegister, Requests
    <3> QED
      BY <1>1, <1>2, <2>1, <3>1, OnwardsFits
  <2>3. CASE user # None
    BY <1>4, <1>5, <2>3 DEF CommitRegister
  <2> QED
    BY <2>2, <2>3
<1>6. CASE CommitLogin(t)
  <2> DEFINE req == [request[t] EXCEPT !.at = "create"]
  <2>1. req.at = "create" /\ req.browser = request[t].browser
    BY <1>3 DEF Requests
  <2>2. request' = [request EXCEPT ![t] = req]
    BY <1>6 DEF CommitLogin, Goes
  <2> QED
    BY <1>1, <1>2, <2>1, <2>2, OnwardsFits
<1>7. CASE CommitPassword(t)
  <2> DEFINE req == [request[t] EXCEPT !.at = AfterPassword(request[t].kind),
                                       !.password = lastSet + 1]
  <2>1. req.at = "revoke_all" /\ req.browser = request[t].browser
    BY <1>3 DEF Requests, AfterPassword
  <2>2. request' = [request EXCEPT ![t] = req]
    BY <1>3, <1>7 DEF CommitPassword, Requests
  <2> QED
    BY <1>1, <1>2, <2>1, <2>2, OnwardsFits
<1>8. CASE CommitLink(t) \/ Crash(t)
  BY <1>4, <1>8 DEF CommitLink, Crash
<1> QED
  BY <1>5, <1>6, <1>7, <1>8

LEMMA ExpireFits ==
  ASSUME BInv, NEW s \in Sids, Expire(s)
  PROVE  CookiesFit'
<1>1. UNCHANGED <<browser, request, confused>>
  BY DEF Expire
<1>2. \A r \in Sids : sessions[r] # None =>
        sessions'[r] # None /\ sessions'[r].rot = sessions[r].rot
  <2>1. sessions[s] \in Sessions
    BY DEF Expire, IsActive, BInv, IInv, TypeOK
  <2>2. /\ [sessions[s] EXCEPT !.expired = TRUE] \in Sessions
        /\ [sessions[s] EXCEPT !.expired = TRUE].rot = sessions[s].rot
    BY <2>1 DEF Sessions
  <2> QED
    BY <2>2, NewRowsAreRows DEF Expire, BInv, IInv, TypeOK
<1> QED
  BY <1>1, <1>2, CookiesStay DEF BInv

(* Only the cookie of a refreshed session lapses before the session does.  *)
LEMMA CsrfCookieExpiresFits ==
  ASSUME BInv, NEW b \in Browsers, CsrfCookieExpires(b)
  PROVE  CookiesFit'
<1>1. /\ browser' = [browser EXCEPT ![b].csrf = None]
      /\ UNCHANGED <<sessions, request, confused>>
  BY DEF CsrfCookieExpires
<1>2. PICK s \in Live(b) : sessions[s].rot > 0
  BY DEF CsrfCookieExpires
<1>3. /\ s \in Sids /\ sessions[s] # None
      /\ browser[b].token = <<s, sessions[s].rot>>
  BY <1>2 DEF Live, IsActive
<1>4. /\ \A c \in Browsers : browser'[c].token = browser[c].token
      /\ \A c \in Browsers : c # b => browser'[c] = browser[c]
      /\ browser'[b].csrf = None
  BY <1>1 DEF BInv, IInv, TypeOK, Cookies
<1>5. \A c \in Browsers, r \in Sids : Names(c, r)' => Names(c, r)
  BY <1>1, <1>4 DEF Names
<1>6. NamesExist' /\ NamesApart'
  BY <1>1, <1>5 DEF BInv, CookiesFit, NamesExist, NamesApart
<1>7. RefreshesFit' /\ OneRequestEach'
  BY <1>1, <1>4 DEF BInv, CookiesFit, RefreshesFit, OneRequestEach, Busy
<1>8. ASSUME NEW c \in Browsers \ confused'
      PROVE  SignedIn(c)'
  <2>1. CASE c = b
    BY <1>1, <1>2, <1>3, <1>4, <2>1 DEF SignedIn
  <2>2. CASE c # b
    BY <1>1, <1>4, <2>2 DEF BInv, CookiesFit, SignedIn, NoCookies
  <2> QED
    BY <2>1, <2>2
<1> QED
  BY <1>6, <1>7, <1>8 DEF CookiesFit

LEMMA CookiesFitAtFirst ==
  ASSUME Init
  PROVE  CookiesFit
<1>1. /\ \A t \in Threads : request[t].at = "idle"
      /\ Busy = {}
  BY DEF Init, Idle, Busy
<1>2. CASE /\ sessions = [s \in Sids |-> None]
           /\ browser = [b \in Browsers |-> NoCookies]
  BY <1>1, <1>2 DEF CookiesFit, NamesExist, NamesApart, RefreshesFit,
                    OneRequestEach, SignedIn, Names, NoCookies
<1>3. ASSUME NEW first \in Browsers,
             sessions = [s \in Sids |->
               IF s = 1 THEN [rot |-> 0, revoked |-> FALSE, expired |-> FALSE,
                              born |-> 0, late |-> FALSE]
               ELSE None],
             browser = [b \in Browsers |->
               IF b = first THEN [token |-> <<1, 0>>, csrf |-> 1] ELSE NoCookies]
      PROVE  CookiesFit
  <2>1. /\ 1 \in Sids /\ 0 \in 0..MaxRefreshes
        /\ [rot |-> 0, revoked |-> FALSE, expired |-> FALSE,
            born |-> 0, late |-> FALSE] \in Sessions
    BY Bounds DEF Sids, Sessions, Passwords
  <2>2. sessions[1] # None /\ sessions[1].rot = 0
    BY <1>3, <2>1, NewRowsAreRows
  <2>3. <<1, 0>> # None /\ <<1, 0>>[1] = 1
    BY <2>1, TokensAreNotNone
  <2>4. /\ browser[first] = [token |-> <<1, 0>>, csrf |-> 1]
        /\ \A b \in Browsers : b # first => browser[b] = NoCookies
    BY <1>3
  <2>5. \A b \in Browsers, s \in Sids : Names(b, s) => b = first /\ s = 1
    BY <1>1, <2>3, <2>4 DEF Names, NoCookies
  <2>6. NamesExist /\ NamesApart
    BY <2>2, <2>5 DEF NamesExist, NamesApart
  <2>7. RefreshesFit /\ OneRequestEach
    BY <1>1 DEF RefreshesFit, OneRequestEach
  <2>8. \A b \in Browsers : SignedIn(b)
    BY <2>1, <2>2, <2>4 DEF SignedIn
  <2> QED
    BY <2>6, <2>7, <2>8 DEF CookiesFit
<1> QED
  BY <1>2, <1>3 DEF Init

LEMMA StepKeepsCookies ==
  ASSUME BInv, [Next]_vars
  PROVE  CookiesFit'
<1>1. ASSUME NEW t \in Threads, Arrive(t)
      PROVE  CookiesFit'
  <2>1. \/ \E b \in Browsers : LogoutDead(t, b)
        \/ \E req : Arrival(req) /\ Begin(t, req)
    BY <1>1, ArrivalsBegin DEF BInv, IInv
  <2> QED
    BY <2>1, BeginFits, LogoutDeadFits
<1>2. ASSUME NEW t \in Threads, Proceed(t) \/ Crash(t)
      PROVE  CookiesFit'
  BY <1>2, CommitsFit, RevokeAllFits, CreateSessionFits, CommitRefreshFits,
     CommitLogoutFits DEF Proceed
<1>3. CASE UNCHANGED vars
  BY <1>3 DEF vars, BInv, CookiesFit, NamesExist, NamesApart, RefreshesFit,
              OneRequestEach, SignedIn, Names, Busy
<1> QED
  BY <1>1, <1>2, <1>3, ExpireFits, CsrfCookieExpiresFits DEF Next

(* The cookies of every browser fit the sessions and the requests under    *)
(* way: two browsers never name the same session, and of a browser whose   *)
(* answers never crossed both cookies are of one session.                  *)
THEOREM CookiesInvariance == Spec => []BInv
<1>1. Init => CookiesFit
  BY CookiesFitAtFirst
<1>2. IInv /\ CookiesFit /\ [Next]_vars => CookiesFit'
  BY StepKeepsCookies DEF BInv
<1> QED
  BY <1>1, <1>2, Invariance, PTL DEF Spec, BInv

(* A browser whose requests never overlapped is signed in to one session   *)
(* or to none, with the CSRF cookie of that session (routes/auth.py        *)
(* _set_session_cookie, _set_csrf_cookie).                                 *)
THEOREM BrowserStaysSignedIn == Spec => []BrowserKeepsSession
<1>1. BInv => BrowserKeepsSession
  BY DEF BInv, CookiesFit, SignedIn, BrowserKeepsSession
<1> QED
  BY <1>1, CookiesInvariance, PTL
=============================================================================
