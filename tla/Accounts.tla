------------------------------ MODULE Accounts ------------------------------
(***************************************************************************)
(* One account: its password (AuthService), the sessions of the browsers   *)
(* signed in to it (SessionService, routes/auth.py, the CSRF middleware)   *)
(* and its password reset links.  Requests run in threads; each reads at   *)
(* its beginning and commits once or more, and a commit writes only the    *)
(* columns the request changed.                                            *)
(*                                                                         *)
(* A password is the number of the change that set it, a session token the *)
(* pair of its session and how often that was refreshed, and the value of  *)
(* a CSRF cookie the session it is signed for.  A request that is refused  *)
(* changes nothing but the audit log and is no step; the progressive       *)
(* lockout of login is that of Access.  The answer of a request reaches    *)
(* the browser with the last commit.                                       *)
(***************************************************************************)
EXTENDS Authorization, Integers

CONSTANTS
  Browsers,
  Threads,
  MaxSessions,   \* bound: sessions created
  MaxLinks,      \* bound: reset links sent
  MaxPasswords,  \* bound: passwords set after the first
  MaxRefreshes,  \* bound: refreshes of one session
  MaxRequests,   \* bound: requests served
  MaxFaults,     \* bound: requests that die between two steps
  None

Sids == 1..MaxSessions
Links == 1..MaxLinks
Passwords == 0..MaxPasswords
Tokens == Sids \X (0..MaxRefreshes)

VARIABLES
  user,      \* the row of the account, or None
  sessions,  \* session -> its row, or None
  links,     \* password reset token -> its row, or None
  browser,   \* browser -> its cookies
  request,   \* thread -> the request it serves
  lastSet,   \* history: the password somebody set last
  stale,     \* history: a rehash wrote a password read before lastSet
  uses,      \* history: link -> passwords set with it
  crossed,   \* history: two requests for a reset link overlapped
  shared,    \* history: links that two requests were about to use at once
  confused,  \* history: browsers with overlapping or lost answers
  served,
  faults

vars == <<user, sessions, links, browser, request,
          lastSet, stale, uses, crossed, shared, confused, served, faults>>

-----------------------------------------------------------------------------
(* Types.                                                                  *)

Users ==
  [password : Passwords, outdated : BOOLEAN,
   status : {"ACTIVE", "SUSPENDED", "DISABLED", "PENDING_VERIFICATION"}]

(* born: the password its creator knew; late: it was created with a        *)
(* password already replaced, or refreshed after it had expired.           *)
Sessions ==
  [rot : 0..MaxRefreshes, revoked : BOOLEAN, expired : BOOLEAN,
   born : Passwords, late : BOOLEAN]

Cookies == [token : Tokens \cup {None}, csrf : Sids \cup {None}]
NoCookies == [token |-> None, csrf |-> None]

Kinds == {"register", "login", "change", "forgot", "reset", "refresh",
          "logout", "logout_all"}
Stages == {"register", "login", "password", "revoke_all", "create", "link",
           "refresh", "logout"}

Requests ==
  [kind : Kinds, at : Stages, browser : Browsers \cup {None},
   sid : Sids \cup {None}, password : Passwords \cup {None},
   outdated : BOOLEAN, links : SUBSET Links]

Idle == [at |-> "idle"]

ASSUME AccountsAssumption ==
  /\ {MaxSessions, MaxLinks, MaxPasswords, MaxRefreshes, MaxRequests, MaxFaults}
       \subseteq Nat
  /\ MaxSessions > 0
  /\ None \notin Users \cup Sessions \cup {"unused", "used"}
  /\ None \notin Browsers \cup Tokens \cup Sids

TypeOK ==
  /\ user \in Users \cup {None}
  /\ sessions \in [Sids -> Sessions \cup {None}]
  /\ links \in [Links -> {"unused", "used", None}]
  /\ browser \in [Browsers -> Cookies]
  /\ request \in [Threads -> Requests \cup {Idle}]
  /\ lastSet \in Passwords
  /\ stale \in BOOLEAN
  /\ uses \in [Links -> Nat]
  /\ crossed \in BOOLEAN
  /\ shared \subseteq Links
  /\ confused \subseteq Browsers
  /\ served \in 0..MaxRequests
  /\ faults \in 0..MaxFaults

-----------------------------------------------------------------------------
(* Rows.                                                                   *)

NewUserNamed(status) == [password |-> 0, outdated |-> FALSE, status |-> status]
NewUserUnverified == NewUserNamed("UNVERIFIED")
NewUser == NewUserNamed("PENDING_VERIFICATION")

NewSession(password) ==
  [rot |-> 0, revoked |-> FALSE, expired |-> FALSE, born |-> password,
   late |-> password # user.password]

(* refresh_session writes the token and the expiry, never revoked_at.      *)
RotatedAlive(session) ==
  [session EXCEPT !.rot = @ + 1, !.expired = FALSE, !.revoked = FALSE]
Rotated(session) ==
  [session EXCEPT !.rot = @ + 1, !.expired = FALSE, !.late = @ \/ session.expired]

IsActive(session) == session # None /\ ~session.revoked /\ ~session.expired

(* revoke_all_for_user: the sessions list_active_for_user finds.           *)
RevokedAll ==
  [s \in Sids |-> IF IsActive(sessions[s])
                  THEN [sessions[s] EXCEPT !.revoked = TRUE] ELSE sessions[s]]

(* authenticate replaces the hash of outdated parameters by a new one of   *)
(* the password it verified.                                               *)
RehashedAlways(row, read) ==
  [row EXCEPT !.password = read.password, !.outdated = FALSE]
Rehashed(row, read) == IF read.outdated THEN RehashedAlways(row, read) ELSE row

(* request_password_reset marks the unused links it read and adds one.     *)
LinkAdded(read, new) == [links EXCEPT ![new] = "unused"]
LinkReplaced(read, new) ==
  [l \in Links |-> IF l \in read THEN "used" ELSE LinkAdded(read, new)[l]]

NextFree(rows) == {i \in DOMAIN rows : rows[i] = None /\ \A j \in 1..(i - 1) : rows[j] # None}

-----------------------------------------------------------------------------
(* Cookies.                                                                *)

SessionCookieOnly(b, s, rot) == [browser EXCEPT ![b].token = <<s, rot>>]
BothCookies(b, s, rot) ==
  [browser EXCEPT ![b] = [token |-> <<s, rot>>, csrf |-> s]]

(* validate_session: the live session the cookie names, if any.            *)
Live(b) == {s \in Sids : IsActive(sessions[s])
                           /\ browser[b].token = <<s, sessions[s].rot>>}

(* A browser sends its CSRF cookie in the header too.  The check is passed *)
(* when the session cookie names no live session.                          *)
PassesCsrf(b) == \A s \in Live(b) : browser[b].csrf = s

Actor(b) ==
  CurrentActor(Live(b) # {},
               [deleted |-> FALSE, status |-> user.status,
                customer |-> Nobody, roles |-> {"CUSTOMER"}])

MayAct(b) ==
  /\ PassesCsrf(b)
  /\ Live(b) # {}
  /\ RequireAuthenticatedUser(Actor(b)) = "allow"

-----------------------------------------------------------------------------
(* Requests begin and end.                                                 *)

Fresh(kind, at, b) ==
  [kind |-> kind, at |-> at, browser |-> b, sid |-> None, password |-> None,
   outdated |-> FALSE, links |-> {}]

Busy == {t \in Threads : request[t].at # "idle"}

AboutToUse(t, l) == request[t].at = "password" /\ l \in request[t].links

Begin(t, req) ==
  /\ request[t] = Idle
  /\ served < MaxRequests
  /\ served' = served + 1
  /\ request' = [request EXCEPT ![t] = req]
  /\ confused' = IF req.browser # None
                      /\ \E other \in Busy : request[other].browser = req.browser
                 THEN confused \cup {req.browser} ELSE confused
  /\ crossed' = (crossed \/ /\ req.at = "link"
                            /\ \E other \in Busy : request[other].at = "link")
  /\ shared' = shared \cup {l \in req.links : /\ req.at = "password"
                                              /\ \E other \in Busy : AboutToUse(other, l)}
  /\ UNCHANGED <<user, sessions, links, browser, lastSet, stale, uses, faults>>

Goes(t, stage) == request' = [request EXCEPT ![t].at = stage]
Ends(t) == request' = [request EXCEPT ![t] = Idle]

-----------------------------------------------------------------------------
(* What each request reads when it begins.                                 *)

Register(t, b) ==
  /\ user = None
  /\ Begin(t, Fresh("register", "register", b))

(* The password presented is the one of the row read.                      *)
Login(t, b) ==
  /\ user # None
  /\ user.status \notin {"SUSPENDED", "DISABLED"}
  /\ Begin(t, [Fresh("login", "login", b) EXCEPT
                 !.password = user.password, !.outdated = user.outdated])

ChangePassword(t, b) ==
  /\ user # None
  /\ MayAct(b)
  /\ Begin(t, Fresh("change", "password", b))

RequestPasswordReset(t) ==
  /\ user # None
  /\ Begin(t, [Fresh("forgot", "link", None) EXCEPT
                 !.links = {l \in Links : links[l] = "unused"}])

(* A link that has expired is refused like a used one.                     *)
ResetPassword(t) == \E l \in Links :
  /\ user # None
  /\ links[l] = "unused"
  /\ Begin(t, [Fresh("reset", "password", None) EXCEPT !.links = {l}])

Refresh(t, b) == \E s \in Live(b) :
  /\ PassesCsrf(b)
  /\ sessions[s].rot < MaxRefreshes
  /\ Begin(t, [Fresh("refresh", "refresh", b) EXCEPT !.sid = s])

Logout(t, b) == \E s \in Live(b) :
  /\ PassesCsrf(b)
  /\ Begin(t, [Fresh("logout", "logout", b) EXCEPT !.sid = s])

(* Without a live session logout only clears the cookies.                  *)
LogoutDead(t, b) ==
  /\ request[t] = Idle
  /\ served < MaxRequests
  /\ served' = served + 1
  /\ browser[b] # NoCookies
  /\ Live(b) = {}
  /\ browser' = [browser EXCEPT ![b] = NoCookies]
  /\ confused' = IF \E other \in Busy : request[other].browser = b
                 THEN confused \cup {b} ELSE confused
  /\ UNCHANGED <<user, sessions, links, request, lastSet, stale, uses,
                 crossed, shared, faults>>

LogoutAll(t, b) ==
  /\ user # None
  /\ MayAct(b)
  /\ Begin(t, Fresh("logout_all", "revoke_all", b))

-----------------------------------------------------------------------------
(* The commits.                                                            *)

(* users.email is UNIQUE: of two registrations the second commit fails.    *)
CommitRegister(t) ==
  /\ request[t].at = "register"
  /\ IF user = None
     THEN /\ user' = NewUser
          /\ request' = [request EXCEPT ![t].at = "create", ![t].password = 0]
     ELSE Ends(t) /\ UNCHANGED user
  /\ UNCHANGED <<sessions, links, browser, lastSet, stale, uses, crossed, shared,
                 confused, served, faults>>

CommitLogin(t) ==
  LET read == request[t]
  IN  /\ read.at = "login"
      /\ user' = Rehashed(user, read)
      /\ stale' = (stale \/ (read.outdated /\ read.password # user.password))
      /\ Goes(t, "create")
      /\ UNCHANGED <<sessions, links, browser, lastSet, uses, crossed, shared,
                     confused, served, faults>>

AfterPasswordKeeping(kind) == IF kind = "change" THEN "create" ELSE "revoke_all"
AfterPassword(kind) == "revoke_all"

CommitPassword(t) ==
  LET password == lastSet + 1
      used     == request[t].links
  IN  /\ request[t].at = "password"
      /\ lastSet < MaxPasswords
      /\ user' = [user EXCEPT !.password = password, !.outdated = FALSE]
      /\ lastSet' = password
      /\ stale' = FALSE
      /\ links' = [l \in Links |-> IF l \in used THEN "used" ELSE links[l]]
      /\ uses' = [l \in Links |-> IF l \in used THEN uses[l] + 1 ELSE uses[l]]
      /\ request' = [request EXCEPT ![t].at = AfterPassword(request[t].kind),
                                    ![t].password = password]
      /\ UNCHANGED <<sessions, browser, crossed, shared, confused, served, faults>>

RevokeAll(t) ==
  LET kind == request[t].kind
  IN  /\ request[t].at = "revoke_all"
      /\ sessions' = RevokedAll
      /\ browser' = IF kind = "logout_all"
                    THEN [browser EXCEPT ![request[t].browser] = NoCookies]
                    ELSE browser
      /\ IF kind = "change" THEN Goes(t, "create") ELSE Ends(t)
      /\ UNCHANGED <<user, links, lastSet, stale, uses, crossed, shared, confused,
                     served, faults>>

CreateSession(t) == \E s \in NextFree(sessions) :
  /\ request[t].at = "create"
  /\ sessions' = [sessions EXCEPT ![s] = NewSession(request[t].password)]
  /\ browser' = BothCookies(request[t].browser, s, 0)
  /\ Ends(t)
  /\ UNCHANGED <<user, links, lastSet, stale, uses, crossed, shared, confused,
                 served, faults>>

CommitLink(t) == \E l \in NextFree(links) :
  /\ request[t].at = "link"
  /\ links' = LinkReplaced(request[t].links, l)
  /\ Ends(t)
  /\ UNCHANGED <<user, sessions, browser, lastSet, stale, uses, crossed, shared,
                 confused, served, faults>>

CommitRefresh(t) ==
  LET s == request[t].sid
  IN  /\ request[t].at = "refresh"
      /\ sessions[s].rot < MaxRefreshes
      /\ sessions' = [sessions EXCEPT ![s] = Rotated(@)]
      /\ browser' = SessionCookieOnly(request[t].browser, s, sessions[s].rot + 1)
      /\ Ends(t)
      /\ UNCHANGED <<user, links, lastSet, stale, uses, crossed, shared, confused,
                     served, faults>>

CommitLogout(t) ==
  /\ request[t].at = "logout"
  /\ sessions' = [sessions EXCEPT ![request[t].sid].revoked = TRUE]
  /\ browser' = [browser EXCEPT ![request[t].browser] = NoCookies]
  /\ Ends(t)
  /\ UNCHANGED <<user, links, lastSet, stale, uses, crossed, shared, confused,
                 served, faults>>

-----------------------------------------------------------------------------
(* Faults and time.                                                        *)

(* A request dies with its process, or its next commit fails.              *)
Crash(t) ==
  /\ t \in Busy
  /\ faults < MaxFaults
  /\ faults' = faults + 1
  /\ Ends(t)
  /\ UNCHANGED <<user, sessions, links, browser, lastSet, stale, uses,
                 crossed, shared, confused, served>>

(* Fourteen days after it was created or refreshed.                        *)
Expire(s) ==
  /\ IsActive(sessions[s])
  /\ sessions' = [sessions EXCEPT ![s].expired = TRUE]
  /\ UNCHANGED <<user, links, browser, request, lastSet, stale, uses,
                 crossed, shared, confused, served, faults>>

(* The CSRF cookie lives as long as its session would without refreshes.   *)
CsrfCookieExpires(b) == \E s \in Live(b) :
  /\ sessions[s].rot > 0
  /\ browser[b].csrf = s
  /\ browser' = [browser EXCEPT ![b].csrf = None]
  /\ UNCHANGED <<user, sessions, links, request, lastSet, stale, uses,
                 crossed, shared, confused, served, faults>>

-----------------------------------------------------------------------------
(* An address nobody registered, or an account with one browser signed in. *)
Init ==
  /\ \/ /\ user = None
        /\ sessions = [s \in Sids |-> None]
        /\ browser = [b \in Browsers |-> NoCookies]
     \/ \E first \in Browsers :
          /\ user \in [password : {0}, outdated : BOOLEAN,
                       status : {"ACTIVE", "SUSPENDED"}]
          /\ sessions = [s \in Sids |->
               IF s = 1 THEN [rot |-> 0, revoked |-> FALSE, expired |-> FALSE,
                              born |-> 0, late |-> FALSE]
               ELSE None]
          /\ browser = [b \in Browsers |->
               IF b = first THEN [token |-> <<1, 0>>, csrf |-> 1] ELSE NoCookies]
  /\ links = [l \in Links |-> None]
  /\ request = [t \in Threads |-> Idle]
  /\ lastSet = 0
  /\ stale = FALSE
  /\ uses = [l \in Links |-> 0]
  /\ crossed = FALSE
  /\ shared = {}
  /\ confused = {}
  /\ served = 0
  /\ faults = 0

Arrive(t) ==
  \/ \E b \in Browsers :
       \/ Register(t, b) \/ Login(t, b) \/ ChangePassword(t, b)
       \/ Refresh(t, b) \/ Logout(t, b) \/ LogoutDead(t, b) \/ LogoutAll(t, b)
  \/ RequestPasswordReset(t)
  \/ ResetPassword(t)

Proceed(t) ==
  \/ CommitRegister(t) \/ CommitLogin(t) \/ CommitPassword(t)
  \/ RevokeAll(t) \/ CreateSession(t) \/ CommitLink(t)
  \/ CommitRefresh(t) \/ CommitLogout(t)

Next ==
  \/ \E t \in Threads : Arrive(t) \/ Proceed(t) \/ Crash(t)
  \/ \E s \in Sids : Expire(s)
  \/ \E b \in Browsers : CsrfCookieExpires(b)

Spec == Init /\ [][Next]_vars

-----------------------------------------------------------------------------
(* Properties.                                                             *)

Quiet == Busy = {}

(* A session that was logged out, or ended with a change of the password,  *)
(* never comes back, whatever a refresh that read it before writes after   *)
(* (session_service.py refresh_session beside revoke and                   *)
(* revoke_all_for_user).                                                   *)
RevokedForGood ==
  [][\A s \in Sids : sessions[s] # None /\ sessions[s].revoked
       => sessions'[s].revoked]_sessions

(* When no request is under way and none died, every live session was made *)
(* by somebody who knew the password the account has had since: a change   *)
(* or a reset leaves no session of an older password, in whatever order    *)
(* it meets logins and other changes.  Left aside are the sessions of a    *)
(* request whose password was replaced before it created them, and those   *)
(* refreshed after they expired (routes/auth.py change_password,           *)
(* reset_password, _issue_session_and_respond).                            *)
SessionsKnowThePassword ==
  Quiet /\ faults = 0 /\ ~stale =>
    \A s \in Sids : IsActive(sessions[s]) /\ ~sessions[s].late
                      => sessions[s].born = user.password

(* The account has the password that was set last: a login under way does  *)
(* not bring the old one back, unless the hash it read was outdated        *)
(* (auth_service.py authenticate beside change_password, reset_password).  *)
PasswordIsLastSet == user # None /\ ~stale => user.password = lastSet

(* A link that has set a password is never good again, and sets no second  *)
(* one unless two requests read it before either had committed.  One link  *)
(* at most is good, unless two requests for a link overlapped, whatever    *)
(* resets they met (auth_service.py request_password_reset,                *)
(* reset_password; token_repository.py invalidate_all_unused_for_user).    *)
ResetLinksAreSingle ==
  /\ \A l \in Links : uses[l] > 0 => links[l] = "used"
  /\ \A l \in Links \ shared : uses[l] <= 1
  /\ ~crossed => \A l, m \in Links : links[l] = "unused" /\ links[m] = "unused" => l = m

(* A browser whose requests never overlapped is signed in to one session   *)
(* or to none: its session cookie names the present token of a session and *)
(* its CSRF cookie, unless it lapsed, is signed for the same one, through  *)
(* every refresh, change of password and new login (routes/auth.py         *)
(* _set_session_cookie, _set_csrf_cookie; middleware/csrf.py).             *)
BrowserKeepsSession ==
  \A b \in Browsers \ confused :
    (faults = 0 /\ \A t \in Busy : request[t].browser # b) =>
      \/ browser[b] = NoCookies
      \/ \E s \in Sids :
           /\ sessions[s] # None
           /\ browser[b].token = <<s, sessions[s].rot>>
           /\ \/ browser[b].csrf = s
              \/ browser[b].csrf = None /\ sessions[s].rot > 0
-----------------------------------------------------------------------------
(* The inductive invariant behind the properties of passwords, sessions    *)
(* and links.                                                              *)

UnusedLinks == {l \in Links : links[l] = "unused"}

(* A request carries what its next step uses.                              *)
RequestFits(req) ==
  /\ req.at \in {"login", "create"} => req.password \in Passwords
  /\ req.at = "revoke_all" =>
       req.kind = "logout_all" \/ req.password \in Passwords
  /\ req.at \in {"refresh", "logout"} =>
       req.sid \in Sids /\ sessions[req.sid] # None
  /\ req.at = "link" => req.kind = "forgot"
  /\ req.at = "password" => req.kind = "reset" \/ req.links = {}
  /\ req.at \notin {"register", "idle"} => user # None

RequestsFit == \A t \in Threads : RequestFits(request[t])

(* Nothing happens to an account before it exists.                         *)
AccountFirst == user = None => lastSet = 0 /\ sessions = [s \in Sids |-> None]

(* A session of an older password is about to be revoked.                  *)
OlderSessionsEnd ==
  faults = 0 /\ ~stale =>
    \A s \in Sids : IsActive(sessions[s]) /\ ~sessions[s].late =>
      \/ sessions[s].born = user.password
      \/ \E t \in Threads : request[t].at = "revoke_all"

(* A request that will mark the good links knows them all, if it is the    *)
(* only one.                                                               *)
AskersKnowTheLinks ==
  ~crossed =>
    /\ \A t, u \in Threads : request[t].at = "link" /\ request[u].at = "link" => t = u
    /\ \A t \in Threads : request[t].at = "link" => UnusedLinks \subseteq request[t].links

(* One that will use a link is alone with it, unless two shared it, and it *)
(* has set no password yet.                                                *)
UsersAreAlone ==
  \A l \in Links \ shared :
    /\ \A t, u \in Threads : AboutToUse(t, l) /\ AboutToUse(u, l) => t = u
    /\ \A t \in Threads : AboutToUse(t, l) => uses[l] = 0

LinkRequestsFit == AskersKnowTheLinks /\ UsersAreAlone

IInv ==
  /\ TypeOK
  /\ RequestsFit
  /\ AccountFirst
  /\ PasswordIsLastSet
  /\ OlderSessionsEnd
  /\ LinkRequestsFit
  /\ ResetLinksAreSingle
=============================================================================
