------------------------------ MODULE Sessions ------------------------------
(***************************************************************************)
(* POST /auth/login, /auth/refresh, /auth/logout and GET /auth/me: the     *)
(* tokens the server signs and forgets, and the two cookies of a browser.  *)
(* A token says what its user was allowed when it was signed.  Meanwhile   *)
(* riders are suspended, hubs go out of service, time passes, and answers  *)
(* reach the browser in any order or not at all.                           *)
(*                                                                         *)
(* There is one browser: browsers share nothing but the rows of users and  *)
(* hubs.  A pair of tokens is known by the request that issued it.  Time   *)
(* is counted down, in seconds: what is left of a token, of a cookie.      *)
(***************************************************************************)
EXTENDS Integers, FiniteSets

CONSTANTS
    Riders,
    HubAdmins,
    Hubs,
    OwnerOf,           \* the user each hub belongs to, of whatever role
    Requests,
    Offered,           \* what a request may ask for: a set of records of type Calls
    AccessExpiresIn,   \* JWT_ACCESS_EXPIRES_IN and JWT_REFRESH_EXPIRES_IN
    RefreshExpiresIn,
    Latency,           \* bound: seconds from reading the user to signing
    Nothing            \* no token, and no user

Users == Riders \cup HubAdmins

(* A duration as it is configured: 15m is [amount |-> 15, unit |-> "m"].   *)
Seconds == [s |-> 1, m |-> 60, h |-> 3600, d |-> 86400]
Durations == [amount : Nat, unit : DOMAIN Seconds \cup {"w"}]

\* setAuthCookies: a unit that is not known counts as a quarter of an hour.
CookieLife(d) ==
    IF d.unit \in DOMAIN Seconds THEN d.amount * Seconds[d.unit] ELSE 15 * 60

\* jsonwebtoken knows weeks too.
TokenLife(d) == d.amount * (IF d.unit = "w" THEN 604800 ELSE Seconds[d.unit])

AccessLife == TokenLife(AccessExpiresIn)
RefreshLife == TokenLife(RefreshExpiresIn)

\* `good` says whether the password is right; only a login has one.
Calls == [op : {"login", "refresh", "logout", "me"}, user : Users, good : BOOLEAN]

ASSUME SessionsAssumption ==
    /\ Riders \cap HubAdmins = {}
    /\ OwnerOf \in [Hubs -> Users \cup {Nothing}]
    /\ Users \cap Hubs = {}
    /\ Nothing \notin Requests \cup Users
    /\ Offered \subseteq Calls
    /\ AccessExpiresIn \in Durations
    /\ RefreshExpiresIn \in Durations
    /\ Latency \in Nat

VARIABLES
    active,    \* the users whose status is active
    open,      \* the hubs that exist and are active
    jar,       \* the browser's cookies
    call, pc, result,
    sent,      \* the tokens each request was sent with
    hubsRead,  \* what each request read of its user's hubs
    issued,    \* the pair of tokens each request signed
    waited,    \* history: seconds since a request read its user
    idle,      \* history: seconds since a user was last active, a hub last open
    signedOut  \* history: a logout was answered, and no login sent since

vars == <<active, open, jar, call, pc, result, sent, hubsRead, issued, waited, idle, signedOut>>
rows == <<active, open>>

\* Longer than any of this is as good as for ever.
Horizon == AccessLife + Latency + 1

Tokens == [user : Users \cup {Nothing}, hubs : SUBSET Hubs,
           access : 0 .. AccessLife, refresh : 0 .. RefreshLife]
NoRequest == [access |-> Nothing, refresh |-> Nothing]
NoTokens == [user |-> Nothing, hubs |-> {}, access |-> 0, refresh |-> 0]

NoCookie == [by |-> Nothing, left |-> 0]
EmptyJar == [access |-> NoCookie, refresh |-> NoCookie]
Cookie(r, d) == IF CookieLife(d) = 0 THEN NoCookie ELSE [by |-> r, left |-> CookieLife(d)]

Init ==
    /\ active = Users
    /\ open = Hubs
    /\ jar = EmptyJar
    /\ call \in [Requests -> Offered]
    /\ pc = [r \in Requests |-> "unsent"]
    /\ result = [r \in Requests |-> "none"]
    /\ sent = [r \in Requests |-> NoRequest]
    /\ hubsRead = [r \in Requests |-> {}]
    /\ issued = [r \in Requests |-> NoTokens]
    /\ waited = [r \in Requests |-> 0]
    /\ idle = [x \in Users \cup Hubs |-> 0]
    /\ signedOut = FALSE

-----------------------------------------------------------------------------
(* The requests.                                                           *)

At(r, step) == pc[r] = step
GoTo(r, step) == pc' = [pc EXCEPT ![r] = step]

\* What a request remembers goes with it.
End(r) ==
    /\ GoTo(r, "end")
    /\ sent' = [sent EXCEPT ![r] = NoRequest]
    /\ hubsRead' = [hubsRead EXCEPT ![r] = {}]
    /\ waited' = [waited EXCEPT ![r] = 0]

Refuse(r) ==
    /\ GoTo(r, "answer")
    /\ result' = [result EXCEPT ![r] = "unauthorized"]

Succeed(r) ==
    /\ GoTo(r, "answer")
    /\ result' = [result EXCEPT ![r] = "ok"]

\* The user a request is about: its own, or its token's.
Subject(r) ==
    CASE call[r].op = "login"   -> call[r].user
      [] call[r].op = "refresh" -> issued[sent[r].refresh].user
      [] OTHER                  -> issued[sent[r].access].user

\* The tokens the browser sends: the access token's cookie goes before the
\* Authorization header, which may hold any token an answer has brought.
Kept == {t \in Requests : pc[t] = "end" /\ result[t] = "ok" /\ issued[t] # NoTokens}
AccessTokens == IF jar.access.by # Nothing THEN {jar.access.by} ELSE {Nothing} \cup Kept

FirstStep == [login |-> "findUser", refresh |-> "verify", logout |-> "guard", me |-> "guard"]

Send(r) ==
    /\ At(r, "unsent")
    /\ \E token \in AccessTokens :
          sent' = [sent EXCEPT ![r] = [access |-> token, refresh |-> jar.refresh.by]]
    /\ GoTo(r, FirstStep[call[r].op])
    /\ signedOut' = (signedOut /\ call[r].op # "login")
    /\ UNCHANGED <<rows, jar, call, result, hubsRead, issued, waited, idle>>

IsActive(u) == u \in active

\* login: findActiveByPhone, then the password.
FindUser(r) ==
    /\ At(r, "findUser")
    /\ IF IsActive(call[r].user) /\ call[r].good
       THEN GoTo(r, "hubs") /\ result' = result
       ELSE Refuse(r)
    /\ UNCHANGED <<rows, jar, call, sent, hubsRead, issued, waited, idle, signedOut>>

\* refresh: the token's signature and its expiry.
VerifyRefresh(r) ==
    /\ At(r, "verify")
    /\ IF sent[r].refresh # Nothing /\ issued[sent[r].refresh].refresh > 0
       THEN GoTo(r, "findById") /\ result' = result
       ELSE Refuse(r)
    /\ UNCHANGED <<rows, jar, call, sent, hubsRead, issued, waited, idle, signedOut>>

\* Variant: refresh trusts its token, whatever became of the user.
FindByIdAnyStatus(r) ==
    /\ At(r, "findById")
    /\ GoTo(r, "hubs")
    /\ UNCHANGED <<rows, jar, call, result, sent, hubsRead, issued, waited, idle, signedOut>>

\* refresh: the user of the token must still be active.
FindById(r) ==
    /\ At(r, "findById")
    /\ IF IsActive(Subject(r))
       THEN GoTo(r, "hubs") /\ result' = result
       ELSE Refuse(r)
    /\ UNCHANGED <<rows, jar, call, sent, hubsRead, issued, waited, idle, signedOut>>

\* JwtAuthGuard and JwtStrategy ask nothing of the database.
IsGood(token) == token # Nothing /\ issued[token].access > 0
VerifyAccess(r) ==
    /\ At(r, "guard")
    /\ IF IsGood(sent[r].access)
       THEN IF call[r].op = "me" THEN GoTo(r, "hubs") /\ result' = result ELSE Succeed(r)
       ELSE Refuse(r)
    /\ UNCHANGED <<rows, jar, call, sent, hubsRead, issued, waited, idle, signedOut>>

HubsOf(u) == IF u \in HubAdmins THEN {h \in open : OwnerOf[h] = u} ELSE {}

\* Variant: refresh takes over the hubs of its token.
ResolveHubsFromToken(r) ==
    /\ At(r, "hubs")
    /\ hubsRead' = [hubsRead EXCEPT ![r] =
                       IF call[r].op = "refresh"
                       THEN issued[sent[r].refresh].hubs ELSE HubsOf(Subject(r))]
    /\ IF call[r].op = "me" THEN Succeed(r) ELSE GoTo(r, "sign") /\ result' = result
    /\ UNCHANGED <<rows, jar, call, sent, issued, waited, idle, signedOut>>

\* resolveHubIds: only a hub admin has any.  `me` answers with what it finds, whatever
\* the status of the user and the hubs of the token.
ResolveHubs(r) ==
    /\ At(r, "hubs")
    /\ hubsRead' = [hubsRead EXCEPT ![r] = HubsOf(Subject(r))]
    /\ IF call[r].op = "me" THEN Succeed(r) ELSE GoTo(r, "sign") /\ result' = result
    /\ UNCHANGED <<rows, jar, call, sent, issued, waited, idle, signedOut>>

\* issueTokens
Sign(r) ==
    /\ At(r, "sign")
    /\ issued' = [issued EXCEPT ![r] =
                    [user |-> Subject(r), hubs |-> hubsRead[r],
                     access |-> AccessLife, refresh |-> RefreshLife]]
    /\ Succeed(r)
    /\ UNCHANGED <<rows, jar, call, sent, hubsRead, waited, idle, signedOut>>

Granted(r) == result[r] = "ok" /\ call[r].op \in {"login", "refresh"}
Cleared(r) == result[r] = "ok" /\ call[r].op = "logout"

\* Variants: refresh renews the access cookie alone; setAuthCookies uses one of
\* the two durations for both cookies.
CookiesSetByHalf(r) ==
    CASE Granted(r) ->
            [access |-> Cookie(r, AccessExpiresIn),
             refresh |-> IF call[r].op = "login" THEN Cookie(r, RefreshExpiresIn) ELSE jar.refresh]
      [] Cleared(r) -> EmptyJar
      [] OTHER -> jar
CookiesSetByLonger(r) ==
    CASE Granted(r) ->
            [access |-> Cookie(r, RefreshExpiresIn), refresh |-> Cookie(r, RefreshExpiresIn)]
      [] Cleared(r) -> EmptyJar
      [] OTHER -> jar
CookiesSetByShorter(r) ==
    CASE Granted(r) ->
            [access |-> Cookie(r, AccessExpiresIn), refresh |-> Cookie(r, AccessExpiresIn)]
      [] Cleared(r) -> EmptyJar
      [] OTHER -> jar

\* setAuthCookies and clearAuthCookies: both cookies, in one answer.
CookiesSetBy(r) ==
    CASE Granted(r) ->
            [access |-> Cookie(r, AccessExpiresIn), refresh |-> Cookie(r, RefreshExpiresIn)]
      [] Cleared(r) -> EmptyJar
      [] OTHER -> jar

LoggingIn == {r \in Requests : call[r].op = "login" /\ pc[r] \notin {"unsent", "end"}}

\* The answer reaches the browser.
Answer(r) ==
    /\ At(r, "answer")
    /\ jar' = CookiesSetBy(r)
    /\ signedOut' = (signedOut \/ (Cleared(r) /\ LoggingIn = {}))
    /\ End(r)
    /\ UNCHANGED <<rows, call, result, issued, idle>>

\* The answer is lost, or the client no longer listens.
Lose(r) ==
    /\ At(r, "answer")
    /\ End(r)
    /\ result' = [result EXCEPT ![r] = "lost"]
    /\ UNCHANGED <<rows, jar, call, issued, idle, signedOut>>

\* A query fails, or the server stops: a 500, or no answer, and no token.
Fail(r) ==
    /\ pc[r] \notin {"unsent", "answer", "end"}
    /\ End(r)
    /\ result' = [result EXCEPT ![r] = "failed"]
    /\ UNCHANGED <<rows, jar, call, issued, idle, signedOut>>

-----------------------------------------------------------------------------
(* What happens to the rows meanwhile, and time.                           *)

requests == <<jar, call, pc, result, sent, hubsRead, issued, waited, signedOut>>

\* PATCH /riders/:id; nothing in the code changes the status of another user.
SetStatus(u) ==
    /\ \/ active' = active \ {u}
       \/ active' = active \cup {u}
    /\ idle' = IF u \in active' THEN [idle EXCEPT ![u] = 0] ELSE idle
    /\ UNCHANGED <<open, requests>>

\* PATCH /hubs/:id, and POST and DELETE too: a hub comes or goes.
SetHubStatus(h) ==
    /\ \/ open' = open \ {h}
       \/ open' = open \cup {h}
    /\ idle' = IF h \in open' THEN [idle EXCEPT ![h] = 0] ELSE idle
    /\ UNCHANGED <<active, requests>>

Granting(r) == call[r].op \in {"login", "refresh"} /\ pc[r] \in {"hubs", "sign"}

CountDown(n) == IF n > 0 THEN n - 1 ELSE 0
AgedTokens(t) == [t EXCEPT !.access = CountDown(@), !.refresh = CountDown(@)]
Aged(cookie) == IF cookie.left > 1 THEN [cookie EXCEPT !.left = @ - 1] ELSE NoCookie

\* A second passes; no request takes more than Latency of them to sign.
Tick ==
    /\ \A r \in Requests : Granting(r) => waited[r] < Latency
    /\ waited' = [r \in Requests |-> IF Granting(r) THEN waited[r] + 1 ELSE waited[r]]
    /\ issued' = [r \in Requests |-> AgedTokens(issued[r])]
    /\ jar' = [access |-> Aged(jar.access), refresh |-> Aged(jar.refresh)]
    /\ idle' = [x \in Users \cup Hubs |->
                  IF x \in active \cup open \/ idle[x] = Horizon THEN idle[x] ELSE idle[x] + 1]
    /\ UNCHANGED <<rows, call, pc, result, sent, hubsRead, signedOut>>

Next ==
    \/ \E r \in Requests :
          \/ Send(r)
          \/ FindUser(r) \/ VerifyRefresh(r) \/ FindById(r) \/ VerifyAccess(r)
          \/ ResolveHubs(r) \/ Sign(r)
          \/ Answer(r) \/ Lose(r) \/ Fail(r)
    \/ \E u \in Riders : SetStatus(u)
    \/ \E h \in Hubs : SetHubStatus(h)
    \/ Tick

Spec == Init /\ [][Next]_vars

-----------------------------------------------------------------------------

Cookies(life) == [by : Requests \cup {Nothing}, left : 0 .. life]

\* The types of the variables; a cookie that is there holds tokens that were
\* issued, and a request past its checks has a user.
TypeOK ==
    /\ active \subseteq Users
    /\ open \subseteq Hubs
    /\ jar \in [access : Cookies(CookieLife(AccessExpiresIn)),
                refresh : Cookies(CookieLife(RefreshExpiresIn))]
    /\ call \in [Requests -> Calls]
    /\ pc \in [Requests -> {"unsent", "findUser", "verify", "findById", "guard", "hubs",
                            "sign", "answer", "end"}]
    /\ result \in [Requests -> {"none", "ok", "unauthorized", "failed", "lost"}]
    /\ sent \in [Requests -> [access : Requests \cup {Nothing}, refresh : Requests \cup {Nothing}]]
    /\ hubsRead \in [Requests -> SUBSET Hubs]
    /\ issued \in [Requests -> Tokens]
    /\ waited \in [Requests -> 0 .. Latency]
    /\ idle \in [Users \cup Hubs -> 0 .. Horizon]
    /\ signedOut \in BOOLEAN

Age(r) == AccessLife - issued[r].access

\* What an access token lets its bearer do was true not long ago: its user was
\* active, and each of its hubs open and this hub admin's, no longer than the token's
\* own age and Latency before now.  Refreshing again and again never stretches
\* an authority that was withdrawn: refresh reads the status and the hubs anew
\* (auth.service.ts, refresh), although the guards never do (jwt.strategy.ts).
AuthorityIsRecent ==
    \A r \in Requests : issued[r].access > 0 =>
        /\ idle[issued[r].user] <= Age(r) + Latency
        /\ \A h \in issued[r].hubs :
              /\ issued[r].user \in HubAdmins
              /\ OwnerOf[h] = issued[r].user
              /\ idle[h] <= Age(r) + Latency

\* Whatever the order in which the answers of logins, refreshes and logouts
\* arrive, the browser never holds an access token of one user and a refresh
\* token of another: each answer sets or clears both (auth-cookie.service.ts).
CookiesAgree ==
    jar.access.by # Nothing /\ jar.refresh.by # Nothing =>
        issued[jar.access.by].user = issued[jar.refresh.by].user

\* A cookie stays as long as the token in it is good, so that a browser loses
\* no session it could have kept: setAuthCookies reads the durations its own
\* way, and for units it knows it reads them as jsonwebtoken does.
CookiesOutliveTokens ==
    /\ AccessExpiresIn.unit \in DOMAIN Seconds =>
          (jar.access.by # Nothing => jar.access.left >= issued[jar.access.by].access)
    /\ RefreshExpiresIn.unit \in DOMAIN Seconds =>
          (jar.refresh.by # Nothing => jar.refresh.left >= issued[jar.refresh.by].refresh)

\* `Session cleared`, says auth.controller.ts of a logout that is answered:
\* until a login is sent the browser has no cookies.  Not so: a refresh that
\* was sent before the logout and is answered after it sets them again.
LogoutClearsTheSession == signedOut => jar = EmptyJar

=============================================================================
