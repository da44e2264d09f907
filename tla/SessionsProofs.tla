--------------------------- MODULE SessionsProofs ---------------------------
(***************************************************************************)
(* For any users, hubs, requests and lives of tokens: the authority of an  *)
(* access token is recent, the two cookies come from one answer, and each  *)
(* lasts as long as its token.  The inductive invariant says what is true  *)
(* of a request between its reads and its signature.                       *)
(***************************************************************************)
EXTENDS Sessions, TLAPS

Issued(t) == issued[t].user \in Users

\* Who is active, or open, has been idle for no time.
LiveIsNotIdle == \A x \in active \cup open : idle[x] = 0

\* The step a request is at fits what it asks for, and the tokens it was sent
\* with are ones that were signed.
RequestInv(r) ==
    /\ pc[r] = "findUser" => call[r].op = "login"
    /\ pc[r] \in {"verify", "findById"} => call[r].op = "refresh"
    /\ pc[r] = "guard" => call[r].op \in {"logout", "me"}
    /\ pc[r] = "hubs" => call[r].op # "logout"
    /\ pc[r] = "sign" => call[r].op \in {"login", "refresh"}
    /\ sent[r].access # Nothing => Issued(sent[r].access)
    /\ sent[r].refresh # Nothing => Issued(sent[r].refresh)
    /\ pc[r] = "findById" => sent[r].refresh # Nothing

\* What a request is about to sign has been true since it read its user.
GrantInv(r) == Granting(r) =>
    /\ call[r].op = "refresh" => sent[r].refresh # Nothing
    /\ Subject(r) \in Users
    /\ idle[Subject(r)] <= waited[r]
    /\ pc[r] = "sign" => \A h \in hubsRead[r] :
          Subject(r) \in HubAdmins /\ OwnerOf[h] = Subject(r) /\ idle[h] <= waited[r]

\* Only a request that has an answer has signed anything.
TokenInv(r) ==
    /\ pc[r] \notin {"answer", "end"} => issued[r] = NoTokens
    /\ pc[r] = "answer" /\ Granted(r) => Issued(r)
    /\ issued[r].user = Nothing => issued[r] = NoTokens

\* A cookie holds a token that an answer has brought, and one answer brought
\* both cookies.
JarInv ==
    /\ jar.access.by # Nothing => pc[jar.access.by] = "end" /\ Issued(jar.access.by)
    /\ jar.refresh.by # Nothing => pc[jar.refresh.by] = "end" /\ Issued(jar.refresh.by)
    /\ jar.access.by # Nothing /\ jar.refresh.by # Nothing => jar.access.by = jar.refresh.by

IInv ==
    /\ TypeOK
    /\ LiveIsNotIdle
    /\ \A r \in Requests : RequestInv(r) /\ GrantInv(r) /\ TokenInv(r)
    /\ JarInv
    /\ AuthorityIsRecent
    /\ CookiesOutliveTokens

-----------------------------------------------------------------------------
LEMMA Lives ==
    /\ AccessLife \in Nat /\ RefreshLife \in Nat /\ Horizon \in Nat
    /\ CookieLife(AccessExpiresIn) \in Nat /\ CookieLife(RefreshExpiresIn) \in Nat
    /\ AccessExpiresIn.unit \in DOMAIN Seconds => CookieLife(AccessExpiresIn) = AccessLife
    /\ RefreshExpiresIn.unit \in DOMAIN Seconds => CookieLife(RefreshExpiresIn) = RefreshLife
<1> DEFINE Unit(d) == IF d.unit = "w" THEN 604800 ELSE Seconds[d.unit]
<1>1. ASSUME NEW d \in Durations
      PROVE  /\ TokenLife(d) \in Nat
             /\ CookieLife(d) \in Nat
             /\ d.unit \in DOMAIN Seconds => CookieLife(d) = TokenLife(d)
    <2>1. d.amount \in Nat
        BY DEF Durations
    <2>2. DOMAIN Seconds = {"s", "m", "h", "d"}
        BY DEF Seconds
    <2>3. d.unit \in {"s", "m", "h", "d", "w"}
        BY <2>2 DEF Durations
    <2>4. CASE d.unit = "w"
        BY <2>1, <2>2, <2>4 DEF TokenLife, CookieLife
    <2>5. CASE d.unit = "s"
        BY <2>1, <2>2, <2>5 DEF TokenLife, CookieLife, Seconds
    <2>6. CASE d.unit = "m"
        BY <2>1, <2>2, <2>6 DEF TokenLife, CookieLife, Seconds
    <2>7. CASE d.unit = "h"
        BY <2>1, <2>2, <2>7 DEF TokenLife, CookieLife, Seconds
    <2>8. CASE d.unit = "d"
        BY <2>1, <2>2, <2>8 DEF TokenLife, CookieLife, Seconds
    <2> QED BY <2>3, <2>4, <2>5, <2>6, <2>7, <2>8
<1>2. /\ TokenLife(AccessExpiresIn) \in Nat /\ TokenLife(RefreshExpiresIn) \in Nat
      /\ CookieLife(AccessExpiresIn) \in Nat /\ CookieLife(RefreshExpiresIn) \in Nat
    BY <1>1, SessionsAssumption
<1>3. Horizon \in Nat
    BY <1>2, SessionsAssumption DEF Horizon, AccessLife
<1> QED BY <1>1, <1>2, <1>3, SessionsAssumption DEF AccessLife, RefreshLife

LEMMA InitHolds == Init => IInv
<1> SUFFICES ASSUME Init PROVE IInv
    OBVIOUS
<1> USE DEF Init
<1>1. TypeOK
    <2>1. call \in [Requests -> Calls]
        BY SessionsAssumption
    <2>2. NoTokens \in Tokens
        BY Lives DEF NoTokens, Tokens
    <2>3. jar \in [access : Cookies(CookieLife(AccessExpiresIn)),
                  refresh : Cookies(CookieLife(RefreshExpiresIn))]
        BY Lives DEF EmptyJar, NoCookie, Cookies
    <2>4. waited \in [Requests -> 0 .. Latency] /\ idle \in [Users \cup Hubs -> 0 .. Horizon]
        BY Lives, SessionsAssumption
    <2>5. issued \in [Requests -> Tokens]
        BY <2>2
    <2>6. sent \in [Requests -> [access : Requests \cup {Nothing}, refresh : Requests \cup {Nothing}]]
        BY DEF NoRequest
    <2> QED BY <2>1, <2>3, <2>4, <2>5, <2>6 DEF TypeOK
<1>2. LiveIsNotIdle
    BY DEF LiveIsNotIdle
<1>3. \A r \in Requests : RequestInv(r) /\ GrantInv(r) /\ TokenInv(r)
    BY DEF RequestInv, GrantInv, TokenInv, Granting, NoRequest
<1>4. JarInv /\ CookiesOutliveTokens
    BY DEF JarInv, CookiesOutliveTokens, EmptyJar, NoCookie
<1>5. AuthorityIsRecent
    BY DEF AuthorityIsRecent, NoTokens
<1> QED BY <1>1, <1>2, <1>3, <1>4, <1>5 DEF IInv

-----------------------------------------------------------------------------
(* A step of request r: the others are as they were.                       *)
LocalStep(r) ==
    /\ call' = call /\ idle' = idle /\ rows' = rows
    /\ \A q \in Requests \ {r} :
          /\ pc'[q] = pc[q] /\ result'[q] = result[q] /\ sent'[q] = sent[q]
          /\ hubsRead'[q] = hubsRead[q] /\ waited'[q] = waited[q] /\ issued'[q] = issued[q]
    /\ \A t \in Requests : Issued(t) => issued'[t] = issued[t]

LEMMA OthersKeep ==
    ASSUME IInv, NEW r \in Requests, LocalStep(r), NEW q \in Requests, q # r
    PROVE  RequestInv(q)' /\ GrantInv(q)' /\ TokenInv(q)'
<1> USE DEF LocalStep
<1>0. /\ sent[q].access \in Requests \cup {Nothing}
      /\ sent[q].refresh \in Requests \cup {Nothing}
    BY DEF IInv, TypeOK
<1>1. RequestInv(q)'
    BY <1>0 DEF IInv, RequestInv, Issued
<1>2. TokenInv(q)'
    BY DEF IInv, TokenInv, Issued, Granted
<1>3. Granting(q)' => Granting(q)
    BY DEF Granting
<1>4. Granting(q) => Subject(q)' = Subject(q)
    BY <1>0 DEF IInv, GrantInv, RequestInv, Granting, Subject, Issued
<1>5. GrantInv(q)'
    BY <1>3, <1>4 DEF IInv, GrantInv
<1> QED BY <1>1, <1>2, <1>5

\* Neither does the step touch what else the invariant says, if it signs nothing
\* and is not one that brings an answer.
LEMMA RestKeeps ==
    ASSUME IInv, NEW r \in Requests, LocalStep(r), issued' = issued, jar' = jar, pc[r] # "end"
    PROVE  LiveIsNotIdle' /\ JarInv' /\ AuthorityIsRecent' /\ CookiesOutliveTokens'
<1> USE DEF IInv, LocalStep
<1>1. LiveIsNotIdle'
    BY DEF LiveIsNotIdle, rows
<1>2. JarInv'
    <2>1. /\ jar.access.by \in Requests \cup {Nothing}
          /\ jar.refresh.by \in Requests \cup {Nothing}
        BY DEF TypeOK, Cookies
    <2> QED BY <2>1 DEF JarInv, Issued
<1>3. AuthorityIsRecent' /\ CookiesOutliveTokens'
    BY DEF AuthorityIsRecent, Age, CookiesOutliveTokens
<1> QED BY <1>1, <1>2, <1>3

LEMMA SendKeeps == ASSUME IInv, NEW r \in Requests, Send(r) PROVE IInv'
<1> USE DEF Send, At, GoTo
<1> PICK token \in AccessTokens :
        sent' = [sent EXCEPT ![r] = [access |-> token, refresh |-> jar.refresh.by]]
    OBVIOUS
<1>1. /\ token \in Requests \cup {Nothing}
      /\ jar.refresh.by \in Requests \cup {Nothing}
      /\ token # Nothing => Issued(token)
      /\ jar.refresh.by # Nothing => Issued(jar.refresh.by)
    BY DEF IInv, TypeOK, Cookies, AccessTokens, Kept, JarInv, TokenInv, Issued, Tokens
<1>2. TypeOK'
    BY <1>1 DEF IInv, TypeOK, rows, FirstStep, Calls
<1>3. LocalStep(r)
    BY DEF LocalStep, rows, IInv, TypeOK
<1>4. RequestInv(r)'
    BY <1>1 DEF IInv, TypeOK, RequestInv, FirstStep, Calls, Issued
<1>5. GrantInv(r)' /\ TokenInv(r)'
    BY DEF IInv, TypeOK, GrantInv, Granting, TokenInv, FirstStep, Calls
<1>6. LiveIsNotIdle' /\ JarInv' /\ AuthorityIsRecent' /\ CookiesOutliveTokens'
    BY <1>3, RestKeeps
<1> QED BY <1>2, <1>3, <1>4, <1>5, <1>6, OthersKeep DEF IInv

LEMMA FindUserKeeps == ASSUME IInv, NEW r \in Requests, FindUser(r) PROVE IInv'
<1> USE DEF FindUser, At, GoTo, Refuse
<1>1. TypeOK'
    BY DEF IInv, TypeOK, rows
<1>2. LocalStep(r)
    BY DEF LocalStep, rows, IInv, TypeOK
<1>3. RequestInv(r)' /\ TokenInv(r)'
    BY DEF IInv, TypeOK, RequestInv, TokenInv, Issued, Granted
<1>4. GrantInv(r)'
    <2>1. call[r].op = "login" /\ call[r].user \in Users /\ waited[r] \in Nat
        BY SessionsAssumption DEF IInv, TypeOK, RequestInv, Calls
    <2>2. ASSUME IsActive(call[r].user) PROVE idle[call[r].user] = 0
        BY <2>2 DEF IsActive, IInv, LiveIsNotIdle
    <2> QED BY <2>1, <2>2 DEF IInv, TypeOK, GrantInv, Granting, Subject
<1>5. LiveIsNotIdle' /\ JarInv' /\ AuthorityIsRecent' /\ CookiesOutliveTokens'
    BY <1>2, RestKeeps
<1> QED BY <1>1, <1>2, <1>3, <1>4, <1>5, OthersKeep DEF IInv

LEMMA VerifyRefreshKeeps == ASSUME IInv, NEW r \in Requests, VerifyRefresh(r) PROVE IInv'
<1> USE DEF VerifyRefresh, At, GoTo, Refuse
<1>1. TypeOK'
    BY DEF IInv, TypeOK, rows
<1>2. LocalStep(r)
    BY DEF LocalStep, rows, IInv, TypeOK
<1>3. RequestInv(r)' /\ TokenInv(r)' /\ GrantInv(r)'
    BY DEF IInv, TypeOK, RequestInv, TokenInv, Issued, Granted, GrantInv, Granting
<1>4. LiveIsNotIdle' /\ JarInv' /\ AuthorityIsRecent' /\ CookiesOutliveTokens'
    BY <1>2, RestKeeps
<1> QED BY <1>1, <1>2, <1>3, <1>4, OthersKeep DEF IInv

LEMMA FindByIdKeeps == ASSUME IInv, NEW r \in Requests, FindById(r) PROVE IInv'
<1> USE DEF FindById, At, GoTo, Refuse
<1>1. TypeOK'
    BY DEF IInv, TypeOK, rows
<1>2. LocalStep(r)
    BY DEF LocalStep, rows, IInv, TypeOK
<1>3. RequestInv(r)' /\ TokenInv(r)'
    BY DEF IInv, TypeOK, RequestInv, TokenInv, Issued, Granted
<1>4. GrantInv(r)'
    <2>1. /\ call[r].op = "refresh" /\ sent[r].refresh # Nothing /\ waited[r] \in Nat
          /\ Subject(r) = issued[sent[r].refresh].user /\ Subject(r) \in Users
        BY SessionsAssumption DEF IInv, TypeOK, RequestInv, Subject, Issued
    <2>2. ASSUME IsActive(Subject(r)) PROVE idle[Subject(r)] = 0
        BY <2>2 DEF IsActive, IInv, LiveIsNotIdle
    <2>3. Subject(r)' = Subject(r)
        BY DEF Subject
    <2> QED BY <2>1, <2>2, <2>3 DEF IInv, TypeOK, GrantInv, Granting
<1>5. LiveIsNotIdle' /\ JarInv' /\ AuthorityIsRecent' /\ CookiesOutliveTokens'
    BY <1>2, RestKeeps
<1> QED BY <1>1, <1>2, <1>3, <1>4, <1>5, OthersKeep DEF IInv

LEMMA VerifyAccessKeeps == ASSUME IInv, NEW r \in Requests, VerifyAccess(r) PROVE IInv'
<1> USE DEF VerifyAccess, At, GoTo, Refuse, Succeed
<1>1. TypeOK'
    BY DEF IInv, TypeOK, rows
<1>2. LocalStep(r)
    BY DEF LocalStep, rows, IInv, TypeOK
<1>3. call[r].op \in {"logout", "me"}
    BY DEF IInv, TypeOK, RequestInv, Calls
<1>4. RequestInv(r)' /\ TokenInv(r)' /\ GrantInv(r)'
    BY <1>3 DEF IInv, TypeOK, RequestInv, TokenInv, Issued, Granted, GrantInv, Granting
<1>5. LiveIsNotIdle' /\ JarInv' /\ AuthorityIsRecent' /\ CookiesOutliveTokens'
    BY <1>2, RestKeeps
<1> QED BY <1>1, <1>2, <1>4, <1>5, OthersKeep DEF IInv

LEMMA ResolveHubsKeeps == ASSUME IInv, NEW r \in Requests, ResolveHubs(r) PROVE IInv'
<1> USE DEF ResolveHubs, At, GoTo, Succeed
<1>1. TypeOK'
    BY DEF IInv, TypeOK, rows, HubsOf
<1>2. LocalStep(r)
    BY DEF LocalStep, rows, IInv, TypeOK
<1>3. call[r].op \in {"login", "refresh", "me"}
    BY DEF IInv, TypeOK, RequestInv, Calls
<1>4. RequestInv(r)' /\ TokenInv(r)'
    BY <1>3 DEF IInv, TypeOK, RequestInv, TokenInv, Issued, Granted
<1>5. GrantInv(r)'
    <2>1. Subject(r)' = Subject(r)
        BY DEF Subject
    <2>2. \A h \in HubsOf(Subject(r)) :
             Subject(r) \in HubAdmins /\ OwnerOf[h] = Subject(r) /\ idle[h] = 0
        BY DEF HubsOf, IInv, LiveIsNotIdle
    <2>3. waited[r] \in Nat
        BY SessionsAssumption DEF IInv, TypeOK
    <2> QED BY <1>3, <2>1, <2>2, <2>3 DEF IInv, TypeOK, GrantInv, Granting
<1>6. LiveIsNotIdle' /\ JarInv' /\ AuthorityIsRecent' /\ CookiesOutliveTokens'
    BY <1>2, RestKeeps
<1> QED BY <1>1, <1>2, <1>4, <1>5, <1>6, OthersKeep DEF IInv

LEMMA SignKeeps == ASSUME IInv, NEW r \in Requests, Sign(r) PROVE IInv'
<1> USE DEF Sign, At, GoTo, Succeed
<1> DEFINE new == [user |-> Subject(r), hubs |-> hubsRead[r],
                   access |-> AccessLife, refresh |-> RefreshLife]
<1>1. /\ Granting(r) /\ issued[r] = NoTokens
      /\ Subject(r) \in Users /\ new \in Tokens
    BY Lives DEF IInv, TypeOK, RequestInv, GrantInv, TokenInv, Granting, Tokens
<1>2. Nothing \notin Users
    BY SessionsAssumption
<1>3. TypeOK'
    BY <1>1 DEF IInv, TypeOK, rows
<1>4. ~Issued(r) /\ LocalStep(r)
    BY <1>1, <1>2 DEF LocalStep, rows, IInv, TypeOK, Issued, NoTokens
<1>5. issued'[r] = new
    BY DEF IInv, TypeOK
<1>6. RequestInv(r)'
    BY <1>4 DEF IInv, TypeOK, RequestInv, Issued, LocalStep
<1>7. GrantInv(r)' /\ TokenInv(r)'
    BY <1>1, <1>2, <1>5 DEF IInv, TypeOK, GrantInv, Granting, TokenInv, Issued
<1>8. LiveIsNotIdle'
    BY DEF IInv, LiveIsNotIdle, rows
<1>9. /\ jar.access.by \in (Requests \ {r}) \cup {Nothing}
      /\ jar.refresh.by \in (Requests \ {r}) \cup {Nothing}
    BY DEF IInv, TypeOK, Cookies, JarInv
<1>10. JarInv' /\ CookiesOutliveTokens'
    BY <1>4, <1>9 DEF IInv, JarInv, Issued, LocalStep, CookiesOutliveTokens
<1>11. AuthorityIsRecent'
    <2>1. /\ idle[Subject(r)] <= Latency
          /\ \A h \in hubsRead[r] :
                Subject(r) \in HubAdmins /\ OwnerOf[h] = Subject(r) /\ idle[h] <= Latency
        <3>1. waited[r] \in Nat /\ waited[r] <= Latency /\ Latency \in Nat
            BY SessionsAssumption DEF IInv, TypeOK
        <3>2. hubsRead[r] \subseteq Hubs /\ \A x \in Users \cup Hubs : idle[x] \in Nat
            BY DEF IInv, TypeOK
        <3> QED BY <1>1, <3>1, <3>2 DEF IInv, GrantInv
    <2>2. AccessLife - AccessLife + Latency = Latency
        BY Lives, SessionsAssumption
    <2>3. ASSUME NEW q \in Requests, q # r PROVE issued'[q] = issued[q]
        BY <2>3, <1>4 DEF LocalStep
    <2> QED BY <1>5, <2>1, <2>2, <2>3 DEF IInv, AuthorityIsRecent, Age
<1> QED BY <1>3, <1>4, <1>6, <1>7, <1>8, <1>10, <1>11, OthersKeep DEF IInv

LEMMA EndIsLocal ==
    ASSUME IInv, NEW r \in Requests, End(r),
           call' = call, idle' = idle, rows' = rows, issued' = issued,
           \A q \in Requests \ {r} : result'[q] = result[q],
           pc[r] = "answer" \/ issued[r] = NoTokens
    PROVE  LocalStep(r) /\ RequestInv(r)' /\ GrantInv(r)' /\ TokenInv(r)'
<1> USE DEF End, GoTo, IInv, TypeOK
<1>1. LocalStep(r)
    BY DEF LocalStep
<1>2. RequestInv(r)'
    BY DEF RequestInv, NoRequest
<1>3. GrantInv(r)' /\ TokenInv(r)'
    BY DEF GrantInv, Granting, TokenInv
<1> QED BY <1>1, <1>2, <1>3

LEMMA EndHasType ==
    ASSUME IInv, NEW r \in Requests, End(r)
    PROVE  /\ pc' \in [Requests -> {"unsent", "findUser", "verify", "findById", "guard", "hubs",
                                   "sign", "answer", "end"}]
           /\ sent' \in [Requests -> [access : Requests \cup {Nothing},
                                      refresh : Requests \cup {Nothing}]]
           /\ hubsRead' \in [Requests -> SUBSET Hubs]
           /\ waited' \in [Requests -> 0 .. Latency]
    BY SessionsAssumption DEF End, GoTo, IInv, TypeOK, NoRequest

LEMMA LoseKeeps == ASSUME IInv, NEW r \in Requests, Lose(r) PROVE IInv'
<1> USE DEF Lose, At
<1>1. TypeOK'
    BY EndHasType DEF IInv, TypeOK, rows
<1>2. LocalStep(r) /\ RequestInv(r)' /\ GrantInv(r)' /\ TokenInv(r)'
    BY EndIsLocal DEF rows, IInv, TypeOK
<1>3. LiveIsNotIdle' /\ JarInv' /\ AuthorityIsRecent' /\ CookiesOutliveTokens'
    BY <1>2, RestKeeps
<1> QED BY <1>1, <1>2, <1>3, OthersKeep DEF IInv

LEMMA FailKeeps == ASSUME IInv, NEW r \in Requests, Fail(r) PROVE IInv'
<1> USE DEF Fail
<1>1. TypeOK'
    BY EndHasType DEF IInv, TypeOK, rows
<1>2. issued[r] = NoTokens
    BY DEF IInv, TokenInv
<1>3. LocalStep(r) /\ RequestInv(r)' /\ GrantInv(r)' /\ TokenInv(r)'
    BY <1>2, EndIsLocal DEF rows, IInv, TypeOK
<1>4. LiveIsNotIdle' /\ JarInv' /\ AuthorityIsRecent' /\ CookiesOutliveTokens'
    BY <1>3, RestKeeps
<1> QED BY <1>1, <1>3, <1>4, OthersKeep DEF IInv

\* What the answer brings: two cookies of r, no cookies, or nothing.
LEMMA AnswerCases ==
    ASSUME NEW r \in Requests, Answer(r)
    PROVE  \/ /\ Granted(r)
              /\ jar' = [access |-> Cookie(r, AccessExpiresIn),
                         refresh |-> Cookie(r, RefreshExpiresIn)]
           \/ jar' = EmptyJar
           \/ jar' = jar
    BY DEF Answer, CookiesSetBy, Granted, Cleared

LEMMA AnswerKeeps == ASSUME IInv, NEW r \in Requests, Answer(r) PROVE IInv'
<1> USE DEF Answer, At
<1> DEFINE A == Cookie(r, AccessExpiresIn)
           R == Cookie(r, RefreshExpiresIn)
<1>1. /\ A \in Cookies(CookieLife(AccessExpiresIn)) /\ R \in Cookies(CookieLife(RefreshExpiresIn))
      /\ NoCookie \in Cookies(CookieLife(AccessExpiresIn))
      /\ NoCookie \in Cookies(CookieLife(RefreshExpiresIn))
    BY Lives DEF Cookie, NoCookie, Cookies
<1>2. jar' \in [access : Cookies(CookieLife(AccessExpiresIn)),
               refresh : Cookies(CookieLife(RefreshExpiresIn))]
    BY <1>1, AnswerCases DEF EmptyJar, IInv, TypeOK
<1>3. TypeOK'
    BY <1>2, EndHasType DEF IInv, TypeOK, rows
<1>4. LocalStep(r) /\ RequestInv(r)' /\ GrantInv(r)' /\ TokenInv(r)'
    BY EndIsLocal DEF rows, IInv, TypeOK
<1>5. LiveIsNotIdle' /\ AuthorityIsRecent'
    BY DEF IInv, LiveIsNotIdle, AuthorityIsRecent, Age, rows
<1>6. pc'[r] = "end"
    BY DEF End, GoTo, IInv, TypeOK
<1>7. CASE Granted(r) /\ jar' = [access |-> A, refresh |-> R]
    <2>1. Issued(r)' /\ issued[r].access <= AccessLife /\ issued[r].refresh <= RefreshLife
        BY <1>7 DEF IInv, TypeOK, TokenInv, Issued, Tokens
    <2>2. JarInv'
        BY <1>6, <1>7, <2>1 DEF JarInv, Cookie, NoCookie
    <2>3. CookiesOutliveTokens'
        BY <1>7, <2>1, Lives DEF CookiesOutliveTokens, Cookie, NoCookie
    <2> QED BY <1>3, <1>4, <1>5, <2>2, <2>3, OthersKeep DEF IInv
<1>8. CASE jar' = EmptyJar
    <2>1. JarInv' /\ CookiesOutliveTokens'
        BY <1>8 DEF JarInv, CookiesOutliveTokens, EmptyJar, NoCookie
    <2> QED BY <1>3, <1>4, <1>5, <2>1, OthersKeep DEF IInv
<1>9. CASE jar' = jar
    <2>1. JarInv' /\ CookiesOutliveTokens'
        BY <1>4, <1>9, RestKeeps
    <2> QED BY <1>3, <1>4, <1>5, <2>1, OthersKeep DEF IInv
<1> QED BY <1>7, <1>8, <1>9, AnswerCases

-----------------------------------------------------------------------------
(* The rows change: somebody's idle time ends, and no other's.             *)
LEMMA RowsKeep ==
    ASSUME IInv, UNCHANGED requests, idle' \in [Users \cup Hubs -> 0 .. Horizon],
           \A x \in Users \cup Hubs : idle'[x] <= idle[x],
           active' \subseteq Users, open' \subseteq Hubs, LiveIsNotIdle'
    PROVE  IInv'
<1> USE DEF requests
<1>1. TypeOK'
    BY DEF IInv, TypeOK
<1>2. \A x \in Users \cup Hubs : idle[x] \in Nat /\ idle'[x] \in Nat
    BY DEF IInv, TypeOK
<1>3. ASSUME NEW r \in Requests PROVE RequestInv(r)' /\ GrantInv(r)' /\ TokenInv(r)'
    <2>1. RequestInv(r)' /\ TokenInv(r)'
        BY DEF IInv, RequestInv, TokenInv, Issued, Granted
    <2>2. Subject(r)' = Subject(r) /\ (Granting(r)' <=> Granting(r))
        BY DEF Subject, Granting
    <2>3. waited[r] \in Nat /\ hubsRead[r] \subseteq Hubs
        BY SessionsAssumption DEF IInv, TypeOK
    <2>4. GrantInv(r)'
        BY <1>2, <2>2, <2>3 DEF IInv, GrantInv
    <2> QED BY <2>1, <2>4
<1>4. JarInv' /\ CookiesOutliveTokens'
    BY DEF IInv, JarInv, Issued, CookiesOutliveTokens
<1>5. AuthorityIsRecent'
    <2>1. ASSUME NEW r \in Requests, issued[r].access > 0
          PROVE  /\ issued[r].user \in Users /\ issued[r].hubs \subseteq Hubs
                 /\ Age(r) + Latency \in Int /\ Age(r)' = Age(r)
        BY <2>1, Lives, SessionsAssumption DEF IInv, TypeOK, TokenInv, NoTokens, Tokens, Age
    <2> QED BY <1>2, <2>1 DEF IInv, AuthorityIsRecent
<1> QED BY <1>1, <1>3, <1>4, <1>5 DEF IInv

LEMMA SetStatusKeeps == ASSUME IInv, NEW u \in Riders, SetStatus(u) PROVE IInv'
<1> USE DEF SetStatus
<1>1. u \in Users /\ u \notin Hubs
    BY SessionsAssumption DEF Users
<1>2. active' \subseteq Users /\ open' \subseteq Hubs
    BY <1>1 DEF IInv, TypeOK
<1>3. /\ idle' \in [Users \cup Hubs -> 0 .. Horizon]
      /\ \A x \in Users \cup Hubs : idle'[x] <= idle[x]
    BY <1>1, Lives DEF IInv, TypeOK
<1>4. LiveIsNotIdle'
    BY <1>1, <1>2 DEF IInv, TypeOK, LiveIsNotIdle
<1> QED BY <1>2, <1>3, <1>4, RowsKeep

LEMMA SetHubStatusKeeps == ASSUME IInv, NEW h \in Hubs, SetHubStatus(h) PROVE IInv'
<1> USE DEF SetHubStatus
<1>1. active' \subseteq Users /\ open' \subseteq Hubs
    BY DEF IInv, TypeOK
<1>2. /\ idle' \in [Users \cup Hubs -> 0 .. Horizon]
      /\ \A x \in Users \cup Hubs : idle'[x] <= idle[x]
    BY Lives DEF IInv, TypeOK
<1>3. LiveIsNotIdle'
    BY <1>1, SessionsAssumption DEF IInv, TypeOK, LiveIsNotIdle
<1> QED BY <1>1, <1>2, <1>3, RowsKeep

\* A second passes: what a token promises ages no faster than the token, and
\* what a request has read no faster than the request.
LEMMA TickKeeps == ASSUME IInv, Tick PROVE IInv'
<1>0. /\ waited' = [r \in Requests |-> IF Granting(r) THEN waited[r] + 1 ELSE waited[r]]
      /\ \A r \in Requests : Granting(r) => waited[r] < Latency
      /\ issued' = [r \in Requests |-> AgedTokens(issued[r])]
      /\ jar' = [access |-> Aged(jar.access), refresh |-> Aged(jar.refresh)]
      /\ idle' = [x \in Users \cup Hubs |->
                     IF x \in active \cup open \/ idle[x] = Horizon THEN idle[x] ELSE idle[x] + 1]
      /\ active' = active /\ open' = open /\ call' = call /\ pc' = pc /\ result' = result
      /\ sent' = sent /\ hubsRead' = hubsRead /\ signedOut' = signedOut
    BY DEF Tick, rows
<1>1. ASSUME NEW x \in Users \cup Hubs
      PROVE  /\ idle[x] \in 0 .. Horizon /\ idle'[x] \in 0 .. Horizon
             /\ idle'[x] <= idle[x] + 1
             /\ x \in active \cup open => idle'[x] = idle[x]
    <2>1. idle[x] \in 0 .. Horizon /\ Horizon \in Nat
        BY Lives DEF IInv, TypeOK
    <2>2. idle'[x] = IF x \in active \cup open \/ idle[x] = Horizon THEN idle[x] ELSE idle[x] + 1
        BY <1>0
    <2> QED BY <2>1, <2>2
<1>2. ASSUME NEW r \in Requests
      PROVE  /\ issued[r] \in Tokens /\ issued'[r] \in Tokens
             /\ issued'[r].user = issued[r].user /\ issued'[r].hubs = issued[r].hubs
             /\ issued'[r].access = CountDown(issued[r].access)
             /\ issued'[r].refresh = CountDown(issued[r].refresh)
             /\ issued[r] = NoTokens => issued'[r] = NoTokens
    <2>1. issued'[r] = AgedTokens(issued[r]) /\ issued[r] \in Tokens
        BY <1>0 DEF IInv, TypeOK
    <2>2. ASSUME NEW n \in Nat, NEW i \in 0 .. n PROVE CountDown(i) \in 0 .. n
        BY DEF CountDown
    <2>3. CountDown(0) = 0
        BY DEF CountDown
    <2>4. AgedTokens(issued[r]) = [user |-> issued[r].user, hubs |-> issued[r].hubs,
                                   access |-> CountDown(issued[r].access),
                                   refresh |-> CountDown(issued[r].refresh)]
        BY <2>1 DEF Tokens, AgedTokens
    <2>5. /\ issued[r].user \in Users \cup {Nothing} /\ issued[r].hubs \subseteq Hubs
          /\ CountDown(issued[r].access) \in 0 .. AccessLife
          /\ CountDown(issued[r].refresh) \in 0 .. RefreshLife
        BY <2>1, <2>2, Lives DEF Tokens
    <2>6. issued'[r] \in Tokens
        BY <2>1, <2>4, <2>5 DEF Tokens
    <2>7. issued[r] = NoTokens => issued'[r] = NoTokens
        BY <2>1, <2>3, <2>4 DEF NoTokens
    <2> QED BY <2>1, <2>4, <2>6, <2>7
<1>3. ASSUME NEW n \in Nat, NEW c \in Cookies(n)
      PROVE  /\ Aged(c) \in Cookies(n)
             /\ Aged(c).by # Nothing => Aged(c).by = c.by /\ Aged(c).left = c.left - 1 /\ c.left > 1
    BY DEF Cookies, Aged, NoCookie
<1>4. jar.access \in Cookies(CookieLife(AccessExpiresIn))
      /\ jar.refresh \in Cookies(CookieLife(RefreshExpiresIn))
    BY DEF IInv, TypeOK
<1>5. TypeOK'
    <2>1. jar' \in [access : Cookies(CookieLife(AccessExpiresIn)),
                   refresh : Cookies(CookieLife(RefreshExpiresIn))]
        BY <1>0, <1>3, <1>4, Lives
    <2>2. waited' \in [Requests -> 0 .. Latency]
        BY <1>0, SessionsAssumption DEF IInv, TypeOK
    <2>3. issued' \in [Requests -> Tokens]
        BY <1>0, <1>2
    <2>4. idle' \in [Users \cup Hubs -> 0 .. Horizon]
        BY <1>0, <1>1
    <2> QED BY <1>0, <2>1, <2>2, <2>3, <2>4 DEF IInv, TypeOK
<1>6. LiveIsNotIdle'
    BY <1>0, <1>1 DEF IInv, TypeOK, LiveIsNotIdle
<1>7. ASSUME NEW r \in Requests PROVE RequestInv(r)' /\ GrantInv(r)' /\ TokenInv(r)'
    <2>1. sent[r].access \in Requests \cup {Nothing} /\ sent[r].refresh \in Requests \cup {Nothing}
        BY DEF IInv, TypeOK
    <2>2. RequestInv(r)'
        BY <1>0, <1>2, <2>1 DEF IInv, RequestInv, Issued
    <2>3. TokenInv(r)'
        BY <1>0, <1>2 DEF IInv, TokenInv, Issued, Granted
    <2>4. Granting(r)' <=> Granting(r)
        BY <1>0 DEF Granting
    <2>5. ASSUME Granting(r)
          PROVE  /\ Subject(r)' = Subject(r) /\ waited'[r] = waited[r] + 1
                 /\ waited[r] \in Nat /\ hubsRead[r] \subseteq Hubs
        BY <1>0, <1>2, <2>1, <2>5, SessionsAssumption DEF IInv, TypeOK, GrantInv, Granting, Subject
    <2>6. GrantInv(r)'
        <3> SUFFICES ASSUME Granting(r) PROVE GrantInv(r)'
            BY <2>4 DEF GrantInv
        <3>1. Subject(r) \in Users /\ idle[Subject(r)] <= waited[r]
            BY DEF IInv, GrantInv
        <3>2. idle'[Subject(r)] <= waited'[r]
            BY <1>1, <2>5, <3>1
        <3>3. ASSUME pc[r] = "sign", NEW h \in hubsRead[r]
              PROVE  Subject(r) \in HubAdmins /\ OwnerOf[h] = Subject(r) /\ idle'[h] <= waited'[r]
            BY <1>1, <2>5, <3>3 DEF IInv, GrantInv
        <3> QED BY <1>0, <2>5, <3>1, <3>2, <3>3 DEF IInv, GrantInv
    <2> QED BY <2>2, <2>3, <2>6
<1>8. /\ jar.access.by \in Requests \cup {Nothing} /\ jar.refresh.by \in Requests \cup {Nothing}
      /\ jar'.access.by # Nothing =>
            jar'.access.by = jar.access.by /\ jar'.access.left = jar.access.left - 1 /\ jar.access.left > 1
      /\ jar'.refresh.by # Nothing =>
            jar'.refresh.by = jar.refresh.by /\ jar'.refresh.left = jar.refresh.left - 1 /\ jar.refresh.left > 1
    BY <1>0, <1>3, <1>4, Lives DEF Cookies
<1>9. JarInv'
    BY <1>0, <1>2, <1>8 DEF IInv, JarInv, Issued
<1>10. CookiesOutliveTokens'
    <2>1. ASSUME NEW r \in Requests
          PROVE  issued[r].access \in Nat /\ issued[r].refresh \in Nat
        BY <1>2, Lives DEF Tokens
    <2>2. jar.access.left \in Int /\ jar.refresh.left \in Int
        BY <1>4 DEF Cookies
    <2> QED BY <1>2, <1>8, <2>1, <2>2 DEF IInv, CookiesOutliveTokens, CountDown
<1>11. AuthorityIsRecent'
    <2> SUFFICES ASSUME NEW r \in Requests, issued'[r].access > 0
                 PROVE  /\ idle'[issued[r].user] <= AccessLife - issued'[r].access + Latency
                        /\ \A h \in issued[r].hubs :
                              /\ issued[r].user \in HubAdmins
                              /\ OwnerOf[h] = issued[r].user
                              /\ idle'[h] <= AccessLife - issued'[r].access + Latency
        BY <1>2 DEF AuthorityIsRecent, Age
    <2>1. /\ issued[r].access \in Nat /\ issued[r].access > 0
          /\ issued'[r].access = issued[r].access - 1
        BY <1>2, Lives DEF Tokens, CountDown
    <2>2. issued[r].user \in Users /\ issued[r].hubs \subseteq Hubs
        BY <1>2, <2>1 DEF IInv, TokenInv, NoTokens, Tokens
    <2>3. AccessLife \in Nat /\ Latency \in Nat
        BY Lives, SessionsAssumption
    <2>4. /\ idle[issued[r].user] <= AccessLife - issued[r].access + Latency
          /\ \A h \in issued[r].hubs :
                /\ issued[r].user \in HubAdmins
                /\ OwnerOf[h] = issued[r].user
                /\ idle[h] <= AccessLife - issued[r].access + Latency
        BY <2>1 DEF IInv, AuthorityIsRecent, Age
    <2>5. ASSUME NEW x \in Users \cup Hubs, idle[x] <= AccessLife - issued[r].access + Latency
          PROVE  idle'[x] <= AccessLife - issued'[r].access + Latency
        BY <1>1, <2>1, <2>3, <2>5
    <2> QED BY <2>2, <2>4, <2>5
<1> QED BY <1>5, <1>6, <1>7, <1>9, <1>10, <1>11 DEF IInv

LEMMA StutterKeeps == ASSUME IInv, UNCHANGED vars PROVE IInv'
<1> USE DEF vars, rows
<1>1. ASSUME NEW r \in Requests PROVE RequestInv(r)' /\ GrantInv(r)' /\ TokenInv(r)'
    <2>1. Subject(r)' = Subject(r)
        BY DEF Subject
    <2> QED BY <2>1 DEF IInv, RequestInv, GrantInv, TokenInv, Issued, Granting, Granted
<1>2. TypeOK' /\ LiveIsNotIdle'
    BY DEF IInv, TypeOK, LiveIsNotIdle
<1>3. JarInv' /\ AuthorityIsRecent' /\ CookiesOutliveTokens'
    BY DEF IInv, JarInv, Issued, AuthorityIsRecent, Age, CookiesOutliveTokens
<1> QED BY <1>1, <1>2, <1>3 DEF IInv

-----------------------------------------------------------------------------
LEMMA NextKeeps == ASSUME IInv, [Next]_vars PROVE IInv'
    BY SendKeeps, FindUserKeeps, VerifyRefreshKeeps, FindByIdKeeps, VerifyAccessKeeps,
       ResolveHubsKeeps, SignKeeps, AnswerKeeps, LoseKeeps, FailKeeps, SetStatusKeeps,
       SetHubStatusKeeps, TickKeeps, StutterKeeps
    DEF Next

LEMMA Inductive == Spec => []IInv
<1> QED BY InitHolds, NextKeeps, PTL DEF Spec

\* Every variable keeps its type, for any users, hubs, requests and durations.
THEOREM TypeCorrect == Spec => []TypeOK
<1>1. IInv => TypeOK
    BY DEF IInv
<1> QED BY <1>1, Inductive, PTL

\* However often a session is refreshed, an access token lets its bearer do only
\* what its user was allowed at most the token's age and Latency ago.
THEOREM AuthorityStaysRecent == Spec => []AuthorityIsRecent
<1>1. IInv => AuthorityIsRecent
    BY DEF IInv
<1> QED BY <1>1, Inductive, PTL

\* In whatever order answers arrive, the two cookies are of one user.
THEOREM CookiesAlwaysAgree == Spec => []CookiesAgree
<1>1. IInv => CookiesAgree
    BY DEF IInv, JarInv, CookiesAgree
<1> QED BY <1>1, Inductive, PTL

\* With durations in units that setAuthCookies knows, no cookie goes before the
\* token in it does.
THEOREM CookiesLastLongEnough == Spec => []CookiesOutliveTokens
<1>1. IInv => CookiesOutliveTokens
    BY DEF IInv
<1> QED BY <1>1, Inductive, PTL

-----------------------------------------------------------------------------
(* The run sessions_logout shows a refresh that is answered after a logout *)
(* and signs the browser in again.  Here: nothing else does.               *)

\* A refresh that was sent with a token and has not been answered.
InFlight(r) ==
    call[r].op = "refresh" /\ pc[r] \notin {"unsent", "end"} /\ sent[r].refresh # Nothing

NoneInFlight == \A r \in Requests : ~InFlight(r)

\* The browser stays signed out: it has no cookies, and no answer is on its way
\* that could bring any.
Quiet == signedOut /\ jar = EmptyJar /\ NoneInFlight

\* When a logout is answered and no refresh is in flight, the browser has no
\* cookies, and none come back before a login is sent: a later refresh has no
\* token to be granted for (auth.controller.ts, refresh and logout).
LogoutIsFinal == [][(signedOut => Quiet) /\ NoneInFlight /\ signedOut' => Quiet']_vars

\* While the browser is signed out no login is in flight; a refresh that was
\* granted had a token.
OutInv ==
    /\ signedOut => LoggingIn = {}
    /\ \A r \in Requests :
          pc[r] = "answer" /\ Granted(r) /\ call[r].op = "refresh" => sent[r].refresh # Nothing

LEMMA InitIsOut == Init => OutInv
    BY DEF Init, OutInv, Granted

\* A step of one request disturbs nothing but what is said of the request.
LEMMA OneStepOut ==
    ASSUME IInv, OutInv, NEW r \in Requests, LocalStep(r),
           signedOut' => signedOut \/ LoggingIn = {},
           signedOut' /\ call[r].op = "login" /\ pc[r] = "unsent" => pc'[r] = "unsent",
           pc[r] = "end" => pc'[r] = "end",
           (pc[r] = "answer" /\ Granted(r) /\ call[r].op = "refresh")'
              => sent'[r].refresh # Nothing
    PROVE  OutInv'
<1> USE DEF LocalStep
<1>1. signedOut' => LoggingIn = {}
    BY DEF OutInv
<1>2. ASSUME signedOut', NEW q \in Requests, call[q].op = "login"
      PROVE  pc'[q] \in {"unsent", "end"}
    <2>1. pc[q] \in {"unsent", "end"}
        BY <1>1, <1>2 DEF LoggingIn
    <2>2. CASE q = r
        BY <1>2, <2>1, <2>2
    <2>3. CASE q # r
        BY <2>1, <2>3
    <2> QED BY <2>2, <2>3
<1>3. signedOut' => LoggingIn' = {}
    BY <1>2 DEF LoggingIn
<1>4. ASSUME NEW q \in Requests, (pc[q] = "answer" /\ Granted(q) /\ call[q].op = "refresh")'
      PROVE  sent'[q].refresh # Nothing
    <2>1. CASE q = r
        BY <1>4, <2>1
    <2>2. CASE q # r
        BY <1>4, <2>2 DEF OutInv, Granted
    <2> QED BY <2>1, <2>2
<1> QED BY <1>3, <1>4 DEF OutInv

LEMMA StepsOut ==
    ASSUME IInv, OutInv, NEW r \in Requests,
           \/ Send(r) \/ FindUser(r) \/ VerifyRefresh(r) \/ FindById(r) \/ VerifyAccess(r)
           \/ ResolveHubs(r) \/ Sign(r) \/ Answer(r) \/ Lose(r) \/ Fail(r)
    PROVE  OutInv'
<1> USE DEF At, GoTo, Refuse, Succeed
<1>0. /\ pc[r] \in {"unsent", "findUser", "verify", "findById", "guard", "hubs", "sign",
                    "answer", "end"}
      /\ call[r].op \in {"login", "refresh", "logout", "me"}
    BY DEF IInv, TypeOK, Calls
<1>1. CASE Send(r)
    <2>1. LocalStep(r)
        BY <1>1 DEF Send, LocalStep, rows, IInv, TypeOK
    <2>2. pc'[r] = FirstStep[call[r].op] /\ pc'[r] # "answer"
        BY <1>0, <1>1 DEF Send, IInv, TypeOK, FirstStep
    <2>3. signedOut' => signedOut /\ call[r].op # "login"
        BY <1>1 DEF Send
    <2> QED BY <1>1, <2>1, <2>2, <2>3, OneStepOut DEF Send
<1>2. CASE FindUser(r) \/ VerifyRefresh(r) \/ FindById(r) \/ VerifyAccess(r)
    <2>1. LocalStep(r) /\ signedOut' = signedOut /\ pc[r] # "unsent" /\ pc[r] # "end"
        BY <1>2 DEF FindUser, VerifyRefresh, FindById, VerifyAccess, LocalStep, rows, IInv, TypeOK
    <2>2. ~(pc[r] = "answer" /\ Granted(r) /\ call[r].op = "refresh")'
        BY <1>2 DEF FindUser, VerifyRefresh, FindById, VerifyAccess, IInv, TypeOK, RequestInv,
                    Granted
    <2> QED BY <2>1, <2>2, OneStepOut
<1>3. CASE ResolveHubs(r) \/ Sign(r)
    <2>1. LocalStep(r)
        <3>1. CASE ResolveHubs(r)
            BY <3>1 DEF ResolveHubs, LocalStep, rows, IInv, TypeOK
        <3>2. CASE Sign(r)
            <4>1. issued[r] = NoTokens /\ Nothing \notin Users
                BY <3>2, SessionsAssumption DEF Sign, IInv, TokenInv
            <4> QED BY <3>2, <4>1 DEF Sign, LocalStep, rows, IInv, TypeOK, Issued, NoTokens
        <3> QED BY <1>3, <3>1, <3>2
    <2>2. signedOut' = signedOut /\ sent' = sent /\ call' = call
          /\ pc[r] # "unsent" /\ pc[r] # "end"
        BY <1>3 DEF ResolveHubs, Sign
    <2>3. (pc[r] = "answer" /\ Granted(r) /\ call[r].op = "refresh")' => sent'[r].refresh # Nothing
        <3>1. Granting(r) \/ call[r].op = "me"
            BY <1>0, <1>3 DEF ResolveHubs, Sign, IInv, RequestInv, Granting
        <3> QED BY <2>2, <3>1 DEF IInv, GrantInv
    <2> QED BY <2>1, <2>2, <2>3, OneStepOut
<1>4. CASE Answer(r) \/ Lose(r) \/ Fail(r)
    <2>1. pc[r] # "unsent" /\ pc[r] # "end" /\ pc'[r] = "end"
        BY <1>4 DEF Answer, Lose, Fail, End, IInv, TypeOK
    <2>2. LocalStep(r)
        BY <1>4 DEF Answer, Lose, Fail, End, LocalStep, rows, IInv, TypeOK
    <2>3. signedOut' => signedOut \/ LoggingIn = {}
        BY <1>4 DEF Answer, Lose, Fail
    <2> QED BY <2>1, <2>2, <2>3, OneStepOut
<1> QED BY <1>1, <1>2, <1>3, <1>4

LEMMA NextKeepsOut == ASSUME IInv, OutInv, [Next]_vars PROVE OutInv'
<1>1. CASE UNCHANGED <<call, pc, result, sent, signedOut>>
    BY <1>1 DEF OutInv, LoggingIn, Granted
<1>2. ASSUME NEW u \in Riders, SetStatus(u) PROVE OutInv'
    BY <1>1, <1>2 DEF SetStatus, requests
<1>3. ASSUME NEW h \in Hubs, SetHubStatus(h) PROVE OutInv'
    BY <1>1, <1>3 DEF SetHubStatus, requests
<1>4. CASE Tick
    BY <1>1, <1>4 DEF Tick
<1>5. CASE UNCHANGED vars
    BY <1>1, <1>5 DEF vars
<1> QED BY <1>2, <1>3, <1>4, <1>5, StepsOut DEF Next

\* What signs the browser in without a login is a refresh that was in flight
\* with a token; every other answer leaves an empty jar empty.
LEMMA StaysQuiet ==
    ASSUME IInv, OutInv, [Next]_vars, signedOut => Quiet, NoneInFlight, signedOut'
    PROVE  Quiet'
<1>1. jar' = EmptyJar
    <2>1. CASE \E r \in Requests : Answer(r)
        <3> PICK r \in Requests : Answer(r)
            BY <2>1
        <3>1. pc[r] = "answer" /\ (signedOut \/ (Cleared(r) /\ LoggingIn = {}))
              /\ jar' = CookiesSetBy(r)
            BY DEF Answer, At
        <3>2. LoggingIn = {}
            BY <3>1 DEF OutInv
        <3>3. call[r].op # "login"
            BY <3>1, <3>2 DEF LoggingIn
        <3>4. ~Granted(r)
            BY <3>1, <3>3 DEF OutInv, NoneInFlight, InFlight, Granted
        <3> QED BY <3>1, <3>4 DEF CookiesSetBy, Quiet
    <2>2. CASE ~(\E r \in Requests : Answer(r)) /\ ~Tick
        <3>1. jar' = jar /\ (signedOut' => signedOut)
            BY <2>2 DEF Next, vars, Send, FindUser, VerifyRefresh, FindById, VerifyAccess,
                        ResolveHubs, Sign, Lose, Fail, SetStatus, SetHubStatus, requests
        <3> QED BY <3>1 DEF Quiet
    <2>3. CASE Tick
        <3>1. signedOut /\ jar' = [access |-> Aged(jar.access), refresh |-> Aged(jar.refresh)]
            BY <2>3 DEF Tick
        <3> QED BY <3>1 DEF Quiet, EmptyJar, Aged, NoCookie
    <2> QED BY <2>1, <2>2, <2>3
<1>2. NoneInFlight'
    <2> SUFFICES ASSUME NEW q \in Requests, InFlight(q)' PROVE FALSE
        BY DEF NoneInFlight
    <2>1. ~InFlight(q)
        BY DEF NoneInFlight
    <2>2. CASE UNCHANGED <<call, pc, sent>>
        BY <2>1, <2>2 DEF InFlight
    <2>3. ASSUME NEW r \in Requests, r # q,
                 call' = call, pc'[q] = pc[q], sent'[q] = sent[q]
          PROVE  FALSE
        BY <2>1, <2>3 DEF InFlight
    <2>4. CASE Send(q)
        <3>1. jar = EmptyJar
            <4>1. signedOut' = (signedOut /\ call[q].op # "login")
                BY <2>4 DEF Send
            <4> QED BY <4>1 DEF Quiet
        <3>2. sent'[q].refresh = Nothing
            BY <2>4, <3>1 DEF Send, EmptyJar, NoCookie, IInv, TypeOK
        <3> QED BY <3>2 DEF InFlight
    <2>5. CASE FindUser(q) \/ VerifyRefresh(q) \/ FindById(q) \/ VerifyAccess(q)
               \/ ResolveHubs(q) \/ Sign(q)
        BY <2>1, <2>5 DEF InFlight, FindUser, VerifyRefresh, FindById, VerifyAccess,
                          ResolveHubs, Sign, At
    <2>6. CASE Answer(q) \/ Lose(q) \/ Fail(q)
        BY <2>6 DEF InFlight, Answer, Lose, Fail, End, GoTo, IInv, TypeOK
    <2>7. ASSUME NEW r \in Requests, r # q,
                 \/ Send(r) \/ FindUser(r) \/ VerifyRefresh(r) \/ FindById(r) \/ VerifyAccess(r)
                 \/ ResolveHubs(r) \/ Sign(r) \/ Answer(r) \/ Lose(r) \/ Fail(r)
          PROVE  FALSE
        <3>1. call' = call /\ pc'[q] = pc[q] /\ sent'[q] = sent[q]
            BY <2>7 DEF Send, FindUser, VerifyRefresh, FindById, VerifyAccess, ResolveHubs, Sign,
                        Answer, Lose, Fail, End, GoTo, Refuse, Succeed, IInv, TypeOK
        <3> QED BY <2>3, <2>7, <3>1
    <2>8. CASE (\E u \in Riders : SetStatus(u)) \/ (\E h \in Hubs : SetHubStatus(h)) \/ Tick
               \/ UNCHANGED vars
        BY <2>2, <2>8 DEF SetStatus, SetHubStatus, Tick, requests, vars
    <2> QED BY <2>4, <2>5, <2>6, <2>7, <2>8 DEF Next
<1> QED BY <1>1, <1>2 DEF Quiet

\* A logout that is answered while no refresh is in flight is final: the
\* browser has no cookies until a login is sent.
THEOREM OnlyARefreshSignsBackIn == Spec => LogoutIsFinal
<1>1. IInv /\ OutInv /\ [Next]_vars => OutInv'
    BY NextKeepsOut
<1>2. Spec => []OutInv
    BY InitIsOut, <1>1, Inductive, PTL DEF Spec
<1>3. IInv /\ OutInv /\ [Next]_vars
        => [(signedOut => Quiet) /\ NoneInFlight /\ signedOut' => Quiet']_vars
    BY StaysQuiet
<1> QED BY <1>2, <1>3, Inductive, PTL DEF Spec, LogoutIsFinal

=============================================================================
