SPECIFICATION Spec
CONSTANTS
    Nothing = Nothing
    Riders = {rider}
    HubAdmins = {admin}
    Hubs = {}
    OwnerOf <- Owned
    LoggedIn = {rider, admin}
    Asked = {"refresh", "logout"}
    AccessSeconds = 2
    RefreshSeconds = 3
    Requests = {r1, r2, r3}
    Offered <- MCOffered
    AccessExpiresIn <- AccessDuration
    RefreshExpiresIn <- RefreshDuration
    Latency = 1
SYMMETRY AnyRequest
INVARIANTS
    TypeOK
    AuthorityIsRecent
    CookiesAgree
    CookiesOutliveTokens
