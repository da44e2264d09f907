SPECIFICATION Spec
CONSTANTS
    Nothing = Nothing
    Riders = {}
    HubAdmins = {admin}
    Hubs = {h1}
    OwnerOf <- Owned
    LoggedIn = {admin}
    Asked = {"refresh", "me"}
    AccessSeconds = 2
    RefreshSeconds = 3
    Requests = {r1, r2, r3}
    Offered <- MCOffered
    AccessExpiresIn <- AccessDuration
    RefreshExpiresIn <- RefreshDuration
    Latency = 1
SYMMETRY AnyRequest
INVARIANTS
    AuthorityIsRecent
