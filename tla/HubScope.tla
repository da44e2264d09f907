------------------------------ MODULE HubScope ------------------------------
(***************************************************************************)
(* Who calls, and what a caller may reach: the user JwtStrategy reads from *)
(* the access token, the RolesGuard and the HubScopeGuard that every route *)
(* of hubs, riders and wallets passes, and the scope checks the services   *)
(* make themselves.  A user's hubIds are the token's: they do not change   *)
(* when hubs do.                                                           *)
(***************************************************************************)

CONSTANTS
    Hubs,   \* every hub id
    NoHub   \* stands for a hub id that the client did not send

ASSUME HubScopeAssumption == NoHub \notin Hubs

Users == [role : {"super_admin", "hub_admin", "rider"}, hubIds : SUBSET Hubs]

\* extractClientHubId: a hub named in the query hides the one in the body.
ClientHub(fromQuery, fromBody) == IF fromQuery # NoHub THEN fromQuery ELSE fromBody

\* @Roles(SUPER_ADMIN, HUB_ADMIN) and @HubScoped(): the hub that the client
\* names must be one of a hub admin's token.
GuardsPass(u, clientHub) ==
    \/ u.role = "super_admin"
    \/ u.role = "hub_admin" /\ clientHub \in u.hubIds \cup {NoHub}

\* A null scope is unrestricted; any other scope is the token's hubIds.
Unrestricted(u) == u.role = "super_admin"
InScope(u, h) == Unrestricted(u) \/ h \in u.hubIds

\* The hubs of u's scope that rider x is assigned to, where `assigned` is a
\* set of pairs <<rider, hub>>.
HubsInScope(u, x, assigned) == {h \in u.hubIds : <<x, h>> \in assigned}
=============================================================================
