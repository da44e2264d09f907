----------------------------- MODULE MCSessions -----------------------------
(* A rider who may be suspended, or a hub admin whose hub comes and goes,    *)
(* at one browser.                                                           *)
EXTENDS Sessions, TLC

CONSTANTS LoggedIn, Asked, AccessSeconds, RefreshSeconds

Owned == [h \in Hubs |-> CHOOSE u \in HubAdmins : TRUE]

Ask(op, user, good) == [op |-> op, user |-> user, good |-> good]
AnyUser == CHOOSE u \in Users : TRUE
MCOffered ==
    {Ask("login", u, good) : u \in LoggedIn, good \in BOOLEAN}
        \cup {Ask(op, AnyUser, FALSE) : op \in Asked}

AccessDuration == [amount |-> AccessSeconds, unit |-> "s"]
RefreshDuration == [amount |-> RefreshSeconds, unit |-> "s"]

AnyRequest == Permutations(Requests)

=============================================================================
