---------------------------- MODULE AtomicEnsure ----------------------------
(***************************************************************************)
(* What ensureWallet promises its callers: the owner's wallet, which is    *)
(* created on the first demand and is the same ever after.  Finding or     *)
(* creating it and answering is one step; a caller that gets no wallet     *)
(* cannot tell whether its call has created one.                           *)
(* EnsureWallet is shown to implement this specification.                  *)
(***************************************************************************)
CONSTANTS Callers, Owners, NoWallet

VARIABLES
    wallet,  \* the wallet of each owner, named after the call that created it
    owner,   \* the owner each call is about
    found,   \* the wallet each call has returned
    result   \* "none" while a call is under way, then how it ended

vars == <<wallet, owner, found, result>>

Init ==
    /\ wallet = [o \in Owners |-> NoWallet]
    /\ owner \in [Callers -> Owners]
    /\ found = [c \in Callers |-> NoWallet]
    /\ result = [c \in Callers |-> "none"]

UnderWay == {c \in Callers : result[c] = "none"}

\* The wallet of call c's owner once there is one: the one that is there, if any.
Ensured(c) == IF wallet[owner[c]] = NoWallet THEN c ELSE wallet[owner[c]]

\* The wallet is found, or else created, and returned.
GetOrCreate(c) ==
    /\ c \in UnderWay
    /\ wallet' = [wallet EXCEPT ![owner[c]] = Ensured(c)]
    /\ found' = [found EXCEPT ![c] = Ensured(c)]
    /\ result' = [result EXCEPT ![c] = "ok"]
    /\ UNCHANGED owner

\* The wallet is created; the answer, if there will be one, comes later.
Create(c) ==
    /\ c \in UnderWay
    /\ wallet[owner[c]] = NoWallet
    /\ wallet' = [wallet EXCEPT ![owner[c]] = c]
    /\ UNCHANGED <<owner, found, result>>

\* A call says that there is no wallet: so it is at this instant.
NotFound(c) ==
    /\ c \in UnderWay
    /\ wallet[owner[c]] = NoWallet
    /\ result' = [result EXCEPT ![c] = "notFound"]
    /\ UNCHANGED <<wallet, owner, found>>

\* Calls fail: one whose statement fails, or all those of a process that dies.
Fail(S) ==
    /\ S \subseteq UnderWay
    /\ \E why \in {"error", "lost"} :
          result' = [c \in Callers |-> IF c \in S THEN why ELSE result[c]]
    /\ UNCHANGED <<wallet, owner, found>>

Next ==
    \/ \E c \in Callers : GetOrCreate(c) \/ Create(c) \/ NotFound(c)
    \/ \E S \in SUBSET Callers : Fail(S)

Spec == Init /\ [][Next]_vars
=============================================================================
