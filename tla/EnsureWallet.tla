---------------------------- MODULE EnsureWallet ----------------------------
(***************************************************************************)
(* WalletService.ensureWallet called outside a transaction, as every       *)
(* caller in the code does: find the owner's wallet, otherwise save a new  *)
(* one, and when the save throws, whatever the reason, find again.         *)
(*                                                                         *)
(* save is a transaction of its own: an INSERT and a COMMIT.  The unique   *)
(* index on (owner_type, owner_id) makes an INSERT wait for a transaction  *)
(* that has inserted the same key, and fail once that one has committed.   *)
(* No code deletes a wallet.  A committed wallet is WalletLedger's         *)
(* OpenWallet.                                                             *)
(***************************************************************************)
EXTENDS Naturals, FiniteSets

CONSTANTS
    Callers,   \* the calls of ensureWallet, each made once
    Owners,    \* hubs and riders
    NoWallet

ASSUME EnsureWalletAssumption == NoWallet \notin Callers

VARIABLES
    rows,      \* the committed wallets: records of type Wallets
    inserted,  \* the wallets of transactions that have not committed
    owner,     \* the owner each call is about
    pc,
    found,     \* the wallet a call returns
    result,
    faulted    \* history: the calls of which a statement failed by itself

vars == <<rows, inserted, owner, pc, found, result, faulted>>

\* A wallet is known by the call that created it: its uuid is drawn there.
Wallets == [owner : Owners, by : Callers]

Init ==
    /\ rows = {}
    /\ inserted = {}
    /\ owner \in [Callers -> Owners]
    /\ pc = [c \in Callers |-> "finding"]
    /\ found = [c \in Callers |-> NoWallet]
    /\ result = [c \in Callers |-> "none"]
    /\ faulted = {}

WalletOf(o, S) == {w \in S : w.owner = o}

NewWallet(c) == [owner |-> owner[c], by |-> c]

Return(c, w) ==
    /\ pc' = [pc EXCEPT ![c] = "done"]
    /\ found' = [found EXCEPT ![c] = w.by]
    /\ result' = [result EXCEPT ![c] = "ok"]

Throw(c, why) ==
    /\ pc' = [pc EXCEPT ![c] = "done"]
    /\ result' = [result EXCEPT ![c] = why]
    /\ UNCHANGED found

GoTo(c, next) ==
    /\ pc' = [pc EXCEPT ![c] = next]
    /\ UNCHANGED <<found, result>>

\* The first findOne: an existing wallet is returned, none is created.
Find(c) ==
    /\ pc[c] = "finding"
    /\ \/ \E w \in WalletOf(owner[c], rows) : Return(c, w)
       \/ WalletOf(owner[c], rows) = {} /\ GoTo(c, "inserting")
    /\ UNCHANGED <<rows, inserted, owner, faulted>>

\* Variant: the table without its unique index.
InsertWithoutIndex(c) ==
    /\ pc[c] = "inserting"
    /\ inserted' = inserted \cup {NewWallet(c)}
    /\ GoTo(c, "committing")
    /\ UNCHANGED <<rows, owner, faulted>>

\* Variant: save outside the try block, so a lost race is the caller's error.
InsertUncaught(c) ==
    /\ pc[c] = "inserting"
    /\ WalletOf(owner[c], inserted) = {}
    /\ \/ /\ WalletOf(owner[c], rows) = {}
          /\ inserted' = inserted \cup {NewWallet(c)}
          /\ GoTo(c, "committing")
       \/ /\ WalletOf(owner[c], rows) # {}
          /\ Throw(c, "error")
          /\ UNCHANGED inserted
    /\ UNCHANGED <<rows, owner, faulted>>

\* The INSERT waits while another transaction has inserted the same key.
Insert(c) ==
    /\ pc[c] = "inserting"
    /\ WalletOf(owner[c], inserted) = {}
    /\ \/ /\ WalletOf(owner[c], rows) = {}
          /\ inserted' = inserted \cup {NewWallet(c)}
          /\ GoTo(c, "committing")
       \/ /\ WalletOf(owner[c], rows) # {}
          /\ GoTo(c, "refinding")
          /\ UNCHANGED inserted
    /\ UNCHANGED <<rows, owner, faulted>>

Commit(c) ==
    /\ pc[c] = "committing"
    /\ rows' = rows \cup {NewWallet(c)}
    /\ inserted' = inserted \ {NewWallet(c)}
    /\ Return(c, NewWallet(c))
    /\ UNCHANGED <<owner, faulted>>

\* Variant: the findOne of the catch block without its check for no wallet.
RefindUnchecked(c) ==
    /\ pc[c] = "refinding"
    /\ \/ \E w \in WalletOf(owner[c], rows) : Return(c, w)
       \/ /\ WalletOf(owner[c], rows) = {}
          /\ Return(c, [owner |-> owner[c], by |-> NoWallet])
    /\ UNCHANGED <<rows, inserted, owner, faulted>>

\* Variant: the catch block throws without looking for the wallet again.
RefindSkipped(c) ==
    /\ pc[c] = "refinding"
    /\ Throw(c, "notFound")
    /\ UNCHANGED <<rows, inserted, owner, faulted>>

\* The findOne of the catch block.
Refind(c) ==
    /\ pc[c] = "refinding"
    /\ \/ \E w \in WalletOf(owner[c], rows) : Return(c, w)
       \/ WalletOf(owner[c], rows) = {} /\ Throw(c, "notFound")
    /\ UNCHANGED <<rows, inserted, owner, faulted>>

\* Variant: a failed save leaves its transaction open.
SaveFailsWithoutRollback(c) ==
    /\ pc[c] \in {"inserting", "committing"}
    /\ GoTo(c, "refinding")
    /\ faulted' = faulted \cup {c}
    /\ UNCHANGED <<rows, inserted, owner>>

\* save fails by itself: nothing is committed, or the COMMIT was executed and
\* only its acknowledgement is lost.
SaveFails(c) ==
    /\ pc[c] \in {"inserting", "committing"}
    /\ \/ UNCHANGED rows
       \/ pc[c] = "committing" /\ rows' = rows \cup {NewWallet(c)}
    /\ inserted' = inserted \ {NewWallet(c)}
    /\ GoTo(c, "refinding")
    /\ faulted' = faulted \cup {c}
    /\ UNCHANGED owner

\* A findOne fails by itself: nothing catches the exception.
FindFails(c) ==
    /\ pc[c] \in {"finding", "refinding"}
    /\ Throw(c, "error")
    /\ faulted' = faulted \cup {c}
    /\ UNCHANGED <<rows, inserted, owner>>

\* The server process dies: what was not committed never will be.
Crash ==
    LET Dying == {c \in Callers : pc[c] # "done"}
    IN  /\ Dying # {}
        /\ pc' = [c \in Callers |-> "done"]
        /\ result' = [c \in Callers |-> IF c \in Dying THEN "lost" ELSE result[c]]
        /\ inserted' = {}
        /\ faulted' = faulted \cup Dying
        /\ UNCHANGED <<rows, owner, found>>

Progress(c) == Find(c) \/ Insert(c) \/ Commit(c) \/ Refind(c)

Next ==
    \/ \E c \in Callers : Progress(c) \/ SaveFails(c) \/ FindFails(c)
    \/ Crash

Spec == Init /\ [][Next]_vars

\* A statement that can run is run; a wait for a key ends when its holder does.
FairSpec == Spec /\ \A c \in Callers : WF_vars(Progress(c))

-----------------------------------------------------------------------------
(* Properties *)

Phases  == {"finding", "inserting", "committing", "refinding", "done"}
Results == {"none", "ok", "notFound", "error", "lost"}

\* Every variable has its type, and what is returned is a wallet.
TypeOK ==
    /\ rows \subseteq Wallets
    /\ inserted \subseteq Wallets
    /\ owner \in [Callers -> Owners]
    /\ pc \in [Callers -> Phases]
    /\ found \in [Callers -> Callers \cup {NoWallet}]
    /\ result \in [Callers -> Results]
    /\ faulted \subseteq Callers
    /\ \A c \in Callers : result[c] = "ok" <=> found[c] # NoWallet

\* All that ensureWallet returns for an owner, to callers that race with each
\* other and with failing saves, is the one wallet that owner has.
ReturnsTheOneWallet ==
    \A c \in Callers :
       result[c] = "ok" =>
          WalletOf(owner[c], rows) = {[owner |-> owner[c], by |-> found[c]]}

\* Losing the race for the INSERT is never a caller's error: a call that does
\* not return a wallet had a statement that failed by itself, or died.
RaceNeverSurfaces ==
    \A c \in Callers : result[c] \in {"notFound", "error", "lost"} => c \in faulted

\* No call waits for ever for another's uncommitted INSERT.
EveryCallEnds == \A c \in Callers : <>(pc[c] = "done")

-----------------------------------------------------------------------------
(* Refinement: of the steps above a caller sees that a wallet is committed,  *)
(* and that a call ends.                                                     *)

\* The wallet an owner has, by the name it has in `found`.
WalletAt(o) ==
    IF WalletOf(o, rows) = {} THEN NoWallet
    ELSE (CHOOSE w \in WalletOf(o, rows) : TRUE).by

Atomic == INSTANCE AtomicEnsure WITH wallet <- [o \in Owners |-> WalletAt(o)]

\* The find, the save with its transaction, the second find and their failures
\* give callers what one atomic step would: the wallet of an owner never
\* changes once it is there, what a call returns is it, and "could not be
\* created" is said only when there is none.
ImplementsAtomicEnsure == Atomic!Spec
=============================================================================
