---------------------------- MODULE AtomicWallet ----------------------------
(***************************************************************************)
(* What WalletService promises its callers, without locks, statements or   *)
(* transactions: a call takes effect at one instant, on all its wallets    *)
(* and with one ledger row on each, or not at all; a refusal gives a       *)
(* reason that was true at one instant of the call; a caller that gets an  *)
(* error or no answer cannot tell which of the two happened.               *)
(* WalletLedger is shown to implement this specification.                  *)
(***************************************************************************)
EXTENDS WalletOps

CONSTANTS InitialWallets, Opening

VARIABLES
    wallets,  \* the wallets that exist
    balance,  \* wallets.current_balance
    ledger,   \* the rows of wallet_transactions, per wallet, oldest first
    call,     \* what each request asks for
    outcome,  \* "pending", "applied", or how the request ends
    answered  \* the requests that have ended: their outcome is final

vars == <<wallets, balance, ledger, call, outcome, answered>>

Init ==
    /\ wallets = InitialWallets
    /\ balance = Opening
    /\ ledger = [w \in Wallets |-> <<>>]
    /\ call \in [Requests -> Offered]
    /\ outcome = [r \in Requests |-> "pending"]
    /\ answered = {}

OpenWallet(w) ==
    /\ w \notin wallets
    /\ wallets' = wallets \cup {w}
    /\ UNCHANGED <<balance, ledger, call, outcome, answered>>

\* The whole effect of a call, in one step.
Apply(r) ==
    LET c == call[r]
        After(w) == balance[w] + Delta(c, w)
    IN  /\ outcome[r] = "pending"
        /\ Valid(c)
        /\ Parties(c) \subseteq wallets
        /\ NeedsFunds(c) => balance[c.from] >= c.amount
        /\ \A w \in Parties(c) : After(w) <= MaxBalance
        /\ balance' = [w \in Wallets |->
                         IF w \in Parties(c) THEN After(w) ELSE balance[w]]
        /\ ledger' = [w \in Wallets |->
                        IF w \in Parties(c)
                        THEN Append(ledger[w], Row(r, c, w, After(w)))
                        ELSE ledger[w]]
        /\ outcome' = [outcome EXCEPT ![r] = "applied"]
        /\ UNCHANGED <<wallets, call, answered>>

\* The reason `why` for refusing the call c is true now.
Justified(why, c) ==
    \/ why = "badRequest" /\ ~Valid(c)
    \/ why = "notFound" /\ Valid(c) /\ ~(Parties(c) \subseteq wallets)
    \/ /\ why = "insufficient"
       /\ Valid(c) /\ NeedsFunds(c) /\ Parties(c) \subseteq wallets
       /\ balance[c.from] < c.amount

\* A refusal is decided, and may be answered at once or later.
Refuse(r) ==
    /\ outcome[r] = "pending"
    /\ \E why \in Refusals :
          /\ Justified(why, call[r])
          /\ outcome' = [outcome EXCEPT ![r] = why]
    /\ answered' \in {answered, answered \cup {r}}
    /\ UNCHANGED <<wallets, balance, ledger, call>>

\* Calls fail: one whose connection breaks, or all those of a process that
\* dies.  What has been applied stays, what has not never will be.
Fail(S) ==
    /\ S \cap answered = {}
    /\ \E why \in {"error", "lost"} :
          outcome' = [r \in Requests |-> IF r \in S THEN why ELSE outcome[r]]
    /\ answered \subseteq answered'
    /\ answered' \subseteq answered \cup S
    /\ UNCHANGED <<wallets, balance, ledger, call>>

Answer(r) ==
    /\ r \notin answered
    /\ outcome[r] # "pending"
    /\ outcome' = [outcome EXCEPT ![r] = IF @ = "applied" THEN "ok" ELSE @]
    /\ answered' = answered \cup {r}
    /\ UNCHANGED <<wallets, balance, ledger, call>>

Next ==
    \/ \E w \in Wallets : OpenWallet(w)
    \/ \E r \in Requests : Apply(r) \/ Refuse(r) \/ Answer(r)
    \/ \E S \in SUBSET Requests : Fail(S)

Spec == Init /\ [][Next]_vars
=============================================================================
