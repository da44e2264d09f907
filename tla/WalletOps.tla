------------------------------ MODULE WalletOps ------------------------------
(***************************************************************************)
(* The money operations of WalletService as data: what a call asks for,    *)
(* which wallets it touches, by how much, and the ledger row it leaves on  *)
(* each of them.  Both the abstract AtomicWallet and the step-by-step      *)
(* WalletLedger are written with these operators.                          *)
(*                                                                         *)
(* A wallet is the rank of its id in the order of Array.prototype.sort,    *)
(* the only thing the code does with an id besides comparing it for        *)
(* equality.  An amount is an integer number of the smallest money unit.   *)
(***************************************************************************)
EXTENDS Integers, Sequences, FiniteSets

CONSTANTS
    WalletCount,  \* how many wallets the instance has
    MaxBalance,   \* the largest value a numeric(14,2) column takes
    Requests,     \* the calls made on WalletService, each made once
    Offered       \* what a call may ask for: a set of records of type Calls

Wallets == 1 .. WalletCount

SingleOps == {"credit", "debit", "hold", "release"}
Ops == SingleOps \cup {"transfer"}

\* An operation on one wallet has that wallet in both fields.
Calls == [op : Ops, from : Wallets, to : Wallets, amount : Int]

ASSUME WalletOpsAssumption ==
    /\ WalletCount \in Nat \ {0}
    /\ MaxBalance \in Nat
    /\ IsFiniteSet(Requests)
    /\ Offered \subseteq Calls
    /\ \A c \in Offered : c.op \in SingleOps => c.from = c.to

-----------------------------------------------------------------------------
Parties(c) == {c.from, c.to}

\* The checks made before a transaction is opened: assertPositiveAmount, and
\* for a transfer that its two ends differ.
Valid(c) ==
    /\ c.amount > 0
    /\ c.op = "transfer" => c.from # c.to

\* The operations that carry a debitAmount, and so need the funds.
NeedsFunds(c) == c.op \in {"debit", "hold", "transfer"}

\* The signed change of wallet w's balance: the `delta` of credit, debit, hold
\* and release, and the two signed amounts of a transfer.
Delta(c, w) ==
    IF NeedsFunds(c) /\ w = c.from THEN -c.amount ELSE c.amount

RowTypes == {"CREDIT", "DEBIT", "HOLD", "RELEASE", "TRANSFER_OUT", "TRANSFER_IN"}

RowType(c, w) ==
    CASE c.op = "credit"  -> "CREDIT"
      [] c.op = "debit"   -> "DEBIT"
      [] c.op = "hold"    -> "HOLD"
      [] c.op = "release" -> "RELEASE"
      [] c.op = "transfer" /\ w = c.from -> "TRANSFER_OUT"
      [] OTHER -> "TRANSFER_IN"

\* current_balance has no CHECK constraint: the column takes negative values.
Balances == -MaxBalance .. MaxBalance

\* A row of wallet_transactions.  `by` is not a column: it names the call that
\* wrote the row, so that properties can tell the rows of two calls apart.
Rows == [by : Requests, type : RowTypes, amount : Int, balanceAfter : Balances]

Row(r, c, w, after) ==
    [by |-> r, type |-> RowType(c, w), amount |-> Delta(c, w),
     balanceAfter |-> after]

\* Why a call ends: it is done; one of the three refusals of the code; an
\* error of the database or the connection; or its process died.
Refusals == {"badRequest", "notFound", "insufficient"}
Results  == {"ok", "error", "lost"} \cup Refusals
=============================================================================
