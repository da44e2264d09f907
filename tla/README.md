# The NexFleet backend in TLA+

The NestJS backend of the Flaship courier (`src/`): hubs, riders, and wallets
whose money moves by database transactions. These modules model what changes
state in it, statement by statement, as the code issues them to PostgreSQL, with
the requests that come in between, the statements that fail and the process that
dies. TLC checks them on small instances; TLAPS proves the central properties
for every instance.

Paths below are relative to `src/src/`. `PROJECT.json` gives, for every
definition that models code, the lines it stands for.

## 1. The system

One Node process serves HTTP. A request passes the global guards
(`JwtAuthGuard`, `RolesGuard`, `HubScopeGuard`), then a service runs a sequence of
`await`ed statements on a pool of ten PostgreSQL connections. Every `await` lets
other requests run, so whatever a service has read may have changed when it uses
it. Only the wallet operations use database transactions and row locks; everything else
commits statement by statement and relies on unique indexes and foreign keys.

| Component | State | Operations | Called by, shares with | What is hard | What makes it correct |
|---|---|---|---|---|---|
| Wallet ledger (`wallet.service.ts` 261-477) | `wallets.current_balance`, `wallet_transactions`, row locks, connections | `credit`, `debit`, `hold`, `release`, `transfer` | top-up; later orders | lost updates, deadlock of transfers, a failure between two writes, a lost COMMIT acknowledgement, the pool's limit, overflow of `numeric(14,2)` | every balance is explained by its rows; a call is all or nothing; answers are true; no deadlock; every call ends |
| `ensureWallet` (68-100) | `wallets` and its unique owner key | find, insert, find again | top-up, `findByOwner` | two inserts at once, a save that fails after it has committed | one wallet per owner; losing the race is no error |
| Wallet routes that pay (`wallet.controller.ts`, `wallet.service.ts` 114-125, 156-259, 479-540) | none of their own | top-up by role; wallet of an owner | read the directory's tables, call the ledger | six statements between the first check and the transfer, while riders are assigned and hubs removed | the top-up rules; the right hub pays; answers are true |
| Wallet routes that read (`wallet.service.ts` 102-154) | none | wallet; its transactions, page by page | read what the ledger commits, and the directory | rows sorted by the start of transactions that commit in another order; two queries per page; access checked page by page | nothing is missed; totals add up; reads stay in scope |
| Hubs (`hubs.service.ts`) | `hubs` | create, update, remove, find one, list | removal takes assignments along; `assertHubAccessible` for riders | removal between check and use; separate read-back; lists of two queries | rows are sound; answers are true; lists add up |
| Riders (`riders.service.ts`) | riders in `users`, `rider_hub_assignments`, `rider_area_assignments` | create, assignHub, assignArea, updateStatus, find one, list | read hubs | check, then insert; two inserts without a transaction | as for hubs, and hub admins stay in scope |
| Guards, scope helpers (`common/guards`, `common/utils/hub-scope.util.ts`) | none: the token | allow or refuse | every route | the token's hubs are older than the tables | a scoped caller reaches the token's hubs only |
| Auth (`modules/auth`), users | users; cookies in the browser; tokens | login, refresh, logout, me | hubs owned, for the token | stale tokens, cookies of racing answers, durations read twice in different ways | authority never outlives its withdrawal by more than a token's life; the two cookies agree, and last |
| Zones (`modules/zones`) | `regions`, `areas` | create, update, find one, list, for regions and for areas | areas are assigned to riders | two PATCHes at once; the read-back; what PostGIS refuses; lists of two queries | no field is lost; answers are true; pages fit their totals |
| Filter, interceptor, guards and pipe in `app.module.ts` | none | status and code of every answer | every route | which refusal comes first | part of Zones |
| Health, Redis, config, seed, migrations | none, or start-up only | | | | not modelled, except for the constraints of the migrations |

`PROJECT.json` lists every component with its status, and under `hazards` what
can go wrong in this code, at the line where it would, with the properties that
catch it or the reason why none does.

## 2. The modules

```
WalletOps ── AtomicWallet          what a call promises, in one step
    └─────── WalletLedger          the same, statement by statement
                 ├── MCWalletLedger                        (TLC)
                 └── WalletLedgerProofs
AtomicEnsure                       what ensureWallet promises, in one step
EnsureWallet ─┬─ MCEnsureWallet                            (TLC)
              └─ EnsureWalletProofs          (implements AtomicEnsure)
Totals ─── TotalsProofs            sums of money, for WalletLedger and TopUp
Membership                         who works where, one step per change
HubScope ─┬─ Directory ─┬─ MCDirectory                     (TLC)
          │             └─ DirectoryProofs   (implements Membership)
          ├─ TopUp ─┬─ MCTopUp                             (TLC)
          │         └─ TopUpProofs           (on Membership)
          └─ WalletReads ─┬─ MCWalletReads                 (TLC)
                          └─ WalletReadsProofs (on Membership)
Envelope ── Zones ─┬─ MCZones                              (TLC)
                   └─ ZonesProofs
Sessions ─┬─ MCSessions                                    (TLC)
          └─ SessionsProofs
```

**WalletOps** is the vocabulary of the ledger: the five operations as data,
their checks, their signed changes, and the row each leaves. A wallet is the
rank of its id under `Array.prototype.sort`, because `transfer` sorts ids and
that is all that the order of ids is for. Money is an integer number of paisa:
on the values a `numeric(14,2)` column holds, `Number` and `toFixed(2)` are exact.
`MaxBalance` is the column's largest value; there is no CHECK
against negative balances, so that they do not occur is a theorem.

**AtomicWallet** is the abstract specification: a call is applied in one step to
all its wallets, or refused for a reason that is true at some instant of the
call, or fails; a caller that gets an error cannot tell whether it was applied.

**WalletLedger** is `applyBalanceChange` and `transfer`. `pc[r]` is the statement
request `r` executes next.

| Action | Code |
|---|---|
| `Reject` | `assertPositiveAmount`, the comparison of the two ids |
| `Begin` | `dataSource.transaction`: a connection, BEGIN |
| `LockWallet`, `LockMissing` | `lockWallet`: SELECT ... FOR UPDATE, in the order of ids |
| `ReadWallet` | `transfer`'s second read of both wallets |
| `CheckBalance` | `hasSufficientBalance` |
| `UpdateWallet`, `InsertTransaction` | the UPDATEs, then the INSERTs |
| `Commit`, `Rollback`, `Answer` | the end of the transaction and of the request |
| `StatementFails`, `AnswerFails`, `Crash` | an error at any statement; a COMMIT that was executed but not acknowledged; the process dies and PostgreSQL rolls back, in its own time, what was open |
| `OpenWallet` | another request's `ensureWallet` |

Uncommitted writes are kept per request (`written`, `inserted`) and become
visible with `Commit`. `ImplementsAtomicWallet` is the refinement: COMMIT is
`Apply`, the deciding statement is `Refuse` or `Fail`, all else stutters.

**EnsureWallet** is `ensureWallet` outside a transaction, as all callers use it.
The unique index makes an INSERT wait for another transaction's uncommitted
INSERT of the same key. **AtomicEnsure** is its abstract specification: the wallet
of an owner is found or created in one step and never changes, and a caller that
gets an error cannot tell whether it was created. `ImplementsAtomicEnsure` is the
refinement: the owner's wallet is the one that is committed.

**Totals** is the sum of a function over a finite set, the one operator that the
properties about all the money need.

**HubScope** is what a token is and what the guards and the scope helpers decide.
`GuardsPass` covers `RolesGuard` with the roles of the hubs, riders and wallets
controllers, and `HubScopeGuard` with the hub id that a client names. The guard looks at
the query first and then at the body (`ClientHub`), and never at a path: a hub in the
query hides the one in the body, and the services check the latter again
(`CheckHub` in Directory, `ChooseHub` in TopUp). So the calls carry both hubs.
The two reads of `WalletReads` name no hub.

**Directory** is `HubsService` and `RidersService`. Each request walks through its
checks and writes, one statement per action; the foreign keys and unique
indexes turn into branches of the writes (`SaveUser`, `SaveAssignment`,
`SaveArea`) that end as a 500, because the services catch none of the
database's errors. A new rider or hub is known by the request that inserts it,
since its uuid is drawn then. A list counts (`Count`), then reads a page
(`FindRows`); names and phones, by which lists are sorted, are left out, so any rows may be
on the page. `ever`, `touched`, `counted` and `gone` are history variables: the
assignments that there ever were, the riders a request has written about, the rows a list
has counted, and the assignments that were gone when a request began.
`Answer` is the response that is built when all is written
(`buildRiderResponse`); it can fail like any statement.

**Membership** is the directory as other components see it: hubs are created and
removed, riders assigned, each in one step. `Directory` implements it
(`ImplementsMembership`: `InsertHub` is `Create`, a `SaveAssignment` that succeeds is
`Assign`, `DeleteHub` is `Remove`, all else stutters), and `TopUp` and `WalletReads` take
their environment from it.

**TopUp** is `topUpHubWallet`, `topUpRiderWallet` and `findByOwner`. The ledger's
operations are one step here (`Move`), which `WalletLedger` justifies, and so is
`ensureWallet`, which `EnsureWallet` justifies. `AssignHub` and `RemoveHub` are
steps of `Membership`. A wallet is known by
its owner. `moves` and `before` are history variables; the moves of a request are
numbered, so that one that is made twice counts twice.

**WalletReads** is `findById` and `listTransactions`, and a client that walks through the
pages of one wallet, one request each, and repeats a request that failed.
`created_at` is `now()`, which in PostgreSQL is the start of the transaction: `Begin`
takes it from the clock, `Commit` makes the row visible, in any order. `FindRows` and
`Count` are the two queries of TypeORM's `findAndCount`, of which the second is left out when
a page is not full. Rows of one instant come in any order (`Orders`).

**Zones** is `ZonesService` and its controller, over **Envelope**, which is the
`HttpExceptionFilter` and the `ResponseInterceptor`: what an answer says of success,
status and code. Regions and areas are one function, since no code deletes
either; an area's `region` is set, a region's is not.

| Action | Code |
|---|---|
| `Guards` | the throttler, `JwtAuthGuard`, `RolesGuard`, then the `ValidationPipe` and the pipes of the parameters |
| `Find` | `findRegion` or `findArea` of the zone in the path: 404 |
| `Insert`, `Update` | the write; a null or a geometry that PostGIS refuses (`Bad`), or a PATCH without fields, is a 500 |
| `ReadBack` | `findRegion` or `findArea` again, for the answer |
| `Count`, `FindRows` | the two queries of a list |
| `Answer`, `Fail`, `Crash` | 200 or 201; a query fails; the process dies |

`written`, `after` and `before` are history variables: who has written, in which order,
and which zones were there when a request began.

**Sessions** is the auth module. The server keeps no sessions: it signs two tokens
and forgets them, so what it granted is known from the tokens that are still
good (`issued[r]`, known by the request `r` that signed them) and from the cookies
of a browser (`jar`). Time is what is left of each, counted down by `Tick`; `idle`
is a history variable that counts how long a user has not been active or a hub
not been open.

| Action | Code |
|---|---|
| `Send` | the browser's cookies, or a token in the header (`extractAccessToken`) |
| `FindUser`; `VerifyRefresh`, `FindById` | the checks of `login` and of `refresh` |
| `VerifyAccess` | `JwtAuthGuard` with `JwtStrategy`, for logout and `me` |
| `ResolveHubs`, `Sign` | `resolveHubIds`, `issueTokens` |
| `Answer`, `Lose`, `Fail` | `setAuthCookies` or `clearAuthCookies` reach the browser; the answer does not; a query fails or the process dies |
| `SetStatus`, `SetHubStatus` | `updateStatus` of a rider; create, update, remove of a hub |

A hub's owner is set when the hub is created and no code changes it, so it is a constant.
`Latency` bounds the seconds between reading the user and signing.

Definitions marked "Variant" are mutated forms of the definition that follows
them; no specification uses them. Each stands for a plausible bug, and
the property it is listed with in `PROJECT.json` is violated when it is put in
the definition's place.

## 3. What is checked

| Run | Instance | What it shows |
|---|---|---|
| `ledger_all_ops` | 2 requests, 2 wallets of which one may not exist yet, all five operations, amounts 0 to 2, largest balance 3 | types, `BalanceMatchesLedger`, `AllOrNothing`, `AnswerIsTruthful`, and that the statements implement `AtomicWallet` |
| `ledger_contention` | 3 requests, 3 wallets: competing debits and holds, transfers between all pairs | all the money there is was there or came in by a recorded call (`MoneyIsConserved`), `NoLockCycle` |
| `ledger_liveness` | 3 requests, 2 connections | `EveryCallEnds` under `FairSpec`, and `NeverStuck` |
| `ensure_wallet_race` | 3 calls, 2 owners | `ReturnsTheOneWallet`, `RaceNeverSurfaces`, `EveryCallEnds`, and that the statements implement `AtomicEnsure` |
| `directory_all_ops` | 3 requests of any operation, lists included, by super admins, hub admins (also one of a hub created meanwhile and one of no hub) and riders, also with one hub in the query and another in the body; a hub, a rider, an area, two phones at the start; 3.35 million states | `RowsAreSound`, `WritesStayInScope`, `AnswersAreTruthful`, `RidersWithoutHub`, `ListsAddUp`, and that the statements implement `Membership` |
| `top_up_all` | 2 requests, 2 hubs, a rider; all tokens; hubs that are named, in the body and in the query, or not; amounts that are zero, affordable, not affordable, overflowing | `TopUpRules`, `HubsPayTheirRiders`, `NobodyElseCouldPay`, `MoneyEntersByCredits`, `AnswersAreTruthful` |
| `top_up_reads` | 2 reads of the wallet of an owner | a violation: see section 6 |
| `wallet_reads` | a reader, every kind of user; a hub's, a rider's and a missing wallet; pages of 1 and 2; 3 operations, of which two transfer between the two wallets; 3 instants | `NothingIsMissed`, `TotalsAddUp`, `ReadsStayInScope` |
| `zones_all` | 3 requests of the eight routes by every role; a region and an area at the start; bodies with common fields, disjoint ones, none, refused ones, and a list by city; 2.41 million states | `FieldsAreLatest`, `AnswersAreTruthful`, `PageFitsTotal` |
| `sessions_all` | 3 of login (two users, right or wrong password), refresh and logout; tokens of 2 and 3 seconds | `AuthorityIsRecent`, `CookiesAgree`, `CookiesOutliveTokens` |
| `sessions_hubs` | 3 of login, refresh and `me` of a hub admin whose hub comes and goes | `AuthorityIsRecent` for hubs |
| `sessions_logout` | as `sessions_all` | a violation: see section 6 |

What the bounds leave in:

* Ledger: with two requests every pair of operations meets at every statement.
  Three are needed for a ring of lock waits, and three wallets for a ring that is not just
  a pair. Balances up to 3 or 4 and amounts up to 2 reach the edges: zero, a balance
  equal to the amount, not enough, and too much for the column. A pool of two
  for three requests makes one wait for a connection that a lock holder needs
  nobody else's help to return.
* Each request calls once. A client that repeats a call is another request.
* `EnsureWallet`: three calls, so that one inserts, one waits and one comes late.
* Directory: three requests let a check, the write that relies on it, and two
  intruders interleave: for instance create a hub, assign to it, remove it; or
  create a rider, remove the hub, and list both. More
  rows of the same kind would add no new relation between two rows.
* WalletReads: three operations and three instants allow rows that become visible in
  another order than they are sorted, before, on and after the page being read, and
  two of one instant. One reader is enough, since readers write nothing.
* Zones: three requests are two PATCHes of one zone and one that reads, lists or
  creates in between. Values are compared only for equality; names are numbers, because lists
  are sorted by them.
* TopUp: two hubs are what makes a choice of the hub ambiguous; two requests
  compete for one hub's funds. Any number of directory steps may come in
  between, since they are actions of their own.
* Symmetry is used on requests, in runs without liveness properties. Requests
  that are also ids of new rows (Directory) are permuted with them. `directory_all_ops`
  also checks the refinement `ImplementsMembership` under symmetry: it is a safety property,
  an initial condition and a relation of two states, and `Membership` treats all hubs and riders
  alike, so a violation by one behaviour is one by all its permutations.
* Sessions: three requests are a login, a refresh and a refresh of the refreshed
  token, or a login of one user, a login of another, and a refresh in flight. An
  access token of two seconds can be fresh, half over and over, and a
  refresh token outlives it. `Latency` is one second, so that withdrawals fall
  between the reads and the signature. `idle` stops at `Horizon`, one more than any bound the
  property allows. Riders and hubs are in runs of their own, because what happens
  to the one does not matter to the other.
* Deadlock checking is off, except for Sessions, because every request ends and then
  nothing is left to do. That nothing stops earlier is `EveryCallEnds`, and, for the ledger, `NeverStuck`. In Sessions
  time and the tables never stop.

## 4. Fairness

`FairSpec` of `WalletLedger` and `EnsureWallet` asks for weak fairness of each
request's own next step, and nothing for failures, crashes or other wallets that
appear. The event loop runs each ready callback and PostgreSQL executes each
statement that does not wait; a lock or a connection that is free is granted.
A wait is a guard that is false. Weak fairness does not promise a lock to a
request that others can overtake for ever, but there are finitely many
requests, each made once, so there is no overtaking for ever. After a crash the
open transactions still roll back: PostgreSQL notices the lost connection. That
time limit is not modelled. The other modules have no liveness properties:
no request of theirs waits for another outside the ledger.

## 5. What is proved

All for arbitrary constants that satisfy the named assumptions of the modules (finite
sets where something is counted or summed, opening balances within the column,
calls of the declared type).

**The ledger** (`WalletLedgerProofs`). The types alone are not
inductive: that a balance stays in range after COMMIT depends on what
was read when the row was locked. `IInv` adds, to `TypeOK`, that locks
exclude each other, that each phase holds the locks it should, that a balance
once read is still the committed one as long as the lock is held, that the writes so
far are those of the phase, and that funds were checked before they are taken.
From it follow

* `TypeCorrect`;
* `BalancesAreExplained`: `BalanceMatchesLedger`. COMMIT is the only step
  that writes, and it appends to each wallet a row that continues from the balance
  read under the lock;
* `LocksNeverDeadlock`: `NoLockCycle`. Whoever waits holds only smaller ids than
  the one it waits for; a finite set of waiting requests would need a largest;
* `CallsAreAtomic`, `AnswersAreTruthful`: per request, the rows are either all
  written, exactly after COMMIT, or none is;
* `MoneyStaysConserved`: `MoneyIsConserved`. COMMIT adds one call to those that
  are recorded and changes the sum of the balances by that call's amount, or, for a
  transfer, by nothing: what one wallet loses the other gets;
* `NobodyIsStuck`: `NeverStuck`. If some calls of a set have connections, one of them
  waits for no lock of the others, by the order of the ids; if none has, they wait
  for connections that calls outside the set hold, and that they will give back;
* `CallsRunOut`: `StepsRunOut`. A call has at most twelve steps left; each
  of its own lowers that number and no step of another, nor a crash, raises it;
* `Implementation`: `Spec => Atomic!Spec`, action by action.

`NobodyIsStuck` and `CallsRunOut` are what `EveryCallEnds` rests on besides fairness:
somebody can always go on, and nobody does so for ever. `StepsRunOut`, `WaitsForCommits`,
`OwnerReadsStayInScope` and `LogoutIsFinal` below are stated beside their proofs and belong to no run.

**Sums** (`TotalsProofs`). `Total` is a recursive function on the subsets of a finite set.
That there is a function which satisfies its equation is itself a lemma (`Adder`), and
induction over data is out of the prover's reach; the lemmas take a smallest counterexample
instead, a number (`SmallestNumber`) or a set (`SmallestSet`), and refute it. So the sum of
values does not depend on the order (`TotalByMember`), and changing one value
changes it by the difference (`TotalAfterChange`), which is what both conservation
theorems use.

**ensureWallet** (`EnsureWalletProofs`): `TypeCorrect`, `OneWalletPerOwner`,
`RacesStayInside` and `Implementation` (`Spec => Atomic!Spec`), from an invariant that the
rows, committed and uncommitted together, are of different owners, and that an
uncommitted row belongs to a call that is about to commit. The latter also gives
`WaitsAreShort`: an INSERT waits only for a call that itself waits for
nobody. `CallsRunOut` bounds the steps of a call by four.

**Top-ups** (`TopUpProofs`): `TypeCorrect`, `TopUpRulesHold`,
`HubsPayOnlyTheirRiders`, `ChoiceWasForced`, `MoneyIsConserved`
(`MoneyEntersByCredits`), `AnswersCanBeTrusted`, `OwnerReadsAreScoped`. The
properties speak of money that has moved, long after the checks. The
inductive invariant carries what was checked along with the request: an
assignment once seen is there until its hub is removed (`StillOrGone`), because
nothing else deletes assignments, and an assignment that went does not come back
because a removed hub does not (`NeverBack`). So what a request knows of the hub
it has chosen (`MayPay`) survives every step of other requests. `OwnerReadsAreScoped`
is the other half of the first finding of section 6: `findByOwner` may refuse too often,
but it never shows a wallet outside the scope, and it refuses one only when a hub outside
the scope has the rider too or a hub of the scope was removed.

**Directory** (`DirectoryProofs`): `TypeCorrect`, `RowsStaySound`, `WritesAreScoped`,
`AnswersCanBeTrusted`, `RidersKeepAHub`, `ListsStayHonest`, and `Refinement`
(`Spec => ImplementsMembership`). No lock protects a check, so little that a
request has read is true later; what carries the proof is what no step takes
back (`Grows`): users and the history of assignments only grow, and an id once drawn
(`Known`) is never drawn again, so a hub or an assignment that is gone stays gone. The
inductive invariant has a part for the tables (`TableInv`), and for each request what
is known at its statement (`StepInv`): until its first write it has left no trace,
from `checkRider` on somebody else had assigned its rider within the scope, by an
assignment that was not gone when the request began (`Reaches`), and a total is the number of rows that were counted. `OthersKeep` shows
once, for all actions, that a step which only grows the tables and adds rows of its own
request (`Effect`) preserves what the other requests know.

**Reads** (`WalletReadsProofs`): `TypeCorrect`, `WalksAreComplete`, `TotalsAreSound`,
`ReadsAreScoped`. A row may be pushed to a later page by new rows, never to an earlier one:
the rows in front of it only become more. So every row known at the start whose place
(`Place`, the number of rows at or in front of it) is within the pages read so far has been
seen (`SeenInv`), and when the client stops, no place is beyond the total it was told (`LastInv`).

**Zones** (`ZonesProofs`): `TypeCorrect`, `NoFieldIsLost`, `AnswersCanBeTrusted`,
`PagesFitTheirTotals`. `after` orders the writes; the latest
writer of each field is whoever no other writer of it is after, and that is kept because
`Update` leaves the fields alone that the body does not name. A page fits its total
because rows are only added between the count and the page, and both queries have the
same filter.

**Sessions** (`SessionsProofs`): `TypeCorrect`, `AuthorityStaysRecent`,
`CookiesAlwaysAgree`, `CookiesLastLongEnough`, `OnlyARefreshSignsBackIn`. That a token's authority is recent is
preserved by `Tick`, since both sides of the bound grow together, but not by `Sign`:
one must know that what a request has read ages no faster than the
request (`GrantInv`), and for a refresh that the token it came with was signed
for a user (`RequestInv`, `TokenInv`). Refreshing does not stretch anything because
`FindById` and `ResolveHubs` start from the tables again. `OnlyARefreshSignsBackIn` bounds
the second finding of section 6: a logout that is answered while no refresh with a token is
in flight is final (`LogoutIsFinal`), so the race found there is the only way back in.

Each inductive invariant was model-checked before it was proved.

**Only model-checked**: the two liveness properties `EveryCallEnds`, which need fairness and
ENABLED; and the two violations of section 6. Every other property of a passing run is the
statement of a theorem.

## 6. What was found

`findByOwner` calls `assertOwnerExists`, which for a rider looks at one
assignment, whichever the database returns first (`wallet.service.ts` 503-512), and
refuses with 403 when that one's hub is outside the token's scope. A rider may have
several hubs. The comment at `common/types/auth.ts` 22 says that a scope means
`hub_id` is IN `hubIds`, and every other check of the code asks whether any
assignment is. The run `top_up_reads` shows a hub admin refused the wallet of a
rider of the admin's own hub, throughout the request.

A logout clears the cookies of the browser that receives its answer; the API
documentation calls this `Session cleared` (`modules/auth/auth.controller.ts` 73) and the
test `clears the session` (`test/e2e/auth.e2e-spec.ts` 85). The run `sessions_logout` shows a refresh
that was sent before the logout and is answered after it: both cookies are
back, with no login in between. Nothing on the server could tell the two apart, since a
logout leaves no trace there. Nor does it end the tokens themselves: a token that was
copied works until it expires.

Three behaviours are in the models and worth knowing:
`RidersWithoutHub` describes riders that no list shows, not even a super admin's, left by a creation whose second
insert failed (their phone number stays taken) or by the removal of their
hubs; and a hub removed in the middle of a top-up still pays, from a wallet that
nobody owns (`HubsPayTheirRiders` allows exactly this). And `GET /regions?city=...`
is always a 400: the whole query is validated as a `PaginationQueryDto`, which has no city, under
`forbidNonWhitelisted` (`app.module.ts` 69-74, `zones.controller.ts` 37-42), so the filter
of `findRegions` is never reached (`Guards` of Zones). `GET /riders?hubId=...` ends the
same way when the hub is in scope (`Guards` of Directory).

## 7. What is left out, and the plan

Left out on purpose: attributes that no decision depends on (names of hubs, geometry,
home-hub flag; statuses outside Sessions), validation of formats by the DTOs, logging, Swagger,
start-up; the `manager` parameter of the wallet operations and of
`ensureWallet`, which no caller passes; amounts with more than two decimals,
which validation refuses and only an internal caller could pass; `findAreaContainingPoint`,
which nothing calls; the content of a rider's response beside the id; the city
filter of `findRegions`, which no request reaches.

Not modelled, because there is no state whose changes could go wrong: health and
readiness (three independent probes), the Redis client (only pinged), the seed script (run
by hand, alone, on a development database), bootstrap, the empty jobs directory.

What could still be added, in the order of importance:

1. **Money**: addition and comparison of decimal strings through `Number` and
   `toFixed`, beyond two decimals and beyond 2^53, once a caller can pass such amounts.
2. **Sessions**: what a client that refreshes when it gets a 401 can count on, with
   several requests that notice the expiry at once.
3. **Envelope** for the routes of hubs, riders and wallets, with the codes that their
   exceptions bring along.
