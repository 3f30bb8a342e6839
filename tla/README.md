# Verification of Arta

Arta is a household finance application: a Go server on PostgreSQL
(`src/server`) and a React PWA (`src/apps/web`) that captures expenses offline.
This directory holds TLA+ modules of its money-moving core and of its web
client, the configurations that model-check them on small instances, and theorems
that TLAPS proves for every instance.

What makes this code hard is the same everywhere: a handler runs several SQL
statements, each of which sees the database as it is *then* (READ COMMITTED),
and decides on what an earlier one returned. Some handlers guard themselves with
row locks, some with a condition repeated in the UPDATE, some with nothing. The
models therefore have **one action per SQL statement or `await`**, so that every
other request, a lost answer or a closed page can come in between. The browser has
the same trouble on its side: an `async` function goes on, after its `await`, with
the household, the user and the page of the moment it was called.

## 1. Inventory

Statement and line references below are to `src/server/internal` unless a path
says otherwise.

| Component | State | Operations | What is hard | What makes it correct |
|---|---|---|---|---|
| **Wallets and ledger** (`finance/service.go`) | `wallets`, `transactions`, `transfers` | create, update, archive a wallet; income, expense; transfer | status read in one statement, row written in another; two archives; a transfer that reads two wallets | an archived wallet's own data never changes and its balance settles; transfers conserve money per currency |
| **Goals** (`finance/goal_service.go`) | `financial_goals`, `goal_reservation_events` | create, update, archive a goal; reserve, release | balance and reserved sum read, compared and written later; two row locks; archives that wait | a reservation is covered when it appears; nothing is over-released; nothing is reserved on archived rows; no deadlock; every request ends |
| **Reconciliation** (`finance/reconciliation_service.go`) | `wallet_reconciliations`, `balance_adjustments` | open a case; resolve it, with an adjustment when one is needed | the case is locked, the wallet is not; adjustment and closing are two writes | adjustments and reconciled cases match; a case is settled once; the wallet then shows what was observed |
| **Capture inbox** (`finance/capture_service.go`) | `transaction_captures`, the transactions made of them | create (client-chosen id), review, confirm | retries of a creation, reviews and confirms of the same row, wallets archived meanwhile | one transaction per confirmed capture, of its own facts; captures only advance; budgets fit in currency |
| **Capture outbox** (`src/apps/web/src/QuickCaptureInbox.tsx`, `components/capture/useCaptureOutbox.ts`) | IndexedDB, the form, runs of the retry loop, requests under way | submit, save on the device, retry, delete | timeouts that leave a request alive, lost answers, overlapping runs, expired sessions, closed pages | what the user was told is saved is in the outbox or on the server; the outbox drains |
| **Budgets** (`finance/budget_service.go`) | `budgets` | create, change the renewal, list (which renews) | every listing writes; concurrent listings | one next period per period; spending counted once |
| **Sessions, accounts, invites** (`auth`) | `users`, `user_sessions`, `household_invites`, `household_members` | register, log in and out, invite, redeem | two registrations or redemptions at once; an error inside a transaction | one account per email, one member per invite |
| **Backup and restore** (`backup/service.go`) | all tables of a household | export, validate, restore | order of deletes and inserts against foreign keys; a restore and the other handlers lock the household and its rows in opposite orders | files are complete; a restore replaces everything or nothing, and ends; an exported household restores to what it was |
| **Overview and lists** (`finance/overview_service.go`) | none | read | several statements, several snapshots | the figures belong together |
| **Web session and open household** (`src/apps/web/src`: `components/auth/useAuthSession.ts`, `AuthGate.tsx`, `HouseholdEntry.tsx`, `components/financial/workspace/useFinancialWorkspace*.ts`, `financialWorkspaceCache.ts`) | cookie, user, household shown, five entries of `localStorage` | log in, register, log out, start; open, switch, create or join a household | answers of an earlier user or household that arrive late; calls that outlive their page; offline starts from a snapshot | what is shown and kept belongs to the user it names; nobody waits for ever |
| **Web pages** (`src/apps/web/src`: `AppRouter.tsx`, the `*Mount.tsx`, `pages`, `components`) | last answers, forms, flags of each page | visit, load, refresh, choose, save | a timer changes the household under a page; loads overlap; saves overlap; forms remember | lists, forms and saves are of the household the page is for; a guarded save runs alone; no page stays disabled |
| Layout and texts, password hashing, process start | — | — | — | not modelled: rendering, libraries, start-up |

**How they interact.** The browser calls the server over HTTP; an answer may be
lost and the request may still have happened. All server components share the
wallets. Reservations take a wallet `FOR UPDATE`; an insert into `transactions`,
`transfers` or `balance_adjustments` takes it `FOR KEY SHARE` through its foreign
key; an update or an archive of a wallet takes it `FOR NO KEY UPDATE`. Those
modes, and nothing else, decide which handlers wait for which, so they are a
module of their own (`RowLocks`). Confirming a capture writes into the ledger. A
budget gives a capture its currency check. Every insert of any component shares the
household's row through a foreign key, and a restore takes that row `FOR UPDATE`.

In the browser, `localStorage` is the one thing all pages share: the workspace writes
which household is selected, and the other pages read it twice a second.

The hazards, each at its line with the properties that would catch it, are in
`PROJECT.json` under `hazards`. Four have no property. Two, because the handlers they
are in are not modelled: budgets renewed by concurrent listings (budget_service.go:50)
and an invite redeemed twice at once (invite.go:61). Two, because the code does what
should not happen, so that the model takes the step and the properties except it: a
refresh whose late answer overwrites the wallets of the household switched to
(useFinancialWorkspaceActions.ts:45, `stale`) and a load that writes `localStorage`
after its workspace is gone (useFinancialWorkspaceData.ts:66, `late`). Section 4 comes
back to both.

## 2. Modules

```
RowLocks        lock table of PostgreSQL: modes, conflicts, release
  Ledger                                    LedgerProofs
    GoalFunds ---implements---> FundsContract   GoalFundsProofs
    Reconciliation
      HouseholdMoney = GoalFunds + Reconciliation over the same wallets and locks
                                            HouseholdMoneyProofs
    Captures                                CapturesProofs
CaptureOutbox   the browser and its half-open line to the server
                                            CaptureOutboxProofs
BackupRestore   rows, foreign keys, exports and restores
                                            BackupRestoreProofs
WebSession      who is signed in, and localStorage
  WebClient     which household is open       WebClientProofs
PageFrame       what all pages have in common
  BudgetPage, GoalPage, ReconciliationPage, FamilyPage,
  WorkspacePage, InboxPage, ViewPages
    WebPages    all pages, one shown at a time  WebPagesProofs
MC*             instances for TLC
```

A request is a process: `call[r]` (ledger), `task[r]` (goals), `job[r]`
(reconciliation) and `visit[r]` (inbox) hold the statement the request issues
next and the local variables it carries there; idle means nobody has sent it. A
request may be abandoned anywhere (`Abandon`, `AbortTask`, `AbortJob`,
`AbortVisit`): the handlers hand the client's context to every statement, and the
deferred `Rollback` releases the locks.

- **RowLocks** is external: it models PostgreSQL from the way the statements use
  it. A statement that commits by itself needs its lock to be *grantable* and
  never holds it beyond its own step. A transaction keeps what it takes until
  COMMIT or ROLLBACK.
- **Ledger.** `posted[w]` and `moved[w]` are the two sums the balance query takes
  of `transactions` and `transfers` (service.go:212-216); the rows are insert-only
  and no other query of these components could tell two tables with equal sums
  apart. `archivedAt[w]` is the request whose clock the row shows. Refusals that
  leave nothing behind are left out; the ones that come after an earlier read are
  not. `CreateTransaction` checks no balance, as in the code.
- **GoalFunds.** `reserved[g][w]` and `held[w]` are the sums the queries at
  goal_service.go:165 and :128 take of the events. Reserve and release are
  `LockGoal`, `LockWallet`, `ReadBalance` (reserve only), `ReadReserved`, `Commit`.
  The INSERT is invisible before COMMIT and waits for nobody, so it belongs to
  `Commit`.
- **FundsContract** is what reserving promises, with no locks and no statements:
  a reservation is one instant at which goal and wallet are active, currencies
  agree and the balance covers all that is held. `GoalFunds` implements it under
  `balance <- [w \in Wallets |-> LedgerBalance(w)]`.
- **Reconciliation.** `ResolveReconciliationWithAdjustment` locks the case, reads
  the balance in a snapshot of its own, inserts the adjustment (sharing the
  wallet's row) and closes the case. The adjustment becomes visible in `CloseCase`.
- **HouseholdMoney** puts the goal and the reconciliation handlers over one set of
  wallets, one set of sums and one lock table.
- **Captures.** Creating is one INSERT with `ON CONFLICT (id)`; `ReviewCapture`
  reads the capture, reads the wallet (and the budget, whose currency never
  changes) and updates only a pending row; `ConfirmCapture` locks the capture,
  reads the wallet's status, inserts the transaction and closes the capture.
- **CaptureOutbox.** A set `outbox` for IndexedDB, a set `stored` for the server's
  table, `form[c]` and `sync[s]` for the two callers, `flying` and `processed` for
  requests before and after the server dealt with them. The form goes to the
  network first when the browser is online. A caller that gives up leaves its
  request flying. Runs of the retry loop overlap: nothing in the hook prevents it.

- **BackupRestore.** `db` maps the id of a row to the ids its foreign keys name; the
  table of an id is a constant, and all other columns travel unchanged, so they are
  left out. `TableOrder`, `DeleteOrder`, `Cascading` and `Nullable` are the two slices
  of service.go and the `ON DELETE` clauses of the migrations. An export is one
  snapshot and one step per table (`ReadTable`). A restore is `LockHousehold`, one
  `DeleteTable` per DELETE, one `InsertTable` per table (its row-by-row INSERTs meet
  nobody else: the household is locked) and `CommitRestore`; until then what it
  deleted and made is in its own record (`gone`, `made`). The other handlers appear as
  what a restore can meet: an insert that commits by itself (`Insert`), a review, which
  needs no household (`Review`), and those that lock a row and insert under it
  (`LockRow`, `WriteUnder`; their INSERT and COMMIT are one step, during which a
  restore would only wait). `PlaceCapture` and `StoreCapture` are the one INSERT whose
  id comes from a client and may therefore be in a file as well.

In the web client every record (a list, a wallet, a budget, a file) is abstracted to
the household it belongs to, which is what can be wrong about it. A call is sent in
one step and answered, or given up, in a later one. It goes on after its component
has been unmounted: then its setters do nothing, and what it writes at the server or
in `localStorage` still counts; the field `live` of a job tells the two apart.

- **WebSession.** `user`, `loading` and `saving` are the state of `useAuthSession`;
  `cookie` is whom the server takes the browser for, which changes when the server
  deals with a call, whether or not the answer arrives. The form is hidden from a
  user who is signed in, and disabled while a call of it is under way; `raced` records
  that two sign-ins were under way all the same, which a logout in between allows.
- **WebClient.** The loading effect of the workspace (`LoadListed`, `LoadFetched`,
  `LoadRestores`, `LoadFails`), the switcher, and creating and joining a household.
  A job carries the user its last call was sent for (`as`). `late` records that a
  workspace that was gone wrote `localStorage`, `restored` that what is shown comes
  from a snapshot written so.
- **PageFrame.** The household a page is rendered for (`prop`), the selected one, what
  its lists, wallets and forms hold, its flags, and the timer (`FollowSelection`) that
  renders it for another household. `stale` records that, since `prop` was set, an
  answer failed or was of another household: the client does not order answers.
- **BudgetPage, GoalPage, ReconciliationPage, FamilyPage, WorkspacePage, InboxPage,
  ViewPages.** The operations of one page each: which controls are enabled, the call
  they start, what its answer fills, and what is loaded next. A write is refused by
  the server when it names records of another household (`Served`).
- **WebPages** puts them beside one another with the links between them. The user is a
  member of all the households; WebClient has users with different ones.

Definitions named `...` after a comment that starts with "Mutant" are variants
with a plausible bug; no specification uses them. Each property of a passing run
has one that breaks it, listed under `mutants`.

## 3. Runs

| Run | Instance | What it shows |
|---|---|---|
| `ledger` | 3 wallets, 2 currencies, 2 requests | `ArchivedWalletSettles`, `ArchivedWalletIsFrozen`, `TransfersConserve`, types |
| `goal_funds` | 2 goals on 1 wallet, 2 goal requests, 1 ledger request, amounts and targets 1-2 | `ReservationsAreCovered`, `ArchivedGoalsOnlyShrink`, `ArchivedGoalIsFrozen`, `NoDeadlock`, the refinement `ImplementsContract`, the inductive invariant `FundsInv`, types |
| `reconcile_observed` | 2 cases of 1 wallet, 2 requests | **violated:** two cases resolved at once are both adjusted by the whole difference |
| `household` | 1 goal and 2 cases on 1 wallet, 1 + 2 requests | `AdjustmentsAccounted`, `CasesSettleOnce`, `NoDeadlockAmongAll`, `AdjustmentsWaitForReservations`, `EveryRequestEnds`, types |
| `reserve_physical` | 1 goal and 1 case on 1 wallet | **violated:** a reservation gets money that an adjustment took away |
| `captures` | 1 capture, 2 budgets, 2 inbox requests, 1 ledger request | `EnteredOnce`, `BudgetsFit`, `CapturesOnlyAdvance`, types |
| `capture_outbox` | 1 capture in the outbox, 1 to submit, 2 runs | `ToldIsKept`, `OutboxDrains`, types |
| `backup_restore` | wallet, goal and budget, room for a capture, a reservation and a transaction; 2 restores, 1 writer, 1 file | `ExportIsClosed`, `DeletesAreNeverRefused`, `ReplacedWhole`, `OnlyBudgetsRefuse`, `EveryRestoreEnds`, the inductive invariant `BackupInv`, types |
| `restore_gives_back` | the same, 1 restore | **violated:** the export of a household with a budgeted transaction cannot be restored |
| `web_client` | 2 users who share one of 2 households, 2 jobs, 1 logout under way | `StorageIsOwn`, `ShownHouseholdIsOwn`, `WaitsEnd`, types |
| `web_pages` | 2 households, 2 calls, all pages | `PinnedOnlyByLateAnswers`, `OneSaveAtATime`, `SavesNameOwnRecords`, `PagesSettle`, types |
| `surfaces_follow` | 2 households, 1 call | **violated:** after a switch the transaction form offers budgets of the household before |

**The bounds.** Every race these handlers can have is between two requests, plus
one of another handler that moves the sums or archives the row, so two requests
per handler and one beside them are the smallest instance in which all of them
happen. One wallet suffices where the properties are per wallet, since wallets
share nothing but a transfer, and a transfer is in `ledger`, with a third wallet
so that a currency can differ. Amounts 1 and 2 with `LedgerBound = 2` let one
reservation fit and two not. `LedgerBound` bounds a sum in the guards of
`InsertTransaction`, `InsertTransfer` and `CloseCapture`; `FileBound` bounds the
files a user keeps, in the guard of `BeginExport`. One file is
enough for `backup_restore`, because a restore uses one and what came before it is
deleted; two restores let one wait for the household while the other commits.
`MaxJobs` bounds, in the guard `Room`, the calls under way when the *user* starts
another one; what an answer or a timer starts is not bounded, so more are under way
at times. Two let an answer overtake another, a save meet a switch, and a call of a
page that is gone meet one of the page that is shown. `MaxLogouts` bounds the logouts
under way, in the guard of `Logout`. With one the sign-ins of the run never race,
which takes two logouts (the button is never disabled); racing is what the two
properties except, the theorems hold for any number, and two logouts with one job
pass as well (65,663 states). Nothing else is capped. Two users who share one of two
households let an answer be of a household that is foreign, shared or own.
`ledger` switches the deadlock check off, because once all wallets are archived a
household may really have nothing left to do. `household` and `reserve_physical`
start from a household that already has its wallets, its goals and some money;
`capture_outbox` starts with one capture submitted offline. Symmetry is used in
runs without liveness only, over sets whose members no definition tells apart.

**Fairness.** No client has to send anything, and nothing forces an abandonment.
A goal or reconciliation request that has started takes its next statement under
*strong* fairness: PostgreSQL queues those who wait for a row and wakes them in
turn, so a row that is free again and again is in the end theirs. Strong fairness
does not help a `FOR UPDATE` that several overlapping `FOR KEY SHARE` holders keep
out without a gap, and the code has that: hence the condition in
`EveryRequestEnds`, which promises the end of a reservation only once
reconciliations stop arriving. In the outbox a run, a request of its own and a
sign-in are weakly fair, because the page re-runs the hook and the user comes
back; and from some time on there is no bad `Weather` (closed page, lost request,
expired session, failing IndexedDB, or a refusal or timeout while the answer can
still come; a request lost earlier is still given up, which the timeout of eight
seconds guarantees). A restore takes its next statement under strong fairness for the
same reason as a goal request, and `BreakCircle` is PostgreSQL's deadlock detector,
which the code relies on: a restore holds the household and waits for a goal, capture,
case or invitation whose holder waits for the household. `EveryRestoreEnds` speaks of
restores that hold the household; before that, overlapping inserts may keep one
waiting. Draining is promised from then on only, which is what the
retries are for.

In the web client nobody has to press anything. `request()` aborts a call that has no
answer after eight seconds, so every call that a page waits for with its controls
disabled ends, step by step: weak fairness of the ends of a start, a sign-in, a
logout, a load and a switch (`web_client`), and of the awaited writes and loads
(`web_pages`), and of the timer of the pages that poll. `requestBlob()` has no such
limit, so a download is not fair, and `PagesSettle` excepts it.

## 4. What the runs found

The first four have a run that ends with the counterexample.

1. **Two cases adjust the same difference** (`reconcile_observed`).
   `reconciliation_service.go:91-98` locks the case, not the wallet, so two cases
   of one wallet read the same balance and both insert the remainder, against
   ADR-008:57.
2. **A reservation ignores adjustments** (`reserve_physical`).
   `goal_service.go:125` sums transactions and transfers only, while every other
   balance adds `balance_adjustments`, against `data-model.md:226`.
3. **An export with a budgeted transaction cannot be restored**
   (`restore_gives_back`). `backup/service.go:40` inserts transactions and captures
   before the budgets they refer to, and foreign keys are checked at once, against
   `backup-restore.md:17`. `OnlyBudgetsRefuse`, proved, says that this is the only
   defect of the order (budgets among themselves, of which one may renew another, are
   part of it: their order is that of random ids).
4. **A switch leaves the budgets behind** (`surfaces_follow`). `activateHousehold`
   (useFinancialWorkspaceActions.ts:61-65) loads wallets and overview of the new
   household; the budgets of the workspace come from `refresh` (:47), which only
   follows a write. `TransactionForm` then offers budgets of the household before,
   against `current-state.md:28`.

Seen in the code while modelling it, and without a run of their own; where a property
makes an exception of one, it is named:

- An archived wallet is not closed at once: `service.go:163` reads the wallet and
  `:184` inserts in another statement, and an archive fits between, against
  `data-model.md:61`. What does hold, and is proved: the balance settles as soon as
  the requests that saw the wallet active are answered (`ArchivedWalletSettles`).
- Online, a capture is posted before it is stored (`QuickCaptureInbox.tsx:113-131`),
  while `user-flows.md:11` says it is stored before any network request. `ToldIsKept`
  holds because nothing is promised before the answer.
- A load that outlives its workspace writes its household to `localStorage` under the
  name of whoever is signed in by then (`late` in `StorageIsOwn`), against
  `ADR-009-offline-auth-and-cache-boundaries.md:20`. `arta.activeHouseholdName` is
  never removed at all.
- A refresh after a write is not tied to the household shown: if the user switches
  meanwhile and it is answered last, `useFinancialWorkspaceActions.ts:45-47` puts the
  wallets of the household before over those of the new one, and likewise the lists of
  the pages (`stale` in `PinnedOnlyByLateAnswers` and `SavesNameOwnRecords`). They stay
  until the page loads again or is rendered for another household.
- Two sign-ins can overlap, and cookie and name then be of different users (`raced`).
- The pages for goals and for reconciliation and the forms of the workspace are not
  disabled while they save (hence the two pages in `OneSaveAtATime`), and the forms of
  the workspace, a goal card and an open review may name a wallet of the household
  before, which only the server refuses (hence the calls in `SavesNameOwnRecords`).

## 5. Proofs

All theorems hold for every value of the constants, under the named assumptions
of the modules: `AmountsArePositive` (the request handlers refuse others),
`LedgerBoundIsNat`, `NoTimeIsNoRequest`, and that different kinds of rows and of
requests have different ids (`RowsAreDistinct`, `RequestsAreDistinct`,
`NullsAreNoRows`, `CapturesAreRows`, `NobodyIsTwo`, `HouseIsTheHousehold`,
`CasesAreRows`, `CaseRequestsAreDistinct`, `NobodyIsNoUser`,
`NowhereIsNoHousehold`); that the bounds are numbers (`MaxJobsIsNat`,
`MaxLogoutsIsNat`, `FileBoundIsNat`), observed balances integers (`ObservedAreInts`)
and the first households of each user households (`InitialMembersType`); and that
the first rows of `BackupRestore` stand alone (`FirstRowsStandAlone`).

- **LedgerProofs.** `LedgerTypes`; `ArchiveFreezes` and `ArchiveSettles`, both
  action properties that follow from types, one step per action. Then the sums.
  `SumFunctionOnSet` is defined by recursion over subsets, and a schema of induction
  over sets cannot be instantiated here; instead, a claim that fails for a finite set
  fails for a smallest subset of it (`MinimalSubset`, from the well-foundedness of the
  strict subset relation), which gives `SumUnfold` (the recursion has exactly one
  solution), `SumTakeOut`, `SumChange`, `SumAdd`, `SumOfBoth` and `SumBounds`.
  `TransfersConserve` is not inductive: `TransfersStand` adds that a transfer about to
  be inserted has two different wallets of one currency, both there, that a wallet
  nobody created has moved nothing, and that only finitely many wallets are there,
  which is part of the invariant and not assumed of `Wallets`. From it
  `TransfersAlwaysConserve`, and `BalancesAlwaysAddUp`: the balances of a currency add
  up to what was posted in it.
- **GoalFundsProofs.** `ReservationsAreCovered` is not inductive: that a commit is
  covered depends on what was read two statements earlier still being so. The
  invariant `FundsInv` says why it is: the lock table holds exactly what the open
  transactions have locked and no row twice (`LocksMatchTasks`), and hence what
  each has read still stands (`ReadsStand`): statuses, currencies, balance and sum.
  Every ledger write has to pass the wallet's lock, which is where the row-lock
  modes enter the proof. From it: `ReservationsCovered`, `ArchivedGoalsShrink`,
  `NothingOverReleased`, `DeadlockFree` (goal before wallet, for any set of
  requests) and `HandlersImplementContract`, the refinement. `ArchivedGoalsFreeze`
  needs only types: both UPDATEs of a goal ask for an active one. The module keeps
  the events as two sums, and `HeldAlwaysAddsUp` shows that these are sums of the same
  events: what a wallet holds is the total of what its goals hold in it (`HeldInv`, with
  `EventsHaveGoals`: no event names a goal that is not there). A release is compared
  with the goal's sum only; that this never takes the wallet's below zero is
  `GoalsAlwaysWithinHeld`.
- **HouseholdMoneyProofs.** For the composition the lock table is described exactly:
  what each open transaction holds is a function of the statement it is at (`HeldBy`),
  the table is the union of that (`LocksExact`), and no two of its entries conflict
  (`LocksAgree`). `CasesStand` adds that a case which a request has locked is still
  unresolved, and one which a request creates nobody else's. From these:
  `CasesAlwaysSettle`; `AdjustmentsAlwaysWait` (an adjustment is inserted under a
  share of the wallet's row, which a reservation excludes); and `MoneyDeadlockFree`,
  because goals and cases are only waited for by requests that hold nothing, and
  whoever holds a wallet waits for nobody. `AdjustmentsAlwaysAccounted` is another sum:
  `AccountsStand` says that finitely many cases are there and that a case which is not
  reconciled has adjusted nothing, so closing one adds its adjustment once;
  `PhysicalAlwaysAddsUp` puts it together with the ledger's sums. What is proved of goals
  and ledger alone is carried over, not proved again: with the lock table restricted to
  the goal requests (`GoalLocks`) the household implements `GoalFunds`
  (`HouseholdImplementsFunds`; a step of a reconciliation is a stutter there, its locks
  only make others wait), and hence `GoalsInHousehold`, `SharesInHousehold`,
  `HouseholdImplementsContract`; `LedgerInHousehold` carries over those of the ledger.
- **CapturesProofs.** `InboxInv`: a row locked `FOR UPDATE` has one locker, the
  capture a confirmation works on is locked, pending and reviewed, and whatever a
  review is about to write fits in currency. From it `CapturesEnterOnce`,
  `BudgetsAlwaysFit`, `CapturesAlwaysAdvance`. `InboxDeadlockFree` needs the converse
  of what it says of locks, that only confirmations hold any: their capture, and the
  wallet they share (`LocksAreOfConfirmations`); so a confirmation that has its capture
  waits for nobody, and all others wait for such a one.
- **CaptureOutboxProofs.** `KeptInv` adds to `ToldIsKept` that an answer is only
  processed for a stored capture and a run only deletes one. From it
  `ToldIsAlwaysKept`, for any number of captures and overlapping runs, and
  `DeviceKeepsUnsent`: a capture leaves the outbox only once the server has it, also
  one of which the user was told that it was not saved.

- **BackupRestoreProofs.** The two orders are finite data, so lemmas first compare them
  with the schema (`DeleteOrderFits`, `TableOrderFits`, `AllTablesDeleted`). `BackupInv`
  says that the committed rows and every file follow the schema (`Sound`), that an
  export has read a part of one snapshot, that the one restore at work has emptied the
  tables before its step and then made exactly the file's rows of them (`Progress`), and
  that nobody holds a row a restore has taken (`HeldRowsStand`, which is where the locks
  matter). From it: `ExportsAreClosed`, `DeletesSucceed`, `RestoresReplaceWhole`,
  `RefusedOnlyForBudgets`, for any rows, writers and restores.

- **WebClientProofs.** That what is shown belongs to the user is not inductive: a load
  that is still heard must have been sent for the user who is shown now. `ClientInv`
  says so (`HeardInv`), and why: while sign-ins do not race, the cookie is of the user
  or of nobody, and the form is hidden from whoever is signed in (`IdentityInv`);
  nothing is kept for nobody (`KeptInv`). From it `StorageStaysOwn`, `ShownStaysOwn`.
- **WebPagesProofs.** `PageInv` has seven parts; the central one, `Explained`, says
  that what a page shows of another household is about to be replaced by a call under
  way, or `stale` tells why not. The others say which calls can be under way on which
  page. From it `ListsFollowThePage` and `SavesAreOwn`. `SaveAlone` adds that a
  guarded save that is under way is the only one and keeps its page busy, on which
  `SavesAreAlone` rests.

**Only model-checked.** Liveness: `EveryRequestEnds` (with `EveryTaskEnds`),
`EveryRestoreEnds`, `OutboxDrains`, `WaitsEnd` and `PagesSettle`, which need `ENABLED`.
Every other property of a passing run is a theorem. `BalancesAddUp`, `PhysicalAddsUp`,
`HeldAddsUp`, `GoalsWithinHeld`, `NoInboxDeadlock` and `LeavesOnlyStored` are theorems
that no run checks; they are stated in the proof modules.

## 6. Not modelled, and why

- **Budgets on the server** (`budget_service.go`): the renewal that every listing runs.
  `:49` renews only a budget that was not itself renewed, so a monthly budget gets one
  further period; whether that is meant, no document says. Concurrent listings meet in
  one `INSERT ... ON CONFLICT DO NOTHING`. The browser's side of budgets is in
  `BudgetPage`, and their part in a restore and in a capture is modelled.
- **Accounts and invites on the server** (`auth/service.go`, `auth/invite.go`):
  registration and redemption appear as what they change for the browser
  (`WebSession`, `WebClient`), not as their own transactions. Redeeming locks the invite
  `FOR UPDATE` and marks it in the same transaction, so a second one finds none.
  Registering looks for the email in use in the transaction that its failed INSERT has
  aborted (service.go:60), so that answer is never given.
- **The queries of the overview and the lists**: they only read, each in several
  snapshots. Nothing is decided on what they return.
- **HouseholdInvitePanel**, which keeps only the code it shows; formatting, layout and
  texts; password hashing and tokens (library calls); process start and configuration.
- **Unused code**: `HouseholdJoin.tsx`, and `getBudget` and `updateGoal` of `lib/api.ts`,
  which nothing in the client calls.

In the modelled parts: validation and error texts, files that are not exports (a
restore refuses them in `Validate`, before it touches anything), dates, notes and
categories, lists and totals (they change nothing), the budget of a directly created
transaction (its currency check is the one of a review), overflow of `bigint` sums,
and isolation other than READ COMMITTED (only the export uses another).

What would come next: the two server components above, and a run in which the web
client's calls meet the handlers of the server instead of the membership check that
stands for them.

## 7. Running

    tlc -config MCGoalFunds.cfg MCGoalFunds.tla
    tlapm GoalFundsProofs.tla

Each configuration of `PROJECT.json` `runs` is run on the module named there; the
four runs marked *violated* end with the counterexample that section 4 tells.
