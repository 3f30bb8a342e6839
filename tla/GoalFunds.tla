----------------------------- MODULE GoalFunds ------------------------------
(***************************************************************************)
(* Financial goals and the money they reserve: finance/goal_service.go     *)
(* beside the wallets and the ledger of module Ledger.                     *)
(*                                                                         *)
(* ReserveGoalFunds and ReleaseGoalFunds are transactions: they lock the   *)
(* goal row and then the wallet row FOR UPDATE, read the sums, compare,    *)
(* insert one event and commit.  Each SQL statement is an action;          *)
(* task[r].at names the next statement of request r.  The INSERT is        *)
(* invisible until COMMIT and waits for nobody, the transaction having     *)
(* both rows already, so the two are one action.                           *)
(*                                                                         *)
(* goal_reservation_events is kept as the two sums the queries take of it: *)
(* per goal and wallet (line 165) and per wallet (lines 128 and 188).      *)
(***************************************************************************)
EXTENDS Ledger

CONSTANTS
    Goals,            \* goal ids of the household
    GoalCurrency,     \* GoalCurrency[g], fixed when the goal is created
    GoalRequests,     \* requests served concurrently by these handlers
    Targets           \* target amounts a goal can be given

ASSUME RowsAreDistinct == Goals \cap Wallets = {}
ASSUME RequestsAreDistinct == GoalRequests \cap LedgerRequests = {}

VARIABLES
    goalStatus,       \* goalStatus[g]: financial_goals.status, "absent" at first
    target,           \* target[g]: financial_goals.target_amount_minor
    reserved,         \* reserved[g][w]: reserves less releases of g from w
    held,             \* held[w]: reserves less releases from w
    task              \* task[r]: what request r does next

goalVars == <<goalStatus, target, reserved, held, task>>
fundsVars == <<ledgerVars, goalVars, locks>>

NoTask == [at |-> "idle"]
TxSteps == {"lockGoal", "lockWallet", "readBalance", "readReserved", "commit"}
TxTasks == [at: TxSteps, op: {"reserve", "release"}, goal: Goals,
            wallet: Wallets, amount: Amounts, balance: Int]
Tasks == {NoTask} \cup TxTasks
    \cup [at: {"updateGoal"}, goal: Goals, target: Targets]
    \cup [at: {"archiveGoal"}, goal: Goals]

GoalTypeOK ==
    /\ goalStatus \in [Goals -> Statuses]
    /\ target \in [Goals -> Targets]
    /\ reserved \in [Goals -> [Wallets -> Int]]
    /\ held \in [Wallets -> Int]
    /\ task \in [GoalRequests -> Tasks]
    /\ locks \in LockTable(Goals \cup Wallets, GoalRequests)

GoalInit ==
    /\ goalStatus = [g \in Goals |-> "absent"]
    /\ target \in [Goals -> Targets]
    /\ reserved = [g \in Goals |-> [w \in Wallets |-> 0]]
    /\ held = [w \in Wallets |-> 0]
    /\ task = [r \in GoalRequests |-> NoTask]
    /\ locks = {}

-----------------------------------------------------------------------------
goalTables == <<goalStatus, target, reserved, held>>

Start(r, t) ==
    /\ task[r] = NoTask
    /\ task' = [task EXCEPT ![r] = t]
    /\ UNCHANGED <<goalTables, locks>>

\* Mutants: a request that ends without ending its transaction, and one that
\* keeps the arguments it came with.
FinishWithoutRollback(r) ==
    /\ task' = [task EXCEPT ![r] = NoTask]
    /\ UNCHANGED locks
FinishKeepsArguments(r) ==
    /\ task' = [task EXCEPT ![r].at = "idle"]
    /\ locks' = ReleasedBy(locks, r)

Finish(r) ==
    /\ task' = [task EXCEPT ![r] = NoTask]
    /\ locks' = ReleasedBy(locks, r)

Rollback(r) == Finish(r) /\ UNCHANGED goalTables

Proceed(r, step) == task' = [task EXCEPT ![r].at = step]

\* POST /goals: one INSERT.  The goal's first target was fixed by Init.
CreateGoal(g) ==
    /\ goalStatus[g] = "absent"
    /\ goalStatus' = [goalStatus EXCEPT ![g] = "active"]
    /\ UNCHANGED <<target, reserved, held, task, locks>>

\* PUT /goals/{id}: the goal is read and an archived one refused; the UPDATE
\* then touches the row only if it is still active and answers 200 either way.
UpdateGoal(r, g, t) ==
    /\ goalStatus[g] = "active"
    /\ Start(r, [at |-> "updateGoal", goal |-> g, target |-> t])

\* Mutant: the UPDATE of goal_service.go:73 without its status = 'active'.
WriteGoalAnyStatus(r) ==
    /\ task[r].at = "updateGoal"
    /\ LET g == task[r].goal IN
       /\ Grantable(locks, g, "NoKeyUpdate", r)
       /\ target' = [target EXCEPT ![g] = task[r].target]
    /\ Finish(r)
    /\ UNCHANGED <<goalStatus, reserved, held>>

WriteGoal(r) ==
    /\ task[r].at = "updateGoal"
    /\ LET g == task[r].goal IN
       /\ Grantable(locks, g, "NoKeyUpdate", r)
       /\ target' = IF goalStatus[g] = "active"
                    THEN [target EXCEPT ![g] = task[r].target] ELSE target
    /\ Finish(r)
    /\ UNCHANGED <<goalStatus, reserved, held>>

\* POST /goals/{id}/archive: its reservations stay as they are.
ArchiveGoal(r, g) ==
    /\ goalStatus[g] = "active"
    /\ Start(r, [at |-> "archiveGoal", goal |-> g])

WriteGoalArchive(r) ==
    /\ task[r].at = "archiveGoal"
    /\ LET g == task[r].goal IN
       /\ Grantable(locks, g, "NoKeyUpdate", r)
       /\ goalStatus' = IF goalStatus[g] = "active"
                        THEN [goalStatus EXCEPT ![g] = "archived"] ELSE goalStatus
    /\ Finish(r)
    /\ UNCHANGED <<target, reserved, held>>

\* POST /goals/{id}/reserve and /release: BEGIN, for a positive amount and
\* rows that exist.
BeginTx(r, op, g, w, a) ==
    /\ goalStatus[g] # "absent" /\ status[w] # "absent"
    /\ Start(r, [at |-> "lockGoal", op |-> op, goal |-> g,
                 wallet |-> w, amount |-> a, balance |-> 0])

\* Mutants: the goal is read without FOR UPDATE, and the event is inserted
\* before the wallet is locked, which shares the wallet's row first.
LockGoalTaking(r, taken) ==
    /\ task[r].at = "lockGoal"
    /\ LET g == task[r].goal IN
       /\ Grantable(locks, g, "Update", r)
       /\ IF task[r].op = "reserve" /\ goalStatus[g] = "archived"
          THEN Rollback(r)
          ELSE /\ locks' = locks \cup taken
               /\ Proceed(r, "lockWallet")
               /\ UNCHANGED goalTables
ReadGoal(r) == LockGoalTaking(r, {})
LockGoalAfterInsert(r) ==
    LockGoalTaking(r, {Lock(task[r].goal, "Update", r),
                       Lock(task[r].wallet, "KeyShare", r)})

\* SELECT ... FROM financial_goals ... FOR UPDATE.
LockGoal(r) ==
    /\ task[r].at = "lockGoal"
    /\ LET g == task[r].goal IN
       /\ Grantable(locks, g, "Update", r)
       /\ IF task[r].op = "reserve" /\ goalStatus[g] = "archived"
          THEN Rollback(r)
          ELSE /\ locks' = locks \cup {Lock(g, "Update", r)}
               /\ Proceed(r, "lockWallet")
               /\ UNCHANGED goalTables

\* Mutant: the wallet is read without FOR UPDATE.
ReadWallet(r) ==
    /\ task[r].at = "lockWallet"
    /\ LET t == task[r]
           refused == \/ t.op = "reserve" /\ status[t.wallet] = "archived"
                      \/ Currency[t.wallet] # GoalCurrency[t.goal]
       IN  IF refused
           THEN Rollback(r)
           ELSE /\ Proceed(r, IF t.op = "reserve" THEN "readBalance" ELSE "readReserved")
                /\ UNCHANGED <<goalTables, locks>>

\* SELECT ... FROM wallets ... FOR UPDATE; a release needs no active wallet.
LockWallet(r) ==
    /\ task[r].at = "lockWallet"
    /\ LET w == task[r].wallet
           g == task[r].goal
           refused == \/ task[r].op = "reserve" /\ status[w] = "archived"
                      \/ Currency[w] # GoalCurrency[g]
       IN  /\ Grantable(locks, w, "Update", r)
           /\ IF refused
              THEN Rollback(r)
              ELSE /\ locks' = locks \cup {Lock(w, "Update", r)}
                   /\ Proceed(r, IF task[r].op = "reserve"
                                 THEN "readBalance" ELSE "readReserved")
                   /\ UNCHANGED goalTables

\* The balance of the wallet, in a snapshot taken once its row is locked.
ReadBalance(r) ==
    /\ task[r].at = "readBalance"
    /\ task' = [task EXCEPT ![r].at = "readReserved",
                            ![r].balance = LedgerBalance(task[r].wallet)]
    /\ UNCHANGED <<goalTables, locks>>

\* Mutants: a reservation is compared with what its own goal holds, and a
\* release with what all the goals of the wallet hold.
ReadReservedSum(r, sum) ==
    /\ task[r].at = "readReserved"
    /\ LET t == task[r]
           enough == IF t.op = "reserve" THEN t.balance - sum >= t.amount
                                         ELSE sum >= t.amount
       IN  IF enough
           THEN Proceed(r, "commit") /\ UNCHANGED <<goalTables, locks>>
           ELSE Rollback(r)
ReadReservedOfGoal(r) == ReadReservedSum(r, reserved[task[r].goal][task[r].wallet])
ReadReservedOfWallet(r) == ReadReservedSum(r, held[task[r].wallet])

\* What the wallet's goals hold (reserve) or what this one holds (release),
\* and the comparison with the amount.
ReadReserved(r) ==
    /\ task[r].at = "readReserved"
    /\ LET t == task[r]
           enough == IF t.op = "reserve"
                     THEN t.balance - held[t.wallet] >= t.amount
                     ELSE reserved[t.goal][t.wallet] >= t.amount
       IN  IF enough
           THEN Proceed(r, "commit") /\ UNCHANGED <<goalTables, locks>>
           ELSE Rollback(r)

\* INSERT INTO goal_reservation_events and COMMIT.
Commit(r) ==
    /\ task[r].at = "commit"
    /\ LET t == task[r]
           d == IF t.op = "reserve" THEN t.amount ELSE -t.amount
       IN  /\ reserved' = [reserved EXCEPT ![t.goal][t.wallet] = @ + d]
           /\ held' = [held EXCEPT ![t.wallet] = @ + d]
    /\ Finish(r)
    /\ UNCHANGED <<goalStatus, target>>

\* The deferred Rollback: the client hangs up or a statement fails.
AbortTask(r) ==
    /\ task[r] # NoTask
    /\ Rollback(r)

TxStep(r) ==
    LockGoal(r) \/ LockWallet(r) \/ ReadBalance(r) \/ ReadReserved(r) \/ Commit(r)

GoalNext ==
    /\ UNCHANGED ledgerVars
    /\ \/ \E g \in Goals : CreateGoal(g)
       \/ \E r \in GoalRequests :
          \/ \E g \in Goals, t \in Targets : UpdateGoal(r, g, t)
          \/ WriteGoal(r)
          \/ \E g \in Goals : ArchiveGoal(r, g)
          \/ WriteGoalArchive(r)
          \/ \E op \in {"reserve", "release"}, g \in Goals, w \in Wallets,
                a \in Amounts : BeginTx(r, op, g, w, a)
          \/ TxStep(r)
          \/ AbortTask(r)

FundsInit == LedgerInit /\ GoalInit

FundsNext == GoalNext \/ (LedgerNext /\ UNCHANGED goalVars)

FundsSpec == FundsInit /\ [][FundsNext]_fundsVars

\* A request that can go on does go on.  Fairness is strong: PostgreSQL queues
\* those who wait for a row and wakes them in turn, so a row that is free again
\* and again is in the end theirs.  Nothing makes a client start a request.
GoOn(r) == /\ UNCHANGED ledgerVars
           /\ TxStep(r) \/ WriteGoal(r) \/ WriteGoalArchive(r)

FairFundsSpec == FundsSpec /\ \A r \in GoalRequests : SF_fundsVars(GoOn(r))
-----------------------------------------------------------------------------
\* Releases never take out of a goal more than it holds in the wallet they
\* name, although the sum is read two statements before the event is written
\* (goal_service.go:165-171).
NoOverRelease == \A g \in Goals, w \in Wallets : reserved[g][w] >= 0

\* At the instant a reservation becomes visible the wallet's ledger covers all
\* that its goals hold, this reservation included: of two goals that want the
\* same money only one gets it, and an expense cannot slip in between the
\* balance that was read and the event (goal_service.go:115-138).
ReservationsAreCovered ==
    [][\A w \in Wallets : held'[w] > held[w] => held'[w] <= LedgerBalance(w)']_held

\* No reservation lands on a goal or in a wallet that is archived by then,
\* although both are checked statements earlier: the row locks make the
\* archive wait (goal_service.go:107-120).
ArchivedGoalsOnlyShrink ==
    [][\A g \in Goals, w \in Wallets :
          goalStatus[g] = "archived" \/ status[w] = "archived"
             => reserved'[g][w] <= reserved[g][w]]_reserved

\* An archived goal keeps its status and its target, whatever updates were on
\* their way to it (the status = 'active' of goal_service.go:73).
ArchivedGoalIsFrozen ==
    [][\A g \in Goals : goalStatus[g] = "archived"
          => goalStatus'[g] = "archived" /\ target'[g] = target[g]]_<<goalStatus, target>>

\* The handlers, with their statements and locks, do what FundsContract says:
\* every reservation and every release takes effect at one instant at which all
\* its conditions hold (goal_service.go:96-179 against service.go:128-209).
Contract == INSTANCE FundsContract
              WITH balance <- [w \in Wallets |-> LedgerBalance(w)]
ImplementsContract == Contract!Spec

\* Those request r waits for: the holders of the row its next statement locks.
WaitsFor(r) ==
    CASE task[r].at = "lockGoal" -> Blockers(locks, task[r].goal, "Update", r)
      [] task[r].at = "lockWallet" -> Blockers(locks, task[r].wallet, "Update", r)
      [] task[r].at \in {"updateGoal", "archiveGoal"}
           -> Blockers(locks, task[r].goal, "NoKeyUpdate", r)
      [] OTHER -> {}

\* No requests wait for one another in a circle: both transactions lock the
\* goal before the wallet (goal_service.go:107 and 115, 154 and 158).
NoDeadlock ==
    \A S \in (SUBSET GoalRequests) \ {{}} : \E r \in S : WaitsFor(r) \cap S = {}

\* Every reservation, release, update and archive is answered, whoever else
\* wants the same goal and the same wallet (goal_service.go:96-179).
EveryTaskEnds ==
    \A r \in GoalRequests : task[r] # NoTask ~> task[r] = NoTask

-----------------------------------------------------------------------------
(***************************************************************************)
(* The inductive invariant behind the theorems of GoalFundsProofs.         *)
(***************************************************************************)
HasGoal(r) == task[r].at \in {"lockWallet", "readBalance", "readReserved", "commit"}
HasWallet(r) == task[r].at \in {"readBalance", "readReserved", "commit"}

\* The lock table holds exactly what the open transactions have locked, and no
\* row twice.
LocksMatchTasks ==
    /\ \A r \in GoalRequests :
         /\ HasGoal(r) => Lock(task[r].goal, "Update", r) \in locks
         /\ HasWallet(r) => Lock(task[r].wallet, "Update", r) \in locks
    /\ \A l \in locks :
         /\ l.mode = "Update"
         /\ \/ HasGoal(l.by) /\ l.row = task[l.by].goal
            \/ HasWallet(l.by) /\ l.row = task[l.by].wallet
    /\ \A k, l \in locks : k.row = l.row => k.by = l.by

\* What a transaction has read is still so: the statuses, the currencies, the
\* balance and the sum it compared with the amount.
Stands(r) ==
    LET t == task[r] IN
    /\ t.at \in TxSteps => goalStatus[t.goal] # "absent" /\ status[t.wallet] # "absent"
    /\ HasGoal(r) /\ t.op = "reserve" => goalStatus[t.goal] = "active"
    /\ HasWallet(r) => /\ Currency[t.wallet] = GoalCurrency[t.goal]
                       /\ t.op = "reserve" => status[t.wallet] = "active"
    /\ t.at \in {"readReserved", "commit"} /\ t.op = "reserve"
          => t.balance = LedgerBalance(t.wallet)
    /\ t.at = "commit" =>
          IF t.op = "reserve"
          THEN LedgerBalance(t.wallet) - held[t.wallet] >= t.amount
          ELSE reserved[t.goal][t.wallet] >= t.amount

ReadsStand == \A r \in GoalRequests : Stands(r)

FundsInv == LocksMatchTasks /\ ReadsStand /\ NoOverRelease
=============================================================================
