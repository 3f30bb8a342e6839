-------------------------- MODULE GoalFundsProofs ---------------------------
(***************************************************************************)
(* Theorems about GoalFunds, for any number of goals, wallets, requests    *)
(* and any amounts.                                                        *)
(***************************************************************************)
EXTENDS GoalFunds, LedgerProofs

\* What a transaction carries with it.
LEMMA TxTaskFields ==
  ASSUME GoalTypeOK, NEW r \in GoalRequests, task[r].at \in TxSteps
  PROVE  /\ task[r] \in TxTasks
         /\ task[r].goal \in Goals /\ task[r].wallet \in Wallets
         /\ task[r].amount \in Amounts /\ task[r].balance \in Int
         /\ task[r].op \in {"reserve", "release"}
<1>1. task[r] \in Tasks
  BY DEF GoalTypeOK
<1>2. task[r] \in TxTasks
  BY <1>1 DEF Tasks, NoTask, TxSteps
<1>3. QED
  BY <1>2 DEF TxTasks

\* Locking a row, and letting go of rows, leave a lock table.
LEMMA LockTypes ==
  ASSUME GoalTypeOK, NEW r \in GoalRequests
  PROVE  /\ ReleasedBy(locks, r) \in LockTable(Goals \cup Wallets, GoalRequests)
         /\ \A row \in Goals \cup Wallets :
               locks \cup {Lock(row, "Update", r)}
                  \in LockTable(Goals \cup Wallets, GoalRequests)
  BY DEF GoalTypeOK, LockTable, ReleasedBy, Lock, LockModes

LEMMA RollbackTypes ==
  ASSUME GoalTypeOK, NEW r \in GoalRequests, Rollback(r)
  PROVE  GoalTypeOK'
  BY LockTypes DEF Rollback, Finish, goalTables, GoalTypeOK, Tasks

LEMMA ProceedTypes ==
  ASSUME GoalTypeOK, NEW r \in GoalRequests, task[r].at \in TxSteps, NEW s \in TxSteps
  PROVE  [task EXCEPT ![r].at = s] \in [GoalRequests -> Tasks]
<1>1. task[r] \in TxTasks
  BY TxTaskFields
<1>2. [task[r] EXCEPT !.at = s] \in TxTasks
  BY <1>1 DEF TxTasks
<1>3. QED
  BY <1>2 DEF GoalTypeOK, Tasks

LEMMA StartTypes ==
  ASSUME GoalTypeOK, NEW r \in GoalRequests, NEW t \in Tasks, Start(r, t)
  PROVE  GoalTypeOK'
  BY DEF Start, goalTables, GoalTypeOK

\* One step of a goal handler keeps every variable in its type.
LEMMA GoalTypeStep ==
  LedgerTypeOK /\ GoalTypeOK /\ GoalNext => GoalTypeOK'
<1> SUFFICES ASSUME LedgerTypeOK, GoalTypeOK, GoalNext PROVE GoalTypeOK'
  OBVIOUS
<1>1. ASSUME NEW g \in Goals, CreateGoal(g) PROVE GoalTypeOK'
  BY <1>1 DEF CreateGoal, GoalTypeOK, Statuses
<1>2. ASSUME NEW r \in GoalRequests, NEW g \in Goals, NEW t \in Targets,
             UpdateGoal(r, g, t)
      PROVE  GoalTypeOK'
  <2>1. [at |-> "updateGoal", goal |-> g, target |-> t] \in Tasks
    BY DEF Tasks
  <2>2. QED BY <1>2, <2>1, StartTypes DEF UpdateGoal
<1>3. ASSUME NEW r \in GoalRequests, WriteGoal(r) PROVE GoalTypeOK'
  <2>1. task[r] \in Tasks /\ task[r].at = "updateGoal"
    BY <1>3 DEF WriteGoal, GoalTypeOK
  <2>2. task[r].goal \in Goals /\ task[r].target \in Targets
    BY <2>1 DEF Tasks, NoTask, TxTasks, TxSteps
  <2>3. QED
    BY <1>3, <2>2, LockTypes DEF WriteGoal, Finish, GoalTypeOK, Tasks
<1>4. ASSUME NEW r \in GoalRequests, NEW g \in Goals, ArchiveGoal(r, g)
      PROVE  GoalTypeOK'
  <2>1. [at |-> "archiveGoal", goal |-> g] \in Tasks
    BY DEF Tasks
  <2>2. QED BY <1>4, <2>1, StartTypes DEF ArchiveGoal
<1>5. ASSUME NEW r \in GoalRequests, WriteGoalArchive(r) PROVE GoalTypeOK'
  BY <1>5, LockTypes DEF WriteGoalArchive, Finish, GoalTypeOK, Tasks, Statuses
<1>6. ASSUME NEW r \in GoalRequests, NEW op \in {"reserve", "release"},
             NEW g \in Goals, NEW w \in Wallets, NEW a \in Amounts,
             BeginTx(r, op, g, w, a)
      PROVE  GoalTypeOK'
  <2>1. [at |-> "lockGoal", op |-> op, goal |-> g, wallet |-> w,
         amount |-> a, balance |-> 0] \in Tasks
    BY DEF Tasks, TxTasks, TxSteps
  <2>2. QED BY <1>6, <2>1, StartTypes DEF BeginTx
<1>7. ASSUME NEW r \in GoalRequests, LockGoal(r) PROVE GoalTypeOK'
  <2>1. task[r].at \in TxSteps /\ task[r].goal \in Goals /\ "lockWallet" \in TxSteps
    BY <1>7, TxTaskFields DEF LockGoal, TxSteps
  <2>2. CASE Rollback(r)
    BY <2>2, RollbackTypes
  <2>3. CASE ~Rollback(r)
    <3>1. /\ locks' = locks \cup {Lock(task[r].goal, "Update", r)}
          /\ task' = [task EXCEPT ![r].at = "lockWallet"]
          /\ UNCHANGED goalTables
      BY <1>7, <2>3 DEF LockGoal, Proceed
    <3>2. locks' \in LockTable(Goals \cup Wallets, GoalRequests)
      BY <2>1, <3>1, LockTypes
    <3>3. task' \in [GoalRequests -> Tasks]
      BY <2>1, <3>1, ProceedTypes
    <3>4. QED BY <3>1, <3>2, <3>3 DEF goalTables, GoalTypeOK
  <2>4. QED BY <2>2, <2>3
<1>8. ASSUME NEW r \in GoalRequests, LockWallet(r) PROVE GoalTypeOK'
  <2>1. /\ task[r].at \in TxSteps /\ task[r].wallet \in Wallets
        /\ "readBalance" \in TxSteps /\ "readReserved" \in TxSteps
    BY <1>8, TxTaskFields DEF LockWallet, TxSteps
  <2>2. CASE Rollback(r)
    BY <2>2, RollbackTypes
  <2>3. CASE ~Rollback(r)
    <3>1. /\ locks' = locks \cup {Lock(task[r].wallet, "Update", r)}
          /\ \E s \in {"readBalance", "readReserved"} :
                task' = [task EXCEPT ![r].at = s]
          /\ UNCHANGED goalTables
      BY <1>8, <2>3 DEF LockWallet, Proceed
    <3>2. locks' \in LockTable(Goals \cup Wallets, GoalRequests)
      BY <2>1, <3>1, LockTypes
    <3>3. task' \in [GoalRequests -> Tasks]
      BY <2>1, <3>1, ProceedTypes
    <3>4. QED BY <3>1, <3>2, <3>3 DEF goalTables, GoalTypeOK
  <2>4. QED BY <2>2, <2>3
<1>9. ASSUME NEW r \in GoalRequests, ReadBalance(r) PROVE GoalTypeOK'
  <2>1. task[r] \in TxTasks /\ task[r].wallet \in Wallets
    BY <1>9, TxTaskFields DEF ReadBalance, TxSteps
  <2>2. LedgerBalance(task[r].wallet) \in Int
    BY <2>1 DEF LedgerBalance, LedgerTypeOK
  <2>3. [task[r] EXCEPT !.at = "readReserved",
                        !.balance = LedgerBalance(task[r].wallet)] \in TxTasks
    BY <2>1, <2>2 DEF TxTasks, TxSteps
  <2>4. task' \in [GoalRequests -> Tasks]
    BY <1>9, <2>3 DEF ReadBalance, GoalTypeOK, Tasks
  <2>5. QED BY <1>9, <2>4 DEF ReadBalance, goalTables, GoalTypeOK
<1>10. ASSUME NEW r \in GoalRequests, ReadReserved(r) PROVE GoalTypeOK'
  <2>1. task[r].at \in TxSteps /\ "commit" \in TxSteps
    BY <1>10 DEF ReadReserved, TxSteps
  <2>2. CASE Rollback(r)
    BY <2>2, RollbackTypes
  <2>3. CASE ~Rollback(r)
    BY <1>10, <2>1, <2>3, ProceedTypes DEF ReadReserved, Proceed, goalTables, GoalTypeOK
  <2>4. QED BY <2>2, <2>3
<1>11. ASSUME NEW r \in GoalRequests, Commit(r) PROVE GoalTypeOK'
  <2>1. /\ task[r].goal \in Goals /\ task[r].wallet \in Wallets
        /\ task[r].amount \in Int
    BY <1>11, TxTaskFields, DeltasAreInt DEF Commit, TxSteps
  <2> DEFINE d == IF task[r].op = "reserve" THEN task[r].amount ELSE -task[r].amount
  <2>2. d \in Int
    BY <2>1
  <2>a. /\ reserved' = [reserved EXCEPT ![task[r].goal][task[r].wallet] = @ + d]
        /\ held' = [held EXCEPT ![task[r].wallet] = @ + d]
    BY <1>11 DEF Commit
  <2> HIDE DEF d
  <2>3. /\ reserved' \in [Goals -> [Wallets -> Int]]
        /\ held' \in [Wallets -> Int]
    BY <2>1, <2>2, <2>a DEF GoalTypeOK
  <2>4. QED
    BY <1>11, <2>3, LockTypes DEF Commit, Finish, GoalTypeOK, Tasks
<1>12. ASSUME NEW r \in GoalRequests, AbortTask(r) PROVE GoalTypeOK'
  BY <1>12, RollbackTypes DEF AbortTask
<1>13. QED
  BY <1>1, <1>2, <1>3, <1>4, <1>5, <1>6, <1>7, <1>8, <1>9, <1>10, <1>11, <1>12
     DEF GoalNext, TxStep

Types == LedgerTypeOK /\ GoalTypeOK

\* The types hold in every state of the composed system.
LEMMA TypesInit == FundsInit => Types
  BY LedgerTypeInit DEF FundsInit, GoalInit, Types, GoalTypeOK, Statuses, Tasks,
     LockTable

LEMMA TypesStep == Types /\ [FundsNext]_fundsVars => Types'
<1>1. Types /\ UNCHANGED fundsVars => Types'
  BY LedgerTypeStutter DEF Types, fundsVars, goalVars, GoalTypeOK
<1>2. Types /\ GoalNext => Types'
  BY GoalTypeStep, LedgerTypeStutter DEF Types, GoalNext
<1>3. Types /\ LedgerNext /\ UNCHANGED goalVars => Types'
  BY LedgerTypeStep DEF Types, LedgerNext, goalVars, GoalTypeOK
<1>4. QED
  BY <1>1, <1>2, <1>3 DEF FundsNext

\* Every variable of the goal handlers and of the ledger keeps its type.
THEOREM FundsTypes == FundsSpec => [](LedgerTypeOK /\ GoalTypeOK)
  BY TypesInit, TypesStep, PTL DEF FundsSpec, Types

-----------------------------------------------------------------------------
(***************************************************************************)
(* The lock table.                                                         *)
(***************************************************************************)
LEMMA HeldByRequests ==
  ASSUME GoalTypeOK, NEW l \in locks
  PROVE  l.by \in GoalRequests /\ l.row \in Goals \cup Wallets
  BY DEF GoalTypeOK, LockTable

\* A request that is answered takes its locks with it.
LEMMA FinishKeepsLocks ==
  ASSUME GoalTypeOK, LocksMatchTasks, NEW r \in GoalRequests, Finish(r)
  PROVE  LocksMatchTasks'
<1>1. /\ task' = [task EXCEPT ![r] = NoTask]
      /\ locks' = {l \in locks : l.by # r}
  BY DEF Finish, ReleasedBy
<1>2. \A s \in GoalRequests :
         /\ s = r => ~HasGoal(s)' /\ ~HasWallet(s)'
         /\ s # r => task'[s] = task[s]
  BY <1>1 DEF HasGoal, HasWallet, NoTask, GoalTypeOK
<1>3. QED
  BY <1>1, <1>2, HeldByRequests DEF LocksMatchTasks, HasGoal, HasWallet, Lock

\* A request that starts holds nothing yet.
LEMMA StartKeepsLocks ==
  ASSUME GoalTypeOK, LocksMatchTasks, NEW r \in GoalRequests, NEW t,
         t.at \notin {"lockWallet", "readBalance", "readReserved", "commit"},
         Start(r, t)
  PROVE  LocksMatchTasks'
<1>1. /\ task' = [task EXCEPT ![r] = t] /\ locks' = locks /\ task[r] = NoTask
  BY DEF Start
<1>2. ~HasGoal(r) /\ ~HasWallet(r) /\ ~HasGoal(r)' /\ ~HasWallet(r)'
  BY <1>1 DEF HasGoal, HasWallet, NoTask, GoalTypeOK
<1>3. \A s \in GoalRequests : s # r => task'[s] = task[s]
  BY <1>1 DEF GoalTypeOK
<1>4. QED
  BY <1>1, <1>2, <1>3, HeldByRequests DEF LocksMatchTasks, HasGoal, HasWallet

\* A row that can be locked FOR UPDATE is locked by nobody else.
LEMMA GrantableIsFree ==
  ASSUME LocksMatchTasks, NEW row, NEW r, NEW m \in LockModes, Grantable(locks, row, m, r),
         NEW l \in locks, l.row = row
  PROVE  l.by = r
  BY DEF LocksMatchTasks, Grantable, Conflicts

\* The row just locked is the next the request should hold, and its alone.
LEMMA LockKeepsLocks ==
  ASSUME GoalTypeOK, LocksMatchTasks, NEW r \in GoalRequests, NEW row,
         Grantable(locks, row, "Update", r),
         locks' = locks \cup {Lock(row, "Update", r)},
         task'[r].goal = task[r].goal, task'[r].wallet = task[r].wallet,
         HasGoal(r)', HasGoal(r) \/ row = task[r].goal,
         ~HasWallet(r), HasWallet(r)' => row = task[r].wallet,
         row = task[r].goal \/ HasWallet(r)',
         \A s \in GoalRequests : s # r => task'[s] = task[s]
  PROVE  LocksMatchTasks'
<1>1. ASSUME NEW s \in GoalRequests
      PROVE  /\ HasGoal(s)' => Lock(task'[s].goal, "Update", s) \in locks'
             /\ HasWallet(s)' => Lock(task'[s].wallet, "Update", s) \in locks'
  BY <1>1 DEF LocksMatchTasks, HasGoal, HasWallet
<1>2. ASSUME NEW l \in locks'
      PROVE  /\ l.mode = "Update"
             /\ \/ HasGoal(l.by)' /\ l.row = task'[l.by].goal
                \/ HasWallet(l.by)' /\ l.row = task'[l.by].wallet
  <2>1. CASE l = Lock(row, "Update", r)
    BY <2>1 DEF Lock
  <2>2. CASE l \in locks
    <3>1. l.by \in GoalRequests
      BY <2>2, HeldByRequests
    <3>2. CASE l.by = r
      BY <2>2, <3>2 DEF LocksMatchTasks
    <3>3. CASE l.by # r
      BY <2>2, <3>1, <3>3 DEF LocksMatchTasks, HasGoal, HasWallet
    <3>4. QED BY <3>2, <3>3
  <2>3. QED BY <1>2, <2>1, <2>2
<1>3. ASSUME NEW k \in locks', NEW l \in locks', k.row = l.row
      PROVE  k.by = l.by
  <2>1. \A x \in locks : x.row = row => x.by = r
    BY GrantableIsFree DEF LockModes
  <2>2. QED BY <1>3, <2>1 DEF LocksMatchTasks, Lock
<1>4. QED
  BY <1>1, <1>2, <1>3 DEF LocksMatchTasks

\* Moving on to the next read takes no lock.
LEMMA ReadKeepsLocks ==
  ASSUME GoalTypeOK, LocksMatchTasks, NEW r \in GoalRequests, UNCHANGED locks,
         HasWallet(r), HasWallet(r)',
         task'[r].goal = task[r].goal, task'[r].wallet = task[r].wallet,
         \A s \in GoalRequests : s # r => task'[s] = task[s]
  PROVE  LocksMatchTasks'
<1>1. HasGoal(r) /\ HasGoal(r)'
  BY DEF HasGoal, HasWallet
<1>2. QED
  BY <1>1, HeldByRequests DEF LocksMatchTasks, HasGoal, HasWallet

LEMMA LocksStep ==
  Types /\ LocksMatchTasks /\ [FundsNext]_fundsVars => LocksMatchTasks'
<1> SUFFICES ASSUME Types, LocksMatchTasks, [FundsNext]_fundsVars
             PROVE  LocksMatchTasks'
  OBVIOUS
<1> USE DEF Types
<1>1. ASSUME UNCHANGED <<task, locks>> PROVE LocksMatchTasks'
  BY <1>1 DEF LocksMatchTasks, HasGoal, HasWallet
<1>2. ASSUME NEW r \in GoalRequests, Finish(r) PROVE LocksMatchTasks'
  BY <1>2, FinishKeepsLocks
<1>3. ASSUME NEW r \in GoalRequests, NEW t,
             t.at \in {"updateGoal", "archiveGoal", "lockGoal"}, Start(r, t)
      PROVE  LocksMatchTasks'
  BY <1>3, StartKeepsLocks
<1>4. ASSUME NEW r \in GoalRequests, LockGoal(r) PROVE LocksMatchTasks'
  <2>1. CASE Rollback(r)
    BY <1>2, <2>1 DEF Rollback
  <2>2. CASE ~Rollback(r)
    <3> DEFINE g == task[r].goal
    <3>1. /\ Grantable(locks, g, "Update", r)
          /\ locks' = locks \cup {Lock(g, "Update", r)}
          /\ task' = [task EXCEPT ![r].at = "lockWallet"]
      BY <1>4, <2>2 DEF LockGoal, Proceed
    <3>2. /\ task'[r] = [task[r] EXCEPT !.at = "lockWallet"]
          /\ \A s \in GoalRequests : s # r => task'[s] = task[s]
      BY <3>1 DEF GoalTypeOK
    <3>3. task[r] \in TxTasks /\ task[r].at = "lockGoal"
      BY <1>4, TxTaskFields DEF LockGoal, TxSteps
    <3>4. /\ task'[r].goal = g /\ task'[r].wallet = task[r].wallet
          /\ HasGoal(r)' /\ ~HasWallet(r) /\ ~HasWallet(r)'
      BY <3>2, <3>3 DEF TxTasks, HasGoal, HasWallet
    <3>5. QED BY <3>1, <3>2, <3>4, LockKeepsLocks
  <2>3. QED BY <2>1, <2>2
<1>5. ASSUME NEW r \in GoalRequests, LockWallet(r) PROVE LocksMatchTasks'
  <2>1. CASE Rollback(r)
    BY <1>2, <2>1 DEF Rollback
  <2>2. CASE ~Rollback(r)
    <3> DEFINE w == task[r].wallet
    <3>1. PICK next \in {"readBalance", "readReserved"} :
            /\ Grantable(locks, w, "Update", r)
            /\ locks' = locks \cup {Lock(w, "Update", r)}
            /\ task' = [task EXCEPT ![r].at = next]
      BY <1>5, <2>2 DEF LockWallet, Proceed
    <3>2. /\ task'[r] = [task[r] EXCEPT !.at = next]
          /\ \A s \in GoalRequests : s # r => task'[s] = task[s]
      BY <3>1 DEF GoalTypeOK
    <3>3. task[r] \in TxTasks /\ task[r].at = "lockWallet"
      BY <1>5, TxTaskFields DEF LockWallet, TxSteps
    <3>4. /\ task'[r].goal = task[r].goal /\ task'[r].wallet = w
          /\ HasGoal(r) /\ HasGoal(r)' /\ ~HasWallet(r) /\ HasWallet(r)'
      BY <3>2, <3>3 DEF TxTasks, HasGoal, HasWallet
    <3>5. QED BY <3>1, <3>2, <3>4, LockKeepsLocks
  <2>3. QED BY <2>1, <2>2
<1>6. ASSUME NEW r \in GoalRequests, ReadBalance(r) PROVE LocksMatchTasks'
  <2>1. task[r] \in TxTasks /\ task[r].at = "readBalance"
    BY <1>6, TxTaskFields DEF ReadBalance, TxSteps
  <2>2. /\ task'[r] = [task[r] EXCEPT !.at = "readReserved",
                          !.balance = LedgerBalance(task[r].wallet)]
        /\ \A s \in GoalRequests : s # r => task'[s] = task[s]
        /\ UNCHANGED locks
    BY <1>6 DEF ReadBalance, GoalTypeOK
  <2>3. /\ HasWallet(r) /\ HasWallet(r)'
        /\ task'[r].goal = task[r].goal /\ task'[r].wallet = task[r].wallet
    BY <2>1, <2>2 DEF TxTasks, HasWallet
  <2>4. QED BY <2>2, <2>3, ReadKeepsLocks
<1>7. ASSUME NEW r \in GoalRequests, ReadReserved(r) PROVE LocksMatchTasks'
  <2>1. CASE Rollback(r)
    BY <1>2, <2>1 DEF Rollback
  <2>2. CASE ~Rollback(r)
    <3>1. task[r] \in TxTasks /\ task[r].at = "readReserved"
      BY <1>7, TxTaskFields DEF ReadReserved, TxSteps
    <3>2. /\ task' = [task EXCEPT ![r].at = "commit"]
          /\ UNCHANGED locks
      BY <1>7, <2>2 DEF ReadReserved, Proceed
    <3>3. /\ task'[r] = [task[r] EXCEPT !.at = "commit"]
          /\ \A s \in GoalRequests : s # r => task'[s] = task[s]
      BY <3>2 DEF GoalTypeOK
    <3>4. /\ HasWallet(r) /\ HasWallet(r)'
          /\ task'[r].goal = task[r].goal /\ task'[r].wallet = task[r].wallet
      BY <3>1, <3>3 DEF TxTasks, HasWallet
    <3>5. QED BY <3>2, <3>3, <3>4, ReadKeepsLocks
  <2>3. QED BY <2>1, <2>2
<1>8. CASE UNCHANGED fundsVars
  BY <1>1, <1>8 DEF fundsVars, goalVars
<1>9. CASE LedgerNext /\ UNCHANGED goalVars
  BY <1>1, <1>9 DEF LedgerNext, goalVars
<1>10. CASE GoalNext
  <2>1. ASSUME NEW g \in Goals, CreateGoal(g) PROVE LocksMatchTasks'
    BY <1>1, <2>1 DEF CreateGoal
  <2>2. ASSUME NEW r \in GoalRequests, NEW g \in Goals, NEW t \in Targets,
               UpdateGoal(r, g, t)
        PROVE  LocksMatchTasks'
    BY <1>3, <2>2 DEF UpdateGoal
  <2>3. ASSUME NEW r \in GoalRequests, NEW g \in Goals, ArchiveGoal(r, g)
        PROVE  LocksMatchTasks'
    BY <1>3, <2>3 DEF ArchiveGoal
  <2>4. ASSUME NEW r \in GoalRequests, NEW op \in {"reserve", "release"},
               NEW g \in Goals, NEW w \in Wallets, NEW a \in Amounts,
               BeginTx(r, op, g, w, a)
        PROVE  LocksMatchTasks'
    BY <1>3, <2>4 DEF BeginTx
  <2>5. ASSUME NEW r \in GoalRequests,
               WriteGoal(r) \/ WriteGoalArchive(r) \/ Commit(r) \/ AbortTask(r)
        PROVE  LocksMatchTasks'
    BY <1>2, <2>5 DEF WriteGoal, WriteGoalArchive, Commit, AbortTask, Rollback
  <2>6. QED
    BY <1>4, <1>5, <1>6, <1>7, <1>10, <2>1, <2>2, <2>3, <2>4, <2>5
       DEF GoalNext, TxStep
<1>11. QED
  BY <1>8, <1>9, <1>10 DEF FundsNext

-----------------------------------------------------------------------------
(***************************************************************************)
(* What was read under the locks stands until the commit.                  *)
(***************************************************************************)
\* The ledger leaves a wallet alone while a transaction has its row.
LEMMA LedgerWaits ==
  ASSUME Types, LocksMatchTasks, LedgerNext, NEW s \in GoalRequests, HasWallet(s)
  PROVE  LET w == task[s].wallet IN
         /\ status[w] # "absent" => status'[w] = status[w]
         /\ posted'[w] = posted[w] /\ moved'[w] = moved[w]
<1> DEFINE w == task[s].wallet
           Same == /\ status[w] # "absent" => status'[w] = status[w]
                   /\ posted'[w] = posted[w] /\ moved'[w] = moved[w]
<1>1. Lock(w, "Update", s) \in locks /\ w \in Wallets
  BY TxTaskFields DEF LocksMatchTasks, HasWallet, TxSteps, Types
<1>2. ASSUME NEW r \in LedgerRequests, NEW m \in LockModes, NEW v, v = w
      PROVE  ~Grantable(locks, v, m, r)
  BY <1>1, <1>2, RequestsAreDistinct DEF Grantable, Conflicts, Lock
<1> USE DEF Types, LedgerTypeOK
<1>3. ASSUME NEW v \in Wallets, CreateWallet(v) PROVE Same
  BY <1>1, <1>3 DEF CreateWallet
<1>4. ASSUME NEW r \in LedgerRequests, WriteArchive(r) PROVE Same
  BY <1>1, <1>2, <1>4 DEF WriteArchive, LockModes
<1>5. ASSUME NEW r \in LedgerRequests, InsertTransaction(r) PROVE Same
  BY <1>1, <1>2, <1>5 DEF InsertTransaction, LockModes, walletVars
<1>6. ASSUME NEW r \in LedgerRequests, InsertTransfer(r) PROVE Same
  BY <1>1, <1>2, <1>6 DEF InsertTransfer, LockModes, walletVars
<1>7. ASSUME UNCHANGED <<status, posted, moved>> PROVE Same
  BY <1>7
<1>8. QED
  BY <1>3, <1>4, <1>5, <1>6, <1>7 DEF LedgerNext, UpdateWallet, WriteWallet,
     ArchiveWallet, CreateTransaction, CreateTransfer, ReadDestination, Abandon,
     walletVars

\* So do the other goal requests, with the goal as with what the wallet holds.
LEMMA GoalsWait ==
  ASSUME Types, LocksMatchTasks, GoalNext, NEW s \in GoalRequests, HasGoal(s),
         task'[s] = task[s]
  PROVE  LET g == task[s].goal
             w == task[s].wallet
         IN  /\ goalStatus[g] # "absent" => goalStatus'[g] = goalStatus[g]
             /\ HasWallet(s) => held'[w] = held[w] /\ reserved'[g][w] = reserved[g][w]
<1> DEFINE g == task[s].goal
           w == task[s].wallet
           Same == /\ goalStatus[g] # "absent" => goalStatus'[g] = goalStatus[g]
                   /\ HasWallet(s) => held'[w] = held[w]
                                       /\ reserved'[g][w] = reserved[g][w]
<1> USE DEF Types
<1>1. g \in Goals /\ w \in Wallets /\ Lock(g, "Update", s) \in locks
  BY TxTaskFields DEF LocksMatchTasks, HasGoal, TxSteps
<1>2. HasWallet(s) => Lock(w, "Update", s) \in locks
  BY DEF LocksMatchTasks
<1>3. ASSUME NEW v \in Goals, CreateGoal(v) PROVE Same
  BY <1>1, <1>3 DEF CreateGoal, GoalTypeOK
<1>4. ASSUME NEW r \in GoalRequests, WriteGoalArchive(r) PROVE Same
  <2>1. r # s
    BY <1>4 DEF WriteGoalArchive, HasGoal
  <2>2. task[r].goal # g
    BY <1>1, <1>4, <2>1 DEF WriteGoalArchive, Grantable, Conflicts, Lock
  <2>3. QED
    BY <1>1, <1>4, <2>2 DEF WriteGoalArchive, GoalTypeOK
<1>5. ASSUME NEW r \in GoalRequests, Commit(r) PROVE Same
  <2>1. r # s
    BY <1>5 DEF Commit, Finish, GoalTypeOK, HasGoal, NoTask
  <2>2. Lock(task[r].wallet, "Update", r) \in locks
    BY <1>5 DEF LocksMatchTasks, HasWallet, Commit
  <2>3. HasWallet(s) => task[r].wallet # w
    BY <1>2, <2>1, <2>2 DEF LocksMatchTasks, Lock
  <2>4. task[r].goal \in Goals /\ task[r].wallet \in Wallets
    BY <1>5, TxTaskFields DEF Commit, TxSteps
  <2>5. QED
    BY <1>1, <1>5, <2>3, <2>4 DEF Commit, GoalTypeOK
<1>6. ASSUME UNCHANGED <<goalStatus, held, reserved>> PROVE Same
  BY <1>6
<1>7. ASSUME NEW r \in GoalRequests, TxStep(r), ~Commit(r)
      PROVE  UNCHANGED <<goalStatus, held, reserved>>
  BY <1>7 DEF TxStep, LockGoal, LockWallet, ReadBalance, ReadReserved, Rollback, goalTables
<1>8. QED
  BY <1>3, <1>4, <1>5, <1>6, <1>7 DEF GoalNext, UpdateGoal, WriteGoal, ArchiveGoal,
     BeginTx, AbortTask, Start, Rollback, goalTables

\* No row goes away.
LEMMA RowsStay ==
  ASSUME Types, [FundsNext]_fundsVars
  PROVE  /\ \A g \in Goals : goalStatus[g] # "absent" => goalStatus'[g] # "absent"
         /\ \A w \in Wallets : status[w] # "absent" => status'[w] # "absent"
<1> USE DEF Types, GoalTypeOK, LedgerTypeOK
<1>1. CASE LedgerNext /\ UNCHANGED goalVars
  BY <1>1 DEF LedgerNext, goalVars, CreateWallet, UpdateWallet, WriteWallet,
     ArchiveWallet, WriteArchive, CreateTransaction, InsertTransaction,
     CreateTransfer, ReadDestination, InsertTransfer, Abandon, walletVars
<1>2. CASE GoalNext
  BY <1>2 DEF GoalNext, CreateGoal, UpdateGoal, WriteGoal, ArchiveGoal,
     WriteGoalArchive, BeginTx, AbortTask, Start, Rollback, goalTables,
     TxStep, LockGoal, LockWallet, ReadBalance, ReadReserved, Commit,
     ledgerVars, walletVars
<1>3. CASE UNCHANGED fundsVars
  BY <1>3 DEF fundsVars, ledgerVars, walletVars, goalVars
<1>4. QED BY <1>1, <1>2, <1>3 DEF FundsNext

\* A transaction that does not move keeps what it has read.
LEMMA OthersStand ==
  ASSUME Types, LocksMatchTasks, [FundsNext]_fundsVars,
         NEW s \in GoalRequests, task'[s] = task[s], Stands(s)
  PROVE  Stands(s)'
<1> DEFINE g == task[s].goal
           w == task[s].wallet
<1>a. task[s].at \in TxSteps => g \in Goals /\ w \in Wallets
  BY TxTaskFields DEF Types
<1>b. task[s].at \in TxSteps => goalStatus'[g] # "absent" /\ status'[w] # "absent"
  BY <1>a, RowsStay DEF Stands
<1>1. CASE ~HasGoal(s)
  BY <1>b, <1>1 DEF Stands, HasGoal, HasWallet
<1>2. CASE HasGoal(s)
  <2>1. CASE LedgerNext /\ UNCHANGED goalVars
    <3>1. HasWallet(s) => /\ status[w] # "absent" => status'[w] = status[w]
                          /\ posted'[w] = posted[w] /\ moved'[w] = moved[w]
      BY <2>1, LedgerWaits
    <3>2. QED
      BY <1>b, <2>1, <3>1 DEF Stands, HasGoal, HasWallet, goalVars, LedgerBalance
  <2>2. CASE GoalNext
    <3>1. /\ goalStatus[g] # "absent" => goalStatus'[g] = goalStatus[g]
          /\ HasWallet(s) => held'[w] = held[w] /\ reserved'[g][w] = reserved[g][w]
      BY <1>2, <2>2, GoalsWait
    <3>2. UNCHANGED <<status, posted, moved>>
      BY <2>2 DEF GoalNext, ledgerVars, walletVars
    <3>3. QED
      BY <1>b, <3>1, <3>2 DEF Stands, HasGoal, HasWallet, LedgerBalance
  <2>3. CASE UNCHANGED fundsVars
    BY <2>3 DEF fundsVars, ledgerVars, walletVars, goalVars, Stands, HasGoal,
       HasWallet, LedgerBalance
  <2>4. QED BY <2>1, <2>2, <2>3 DEF FundsNext
<1>3. QED BY <1>1, <1>2

\* A transaction that moves keeps what it has read and adds what it reads now.
LEMMA MoverStands ==
  ASSUME Types, LocksMatchTasks, UNCHANGED ledgerVars,
         NEW r \in GoalRequests, TxStep(r), Stands(r)
  PROVE  Stands(r)'
<1> USE DEF Types
<1>1. task[r] \in TxTasks
  BY TxTaskFields DEF TxStep, LockGoal, LockWallet, ReadBalance, ReadReserved,
     Commit, TxSteps
<1>2. ASSUME Finish(r) PROVE Stands(r)'
  BY <1>2 DEF Finish, GoalTypeOK, Stands, HasGoal, HasWallet, NoTask, TxSteps
<1>a. goalStatus[task[r].goal] # "absent" /\ status[task[r].wallet] # "absent"
  BY <1>1 DEF Stands, TxTasks
<1>3. UNCHANGED <<status, posted, moved>>
  BY DEF ledgerVars, walletVars
<1>4. CASE LockGoal(r)
  <2>1. CASE Rollback(r)
    BY <1>2, <2>1 DEF Rollback
  <2>2. CASE ~Rollback(r)
    <3>1. /\ task'[r] = [task[r] EXCEPT !.at = "lockWallet"]
          /\ UNCHANGED goalStatus
          /\ ~(task[r].op = "reserve" /\ goalStatus[task[r].goal] = "archived")
      BY <1>4, <2>2 DEF LockGoal, Proceed, GoalTypeOK, goalTables
    <3>2. QED
      BY <1>1, <1>3, <1>a, <3>1 DEF Stands, HasGoal, HasWallet, TxTasks, GoalTypeOK, Statuses
  <2>3. QED BY <2>1, <2>2
<1>5. CASE LockWallet(r)
  <2>1. CASE Rollback(r)
    BY <1>2, <2>1 DEF Rollback
  <2>2. CASE ~Rollback(r)
    <3>1. /\ task'[r] = [task[r] EXCEPT !.at = IF task[r].op = "reserve"
                                               THEN "readBalance" ELSE "readReserved"]
          /\ UNCHANGED goalStatus
          /\ ~(task[r].op = "reserve" /\ status[task[r].wallet] = "archived")
          /\ Currency[task[r].wallet] = GoalCurrency[task[r].goal]
      BY <1>5, <2>2 DEF LockWallet, Proceed, GoalTypeOK, goalTables
    <3>2. QED
      BY <1>1, <1>3, <1>5, <1>a, <3>1
         DEF Stands, HasGoal, HasWallet, TxTasks, LockWallet, LedgerTypeOK, Statuses
  <2>3. QED BY <2>1, <2>2
<1>6. CASE ReadBalance(r)
  <2>1. /\ task'[r] = [task[r] EXCEPT !.at = "readReserved",
                          !.balance = LedgerBalance(task[r].wallet)]
        /\ UNCHANGED goalStatus
        /\ task[r].at = "readBalance"
    BY <1>6 DEF ReadBalance, GoalTypeOK, goalTables
  <2>2. QED
    BY <1>1, <1>3, <2>1 DEF Stands, HasGoal, HasWallet, TxTasks, LedgerBalance
<1>7. CASE ReadReserved(r)
  <2>1. CASE Rollback(r)
    BY <1>2, <2>1 DEF Rollback
  <2>2. CASE ~Rollback(r)
    <3>1. /\ task'[r] = [task[r] EXCEPT !.at = "commit"]
          /\ UNCHANGED <<goalStatus, held, reserved>>
          /\ task[r].at = "readReserved"
          /\ IF task[r].op = "reserve"
             THEN task[r].balance - held[task[r].wallet] >= task[r].amount
             ELSE reserved[task[r].goal][task[r].wallet] >= task[r].amount
      BY <1>7, <2>2 DEF ReadReserved, Proceed, GoalTypeOK, goalTables
    <3>2. QED
      BY <1>1, <1>3, <3>1 DEF Stands, HasGoal, HasWallet, TxTasks, LedgerBalance
  <2>3. QED BY <2>1, <2>2
<1>8. CASE Commit(r)
  BY <1>2, <1>8 DEF Commit
<1>9. QED
  BY <1>4, <1>5, <1>6, <1>7, <1>8 DEF TxStep

\* A request that starts has read nothing but that its rows exist.
LEMMA StarterStands ==
  ASSUME Types, UNCHANGED ledgerVars, NEW r \in GoalRequests, NEW t, Start(r, t),
         t.at \in TxSteps => /\ t.at = "lockGoal"
                             /\ goalStatus[t.goal] # "absent"
                             /\ status[t.wallet] # "absent"
  PROVE  Stands(r)'
<1>1. task'[r] = t /\ UNCHANGED <<goalStatus, status>>
  BY DEF Start, Types, GoalTypeOK, goalTables, ledgerVars, walletVars
<1>2. QED
  BY <1>1 DEF Stands, HasGoal, HasWallet, TxSteps

LEMMA ReadsStep ==
  Types /\ LocksMatchTasks /\ ReadsStand /\ [FundsNext]_fundsVars => ReadsStand'
<1> SUFFICES ASSUME Types, LocksMatchTasks, ReadsStand, [FundsNext]_fundsVars,
                    NEW s \in GoalRequests
             PROVE  Stands(s)'
  BY DEF ReadsStand
<1>1. Stands(s)
  BY DEF ReadsStand
<1>2. CASE task'[s] = task[s]
  BY <1>1, <1>2, OthersStand
<1>3. CASE task'[s] # task[s]
  <2>1. GoalNext
    BY <1>3 DEF FundsNext, fundsVars, goalVars
  <2>2. UNCHANGED ledgerVars
    BY <2>1 DEF GoalNext
  <2>3. ASSUME NEW r \in GoalRequests, NEW t, Start(r, t), t.at = "lockGoal",
               goalStatus[t.goal] # "absent", status[t.wallet] # "absent"
        PROVE  Stands(s)'
    <3>1. r = s
      BY <1>3, <2>3 DEF Start, Types, GoalTypeOK
    <3>2. QED BY <2>2, <2>3, <3>1, StarterStands
  <2>a. ASSUME NEW r \in GoalRequests, NEW t, Start(r, t), t.at \notin TxSteps
        PROVE  Stands(s)'
    <3>1. r = s
      BY <1>3, <2>a DEF Start, Types, GoalTypeOK
    <3>2. QED BY <2>2, <2>a, <3>1, StarterStands
  <2>4. ASSUME NEW r \in GoalRequests, Finish(r) PROVE Stands(s)'
    <3>1. r = s /\ task'[s] = NoTask
      BY <1>3, <2>4 DEF Finish, Types, GoalTypeOK
    <3>2. QED BY <3>1 DEF Stands, HasGoal, HasWallet, NoTask, TxSteps
  <2>5. ASSUME NEW r \in GoalRequests, TxStep(r) PROVE Stands(s)'
    <3>1. r = s
      BY <1>3, <2>5 DEF TxStep, LockGoal, LockWallet, ReadBalance, ReadReserved,
         Commit, Rollback, Finish, Proceed, Types, GoalTypeOK
    <3>2. QED BY <1>1, <2>2, <2>5, <3>1, MoverStands
  <2>6. ASSUME NEW r \in GoalRequests, NEW g \in Goals, NEW t \in Targets,
               UpdateGoal(r, g, t)
        PROVE  Stands(s)'
    BY <2>a, <2>6 DEF UpdateGoal, TxSteps
  <2>7. ASSUME NEW r \in GoalRequests, NEW g \in Goals, ArchiveGoal(r, g)
        PROVE  Stands(s)'
    BY <2>a, <2>7 DEF ArchiveGoal, TxSteps
  <2>8. ASSUME NEW r \in GoalRequests, NEW op \in {"reserve", "release"},
               NEW g \in Goals, NEW w \in Wallets, NEW a \in Amounts,
               BeginTx(r, op, g, w, a)
        PROVE  Stands(s)'
    BY <2>3, <2>8 DEF BeginTx
  <2>9. ASSUME NEW r \in GoalRequests, WriteGoal(r) \/ WriteGoalArchive(r) \/ AbortTask(r)
        PROVE  Stands(s)'
    BY <2>4, <2>9 DEF WriteGoal, WriteGoalArchive, AbortTask, Rollback
  <2>10. ASSUME NEW g \in Goals, CreateGoal(g) PROVE Stands(s)'
    BY <1>3, <2>10 DEF CreateGoal
  <2>11. QED
    BY <2>1, <2>5, <2>6, <2>7, <2>8, <2>9, <2>10 DEF GoalNext
<1>4. QED BY <1>2, <1>3

LEMMA NoOverReleaseStep ==
  Types /\ ReadsStand /\ NoOverRelease /\ [FundsNext]_fundsVars => NoOverRelease'
<1> SUFFICES ASSUME Types, ReadsStand, NoOverRelease, [FundsNext]_fundsVars
             PROVE  NoOverRelease'
  OBVIOUS
<1>1. ASSUME UNCHANGED reserved PROVE NoOverRelease'
  BY <1>1 DEF NoOverRelease
<1>2. ASSUME NEW r \in GoalRequests, Commit(r) PROVE NoOverRelease'
  <2>1. /\ task[r].goal \in Goals /\ task[r].wallet \in Wallets
        /\ task[r].amount \in Nat
    BY <1>2, TxTaskFields, AmountsArePositive DEF Commit, TxSteps, Types
  <2>2. task[r].op # "reserve"
           => reserved[task[r].goal][task[r].wallet] >= task[r].amount
    BY <1>2 DEF ReadsStand, Stands, Commit
  <2>3. QED
    BY <1>2, <2>1, <2>2 DEF NoOverRelease, Commit, Types, GoalTypeOK
<1>3. CASE GoalNext
  BY <1>1, <1>2, <1>3 DEF GoalNext, CreateGoal, UpdateGoal, WriteGoal, ArchiveGoal,
     WriteGoalArchive, BeginTx, AbortTask, Start, Rollback, goalTables, TxStep,
     LockGoal, LockWallet, ReadBalance, ReadReserved
<1>4. CASE (LedgerNext /\ UNCHANGED goalVars) \/ UNCHANGED fundsVars
  BY <1>1, <1>4 DEF fundsVars, goalVars
<1>5. QED
  BY <1>3, <1>4 DEF FundsNext

LEMMA FundsInvInit == FundsInit => FundsInv
  BY DEF FundsInit, GoalInit, FundsInv, LocksMatchTasks, ReadsStand, Stands,
     NoOverRelease, HasGoal, HasWallet, NoTask, TxSteps

\* The locks and what was read under them, the invariant the rest follows from.
THEOREM FundsInvariant == FundsSpec => []FundsInv
<1>1. FundsInit => Types /\ FundsInv
  BY TypesInit, FundsInvInit
<1>2. (Types /\ FundsInv) /\ [FundsNext]_fundsVars => (Types /\ FundsInv)'
  BY TypesStep, LocksStep, ReadsStep, NoOverReleaseStep DEF FundsInv
<1>3. QED
  BY <1>1, <1>2, PTL DEF FundsSpec

\* Of no wallet is more released for a goal than it reserved there.
THEOREM NothingOverReleased == FundsSpec => []NoOverRelease
  BY FundsInvariant, PTL DEF FundsInv

-----------------------------------------------------------------------------
(***************************************************************************)
(* What the commit of a reservation promises.                              *)
(***************************************************************************)
LEMMA OnlyCommitReserves ==
  [FundsNext]_fundsVars =>
     UNCHANGED <<held, reserved>> \/ (GoalNext /\ \E r \in GoalRequests : Commit(r))
<1>1. GoalNext => UNCHANGED <<held, reserved>> \/ \E r \in GoalRequests : Commit(r)
  BY DEF GoalNext, CreateGoal, UpdateGoal, WriteGoal, ArchiveGoal,
     WriteGoalArchive, BeginTx, AbortTask, Start, Rollback, goalTables, TxStep,
     LockGoal, LockWallet, ReadBalance, ReadReserved
<1>2. QED
  BY <1>1 DEF FundsNext, fundsVars, goalVars

CoveredStep ==
    \A w \in Wallets : held'[w] > held[w] => held'[w] <= LedgerBalance(w)'

LEMMA CommitIsCovered ==
  Types /\ FundsInv /\ [FundsNext]_fundsVars => [CoveredStep]_held
<1> SUFFICES ASSUME Types, FundsInv, GoalNext, NEW r \in GoalRequests, Commit(r)
             PROVE  CoveredStep
  BY OnlyCommitReserves
<1>1. /\ task[r].wallet \in Wallets /\ task[r].amount \in Nat
      /\ task[r].op # "reserve" \/ LedgerBalance(task[r].wallet) - held[task[r].wallet]
                                      >= task[r].amount
  BY TxTaskFields, AmountsArePositive
     DEF Commit, TxSteps, Types, FundsInv, ReadsStand, Stands
<1>2. \A w \in Wallets : LedgerBalance(w)' = LedgerBalance(w) /\ LedgerBalance(w) \in Int
  BY DEF GoalNext, ledgerVars, LedgerBalance, Types, LedgerTypeOK
<1>3. QED
  BY <1>1, <1>2 DEF CoveredStep, Commit, Types, GoalTypeOK

\* A reservation is covered by the wallet's ledger at the instant it commits.
THEOREM ReservationsCovered == FundsSpec => ReservationsAreCovered
<1>1. FundsSpec => [](Types /\ FundsInv)
  BY FundsTypes, FundsInvariant, PTL DEF Types
<1>2. QED
  BY <1>1, CommitIsCovered, PTL DEF FundsSpec, ReservationsAreCovered, CoveredStep

ShrinkStep ==
    \A g \in Goals, w \in Wallets :
        goalStatus[g] = "archived" \/ status[w] = "archived"
           => reserved'[g][w] <= reserved[g][w]

LEMMA CommitShrinks ==
  Types /\ FundsInv /\ [FundsNext]_fundsVars => [ShrinkStep]_reserved
<1> SUFFICES ASSUME Types, FundsInv, GoalNext, NEW r \in GoalRequests, Commit(r)
             PROVE  ShrinkStep
  BY OnlyCommitReserves
<1>1. /\ task[r].goal \in Goals /\ task[r].wallet \in Wallets
      /\ task[r].amount \in Nat
      /\ task[r].op = "reserve" => /\ goalStatus[task[r].goal] = "active"
                                   /\ status[task[r].wallet] = "active"
  BY TxTaskFields, AmountsArePositive DEF Commit, TxSteps, Types, FundsInv,
     ReadsStand, Stands, HasGoal, HasWallet
<1>2. QED
  BY <1>1 DEF ShrinkStep, Commit, Types, GoalTypeOK

\* Nothing is reserved for an archived goal or in an archived wallet.
THEOREM ArchivedGoalsShrink == FundsSpec => ArchivedGoalsOnlyShrink
<1>1. FundsSpec => [](Types /\ FundsInv)
  BY FundsTypes, FundsInvariant, PTL DEF Types
<1>2. QED
  BY <1>1, CommitShrinks, PTL DEF FundsSpec, ArchivedGoalsOnlyShrink, ShrinkStep

-----------------------------------------------------------------------------
\* Only an active goal is written, whoever read it as active before.
LEMMA FrozenGoals ==
  ASSUME Types, [FundsNext]_fundsVars
  PROVE  \A g \in Goals : goalStatus[g] = "archived"
            => goalStatus'[g] = "archived" /\ target'[g] = target[g]
<1> DEFINE Same == \A g \in Goals : goalStatus[g] = "archived"
                      => goalStatus'[g] = "archived" /\ target'[g] = target[g]
<1> USE DEF Types, GoalTypeOK, goalTables
<1>1. ASSUME UNCHANGED <<goalStatus, target>> PROVE Same
  BY <1>1
<1>2. ASSUME NEW g \in Goals, CreateGoal(g) PROVE Same
  BY <1>2 DEF CreateGoal
<1>3. ASSUME NEW r \in GoalRequests, WriteGoal(r) PROVE Same
  BY <1>3 DEF WriteGoal
<1>4. ASSUME NEW r \in GoalRequests, WriteGoalArchive(r) PROVE Same
  BY <1>4 DEF WriteGoalArchive
<1>5. ASSUME NEW r \in GoalRequests, TxStep(r) \/ AbortTask(r) PROVE Same
  BY <1>1, <1>5 DEF TxStep, LockGoal, LockWallet, ReadBalance, ReadReserved, Commit, AbortTask, Rollback
<1>6. ASSUME NEW r \in GoalRequests, NEW t, Start(r, t) PROVE Same
  BY <1>1, <1>6 DEF Start
<1>7. CASE GoalNext
  BY <1>2, <1>3, <1>4, <1>5, <1>6, <1>7 DEF GoalNext, UpdateGoal, ArchiveGoal, BeginTx
<1>8. CASE UNCHANGED goalVars
  BY <1>1, <1>8 DEF goalVars
<1>9. QED
  BY <1>7, <1>8 DEF FundsNext, fundsVars

\* An archived goal keeps its status and its target, however many updates and
\* archives were on their way to it (goal_service.go:73 and 89).
THEOREM ArchivedGoalsFreeze == FundsSpec => ArchivedGoalIsFrozen
<1>1. Types /\ [FundsNext]_fundsVars
        => [\A g \in Goals : goalStatus[g] = "archived"
              => goalStatus'[g] = "archived" /\ target'[g] = target[g]]_<<goalStatus, target>>
  BY FrozenGoals
<1>2. QED
  BY <1>1, TypesInit, TypesStep, PTL DEF FundsSpec, ArchivedGoalIsFrozen

-----------------------------------------------------------------------------
\* Who holds a wallet waits for nobody, and who waits for a goal holds none: in
\* any set of requests one is not kept waiting by the others.
LEMMA LockOrder == Types /\ FundsInv => NoDeadlock
<1> SUFFICES ASSUME Types, FundsInv, NEW S \in (SUBSET GoalRequests) \ {{}}
             PROVE  \E r \in S : WaitsFor(r) \cap S = {}
  BY DEF NoDeadlock
<1> SUFFICES ASSUME \A r \in S : WaitsFor(r) \cap S # {}
             PROVE  FALSE
  OBVIOUS
<1>0. S \subseteq GoalRequests /\ S # {}
  OBVIOUS
<1> USE <1>0
<1>1. ASSUME NEW r \in S, NEW b \in WaitsFor(r)
      PROVE  \E l \in locks : l.by = b /\ l.by # r /\
                (\/ task[r].at \in {"lockGoal", "updateGoal", "archiveGoal"}
                     /\ l.row = task[r].goal
                 \/ task[r].at = "lockWallet" /\ l.row = task[r].wallet)
  BY DEF WaitsFor, Blockers
<1>2. ASSUME NEW b \in S PROVE ~HasWallet(b)
  BY <1>2, <1>1 DEF HasWallet
<1>3. ASSUME NEW r \in S PROVE task[r].at # "lockWallet"
  <2>1. CASE task[r].at = "lockWallet"
    <3>1. PICK b \in S, l \in locks : l.by = b /\ l.row = task[r].wallet
      BY <1>1, <2>1
    <3>2. task[r].wallet \in Wallets
      BY <2>1, TxTaskFields DEF TxSteps, Types
    <3>3. HasGoal(b) => task[b].goal \in Goals
      BY TxTaskFields DEF HasGoal, TxSteps, Types
    <3>4. QED
      BY <1>2, <3>1, <3>2, <3>3, RowsAreDistinct DEF FundsInv, LocksMatchTasks
  <2>2. QED BY <2>1
<1>4. PICK r \in S, b \in S : b \in WaitsFor(r)
  OBVIOUS
<1>5. PICK l \in locks : l.by = b
  BY <1>1, <1>4
<1>6. HasGoal(b)
  BY <1>2, <1>5 DEF FundsInv, LocksMatchTasks
<1>7. task[b].at = "lockWallet"
  BY <1>2, <1>6 DEF HasGoal, HasWallet
<1>8. QED
  BY <1>3, <1>7

\* No set of goal requests ever waits for itself.
THEOREM DeadlockFree == FundsSpec => []NoDeadlock
<1>1. FundsSpec => [](Types /\ FundsInv)
  BY FundsTypes, FundsInvariant, PTL DEF Types
<1>2. QED
  BY <1>1, LockOrder, PTL

-----------------------------------------------------------------------------
(***************************************************************************)
(* The handlers implement FundsContract.                                   *)
(***************************************************************************)
LEMMA ContractInit == FundsInit => Contract!Init
  BY DEF FundsInit, LedgerInit, GoalInit, Contract!Init, LedgerBalance

\* The sums a contract step sees, in numbers.
LEMMA BalanceTypes ==
  ASSUME LedgerTypeOK'
  PROVE  [w \in Wallets |-> LedgerBalance(w)]' \in [Wallets -> Int]
  BY DEF LedgerTypeOK, LedgerBalance

\* Ledger steps move money, open or close a wallet, or are no contract step.
LEMMA LedgerImplements ==
  ASSUME Types, LedgerTypeOK', LedgerNext, UNCHANGED goalVars
  PROVE  [Contract!Next]_Contract!vars
<1> DEFINE bal == [w \in Wallets |-> LedgerBalance(w)]
<1>1. ASSUME UNCHANGED <<posted, moved>> PROVE UNCHANGED bal
  BY <1>1 DEF LedgerBalance
<1>2. ASSUME NEW w \in Wallets, CreateWallet(w) PROVE [Contract!Next]_Contract!vars
  <2>1. status[w] = "absent" /\ status' = [status EXCEPT ![w] = "active"] /\ UNCHANGED bal
    BY <1>1, <1>2 DEF CreateWallet
  <2>2. Contract!WalletLife(w)
    BY <2>1 DEF Contract!WalletLife, Contract!Advances, goalVars
  <2>3. QED BY <2>2 DEF Contract!Next
<1>3. ASSUME NEW r \in LedgerRequests, WriteArchive(r) PROVE [Contract!Next]_Contract!vars
  <2>1. call[r] \in Calls /\ call[r].op = "archiveWallet" /\ UNCHANGED bal
    BY <1>1, <1>3 DEF WriteArchive, Types, LedgerTypeOK
  <2>2. call[r].wallet \in Wallets
    BY <2>1 DEF Calls, Idle
  <2>3. CASE status[call[r].wallet] = "active"
    <3>1. Contract!WalletLife(call[r].wallet)
      BY <1>3, <2>1, <2>3 DEF WriteArchive, Contract!WalletLife, Contract!Advances, goalVars
    <3>2. QED BY <2>2, <3>1 DEF Contract!Next
  <2>4. CASE status[call[r].wallet] # "active"
    BY <1>3, <2>1, <2>4 DEF WriteArchive, Contract!vars, goalVars
  <2>5. QED BY <2>3, <2>4
<1>4. ASSUME UNCHANGED status PROVE [Contract!Next]_Contract!vars
  <2>1. Contract!MoveMoney
    BY <1>4, BalanceTypes DEF Contract!MoveMoney, goalVars
  <2>2. QED BY <2>1 DEF Contract!Next
<1>5. QED
  BY <1>2, <1>3, <1>4 DEF LedgerNext, UpdateWallet, WriteWallet, ArchiveWallet,
     CreateTransaction, InsertTransaction, CreateTransfer, ReadDestination,
     InsertTransfer, Abandon, walletVars

\* Goal steps open or close a goal, reserve, release, or are no contract step.
LEMMA GoalsImplement ==
  ASSUME Types, FundsInv, GoalNext
  PROVE  [Contract!Next]_Contract!vars
<1> DEFINE bal == [w \in Wallets |-> LedgerBalance(w)]
<1>1. UNCHANGED <<status, bal>>
  BY DEF GoalNext, ledgerVars, walletVars, LedgerBalance
<1>2. ASSUME UNCHANGED <<goalStatus, reserved, held>>
      PROVE  [Contract!Next]_Contract!vars
  BY <1>1, <1>2 DEF Contract!vars
<1>3. ASSUME NEW g \in Goals, CreateGoal(g) PROVE [Contract!Next]_Contract!vars
  <2>1. Contract!GoalLife(g)
    BY <1>1, <1>3 DEF CreateGoal, Contract!GoalLife, Contract!Advances
  <2>2. QED BY <2>1 DEF Contract!Next
<1>4. ASSUME NEW r \in GoalRequests, WriteGoalArchive(r)
      PROVE  [Contract!Next]_Contract!vars
  <2>1. task[r] \in Tasks /\ task[r].at = "archiveGoal"
    BY <1>4 DEF WriteGoalArchive, Types, GoalTypeOK
  <2>2. task[r].goal \in Goals
    BY <2>1 DEF Tasks, NoTask, TxTasks, TxSteps
  <2>3. CASE goalStatus[task[r].goal] = "active"
    <3>1. Contract!GoalLife(task[r].goal)
      BY <1>1, <1>4, <2>3 DEF WriteGoalArchive, Contract!GoalLife, Contract!Advances
    <3>2. QED BY <2>2, <3>1 DEF Contract!Next
  <2>4. CASE goalStatus[task[r].goal] # "active"
    BY <1>2, <1>4, <2>4 DEF WriteGoalArchive
  <2>5. QED BY <2>3, <2>4
<1>5. ASSUME NEW r \in GoalRequests, Commit(r) PROVE [Contract!Next]_Contract!vars
  <2> DEFINE g == task[r].goal
             w == task[r].wallet
             a == task[r].amount
  <2>1. /\ g \in Goals /\ w \in Wallets /\ a \in Amounts /\ a \in Int
        /\ task[r].op \in {"reserve", "release"}
    BY <1>5, TxTaskFields, DeltasAreInt DEF Commit, TxSteps, Types
  <2>2. Stands(r) /\ HasGoal(r) /\ HasWallet(r) /\ task[r].at = "commit"
    BY <1>5 DEF Commit, FundsInv, ReadsStand, HasGoal, HasWallet
  <2>3. bal[w] = LedgerBalance(w)
    BY <2>1
  <2>4. CASE task[r].op = "reserve"
    <3>1. Contract!Change(g, w, a)
      BY <1>1, <1>5, <2>2, <2>4 DEF Commit, Stands, Contract!Change
    <3>2. Contract!Reserve(g, w, a)
      BY <2>2, <2>3, <2>4, <3>1 DEF Stands, Contract!Reserve
    <3>3. QED BY <2>1, <3>2 DEF Contract!Next
  <2>5. CASE task[r].op = "release"
    <3>1. Contract!Change(g, w, -a)
      BY <1>1, <1>5, <2>2, <2>5 DEF Commit, Stands, Contract!Change
    <3>2. Contract!Release(g, w, a)
      BY <2>2, <2>5, <3>1 DEF Stands, Contract!Release
    <3>3. QED BY <2>1, <3>2 DEF Contract!Next
  <2>6. QED BY <2>1, <2>4, <2>5
<1>6. QED
  BY <1>2, <1>3, <1>4, <1>5 DEF GoalNext, UpdateGoal, WriteGoal, ArchiveGoal,
     BeginTx, AbortTask, Start, Rollback, goalTables, TxStep, LockGoal, LockWallet,
     ReadBalance, ReadReserved

\* Every behaviour of the handlers is, to those who see only what is committed,
\* a behaviour of the contract: reservations and releases are atomic.
THEOREM HandlersImplementContract == FundsSpec => ImplementsContract
<1>1. Types /\ FundsInv /\ Types' /\ [FundsNext]_fundsVars => [Contract!Next]_Contract!vars
  <2>1. Types /\ FundsInv /\ GoalNext => [Contract!Next]_Contract!vars
    BY GoalsImplement
  <2>2. Types /\ Types' /\ LedgerNext /\ UNCHANGED goalVars
           => [Contract!Next]_Contract!vars
    BY LedgerImplements DEF Types
  <2>3. UNCHANGED fundsVars => UNCHANGED Contract!vars
    BY DEF fundsVars, ledgerVars, walletVars, goalVars, Contract!vars, LedgerBalance
  <2>4. QED BY <2>1, <2>2, <2>3 DEF FundsNext
<1>2. FundsSpec => [](Types /\ FundsInv)
  BY FundsTypes, FundsInvariant, PTL DEF Types
<1>3. QED
  BY ContractInit, <1>1, <1>2, PTL DEF FundsSpec, ImplementsContract, Contract!Spec

-----------------------------------------------------------------------------
(***************************************************************************)
(* The two sums taken of goal_reservation_events.                          *)
(***************************************************************************)
GoalsThere == {g \in Goals : goalStatus[g] # "absent"}
ReservedIn(w) == [g \in Goals |-> reserved[g][w]]

\* What the wallet's events add up to is what the events of each of its goals
\* do: the sum a reservation is compared with and the sum a release is compared
\* with are of the same rows (goal_service.go:128 and 165).
HeldAddsUp ==
    \A w \in Wallets : held[w] = SumFunctionOnSet(ReservedIn(w), GoalsThere)

\* No event names a goal that is not there.
EventsHaveGoals ==
    /\ IsFiniteSet(GoalsThere)
    /\ \A g \in Goals, w \in Wallets :
          goalStatus[g] = "absent" => reserved[g][w] = 0

HeldInv == EventsHaveGoals /\ HeldAddsUp

LEMMA HeldInvInit == FundsInit => HeldInv
<1> SUFFICES ASSUME FundsInit PROVE HeldInv
  OBVIOUS
<1>1. GoalsThere = {} /\ \A w \in Wallets : held[w] = 0
  BY DEF FundsInit, GoalInit, GoalsThere
<1>2. \A w \in Wallets : SumFunctionOnSet(ReservedIn(w), {}) = 0
  BY SumOfNone
<1>3. EventsHaveGoals
  BY <1>1, FS_EmptySet DEF EventsHaveGoals, FundsInit, GoalInit
<1>4. QED
  BY <1>1, <1>2, <1>3 DEF HeldInv, HeldAddsUp

\* Steps that leave the events alone and neither add nor remove a goal.
LEMMA SameEventsAddUp ==
  ASSUME HeldInv, UNCHANGED <<reserved, held>>,
         \A g \in Goals : goalStatus'[g] = "absent" <=> goalStatus[g] = "absent"
  PROVE  HeldInv'
<1>1. GoalsThere' = GoalsThere /\ \A w : ReservedIn(w)' = ReservedIn(w)
  BY DEF GoalsThere, ReservedIn
<1>2. EventsHaveGoals'
  BY <1>1 DEF HeldInv, EventsHaveGoals
<1>3. HeldAddsUp'
  BY <1>1 DEF HeldInv, HeldAddsUp
<1>4. QED
  BY <1>2, <1>3 DEF HeldInv

\* A new goal holds nothing.
LEMMA CreateGoalAddsUp ==
  ASSUME Types, HeldInv, NEW v \in Goals, CreateGoal(v)
  PROVE  HeldInv'
<1>1. /\ UNCHANGED <<reserved, held>> /\ goalStatus[v] = "absent"
      /\ goalStatus' = [goalStatus EXCEPT ![v] = "active"]
      /\ goalStatus \in [Goals -> Statuses] /\ reserved \in [Goals -> [Wallets -> Int]]
      /\ held \in [Wallets -> Int]
  BY DEF CreateGoal, Types, GoalTypeOK
<1>2. GoalsThere' = GoalsThere \cup {v} /\ v \notin GoalsThere
  BY <1>1 DEF GoalsThere
<1>3. IsFiniteSet(GoalsThere) /\ IsFiniteSet(GoalsThere')
  BY <1>2, FS_AddElement DEF HeldInv, EventsHaveGoals
<1>4. EventsHaveGoals'
  BY <1>1, <1>3 DEF HeldInv, EventsHaveGoals
<1>5. ASSUME NEW w \in Wallets
      PROVE  held'[w] = SumFunctionOnSet(ReservedIn(w)', GoalsThere')
  <2>1. /\ ReservedIn(w)' = ReservedIn(w) /\ ReservedIn(w)[v] = 0
        /\ \A g \in GoalsThere \cup {v} : ReservedIn(w)[g] \in Int
    BY <1>1 DEF ReservedIn, HeldInv, EventsHaveGoals, GoalsThere
  <2>2. held[w] = SumFunctionOnSet(ReservedIn(w), GoalsThere)
    BY DEF HeldInv, HeldAddsUp
  <2> HIDE DEF ReservedIn
  <2>3. SumFunctionOnSet(ReservedIn(w), GoalsThere \cup {v}) = held[w] + 0
    BY <1>2, <1>3, <2>1, <2>2, SumAdd
  <2>4. QED
    BY <1>1, <1>2, <2>1, <2>3
<1>6. QED
  BY <1>4, <1>5 DEF HeldInv, HeldAddsUp

\* The event of a commit counts once in each of the two sums.
LEMMA CommitAddsUp ==
  ASSUME Types, FundsInv, HeldInv, NEW r \in GoalRequests, Commit(r)
  PROVE  HeldInv'
<1> DEFINE v == task[r].goal
           x == task[r].wallet
           d == IF task[r].op = "reserve" THEN task[r].amount ELSE -task[r].amount
<1>1. /\ v \in Goals /\ x \in Wallets /\ d \in Int /\ goalStatus[v] # "absent"
  BY TxTaskFields, DeltasAreInt DEF Commit, TxSteps, Types, FundsInv, ReadsStand, Stands
<1>2. /\ reserved' = [reserved EXCEPT ![v][x] = @ + d]
      /\ held' = [held EXCEPT ![x] = @ + d]
      /\ UNCHANGED goalStatus
      /\ reserved \in [Goals -> [Wallets -> Int]] /\ held \in [Wallets -> Int]
  BY DEF Commit, Types, GoalTypeOK
<1> HIDE DEF v, x, d
<1>3. GoalsThere' = GoalsThere /\ v \in GoalsThere /\ GoalsThere \subseteq Goals
  BY <1>1, <1>2 DEF GoalsThere
<1>4. EventsHaveGoals'
  BY <1>1, <1>2, <1>3 DEF HeldInv, EventsHaveGoals
<1>5. ASSUME NEW w \in Wallets
      PROVE  held'[w] = SumFunctionOnSet(ReservedIn(w)', GoalsThere)
  <2>1. held[w] = SumFunctionOnSet(ReservedIn(w), GoalsThere) /\ IsFiniteSet(GoalsThere)
    BY DEF HeldInv, HeldAddsUp, EventsHaveGoals
  <2>2. \A g \in GoalsThere : ReservedIn(w)[g] = reserved[g][w]
                              /\ ReservedIn(w)'[g] = reserved'[g][w]
    BY <1>3 DEF ReservedIn
  <2>3. CASE w = x
    <3>1. /\ \A g \in GoalsThere : ReservedIn(w)[g] \in Int
          /\ ReservedIn(w)'[v] \in Int
          /\ \A g \in GoalsThere : g # v => ReservedIn(w)'[g] = ReservedIn(w)[g]
          /\ ReservedIn(w)'[v] - ReservedIn(w)[v] = d
      BY <1>1, <1>2, <1>3, <2>2, <2>3
    <3>2. held'[w] = held[w] + d
      BY <1>1, <1>2, <2>3
    <3>3. SumFunctionOnSet(ReservedIn(w)', GoalsThere)
            = SumFunctionOnSet(ReservedIn(w), GoalsThere)
                + (ReservedIn(w)'[v] - ReservedIn(w)[v])
      BY <1>3, <2>1, <3>1, SumChange
    <3>4. QED
      BY <2>1, <3>1, <3>2, <3>3
  <2>4. CASE w # x
    <3>1. \A g \in GoalsThere : ReservedIn(w)'[g] = ReservedIn(w)[g]
      BY <1>1, <1>2, <1>3, <2>2, <2>4
    <3>2. held'[w] = held[w]
      BY <1>1, <1>2, <2>4
    <3>3. SumFunctionOnSet(ReservedIn(w)', GoalsThere)
            = SumFunctionOnSet(ReservedIn(w), GoalsThere)
      BY <2>1, <3>1, SumOfEqual
    <3>4. QED
      BY <2>1, <3>2, <3>3
  <2>5. QED
    BY <2>3, <2>4
<1>6. QED
  BY <1>3, <1>4, <1>5 DEF HeldInv, HeldAddsUp

LEMMA HeldInvStep ==
  Types /\ FundsInv /\ HeldInv /\ [FundsNext]_fundsVars => HeldInv'
<1> SUFFICES ASSUME Types, FundsInv, HeldInv, [FundsNext]_fundsVars PROVE HeldInv'
  OBVIOUS
<1>1. ASSUME UNCHANGED <<goalStatus, reserved, held>> PROVE HeldInv'
  BY <1>1, SameEventsAddUp
<1>2. ASSUME NEW r \in GoalRequests, WriteGoalArchive(r) PROVE HeldInv'
  <2>1. /\ UNCHANGED <<reserved, held>>
        /\ \A g \in Goals : goalStatus'[g] = "absent" <=> goalStatus[g] = "absent"
    BY <1>2 DEF WriteGoalArchive, Types, GoalTypeOK
  <2>2. QED
    BY <2>1, SameEventsAddUp
<1>3. CASE GoalNext
  BY <1>1, <1>2, <1>3, CreateGoalAddsUp, CommitAddsUp
     DEF GoalNext, UpdateGoal, WriteGoal, ArchiveGoal, BeginTx, AbortTask, Start,
         Rollback, goalTables, TxStep, LockGoal, LockWallet, ReadBalance, ReadReserved
<1>4. CASE UNCHANGED goalVars
  BY <1>1, <1>4 DEF goalVars
<1>5. QED
  BY <1>3, <1>4 DEF FundsNext, fundsVars

LEMMA HeldInvariant == FundsSpec => []HeldInv
<1>1. FundsSpec => [](Types /\ FundsInv)
  BY FundsTypes, FundsInvariant, PTL DEF Types
<1>2. QED
  BY <1>1, HeldInvInit, HeldInvStep, PTL DEF FundsSpec

\* A wallet's reservations are those of its goals, each counted once, at every
\* instant and for any number of goals.
THEOREM HeldAlwaysAddsUp == FundsSpec => []HeldAddsUp
  BY HeldInvariant, PTL DEF HeldInv

\* No goal holds more of a wallet than all its goals do: a release the goal's
\* own sum covers never takes the wallet's sum below zero.
GoalsWithinHeld ==
    \A g \in Goals, w \in Wallets :
        0 <= reserved[g][w] /\ reserved[g][w] <= held[w]

LEMMA SharesWithinHeld == Types /\ FundsInv /\ HeldInv => GoalsWithinHeld
<1> SUFFICES ASSUME Types, FundsInv, HeldInv, NEW g \in Goals, NEW w \in Wallets
             PROVE  0 <= reserved[g][w] /\ reserved[g][w] <= held[w]
  BY DEF GoalsWithinHeld
<1>1. /\ \A h \in Goals : reserved[h][w] \in Nat
      /\ held[w] = SumFunctionOnSet(ReservedIn(w), GoalsThere)
      /\ IsFiniteSet(GoalsThere) /\ GoalsThere \subseteq Goals
  BY DEF Types, GoalTypeOK, FundsInv, NoOverRelease, HeldInv, HeldAddsUp,
     EventsHaveGoals, GoalsThere
<1>2. \A h \in GoalsThere : ReservedIn(w)[h] \in Nat /\ ReservedIn(w)[h] = reserved[h][w]
  BY <1>1 DEF ReservedIn
<1>3. CASE g \in GoalsThere
  <2>1. ReservedIn(w)[g] <= SumFunctionOnSet(ReservedIn(w), GoalsThere)
    BY <1>1, <1>2, <1>3, SumBounds
  <2>2. QED
    BY <1>1, <1>2, <1>3, <2>1
<1>4. CASE g \notin GoalsThere
  <2>1. reserved[g][w] = 0
    BY <1>4 DEF GoalsThere, HeldInv, EventsHaveGoals
  <2>2. SumFunctionOnSet(ReservedIn(w), GoalsThere) \in Nat
    BY <1>1, <1>2, SumIsNat
  <2>3. QED
    BY <1>1, <2>1, <2>2
<1>5. QED
  BY <1>3, <1>4

\* Each goal's share of a wallet stays between nothing and what the wallet holds.
THEOREM GoalsAlwaysWithinHeld == FundsSpec => []GoalsWithinHeld
<1>1. FundsSpec => [](Types /\ FundsInv)
  BY FundsTypes, FundsInvariant, PTL DEF Types
<1>2. QED
  BY <1>1, HeldInvariant, SharesWithinHeld, PTL
=============================================================================
