------------------------ MODULE HouseholdMoneyProofs ------------------------
(***************************************************************************)
(* Theorems about HouseholdMoney: goals and reconciliation over the same   *)
(* wallets and locks, for any number of each and of requests.              *)
(***************************************************************************)
EXTENDS HouseholdMoney, LedgerProofs

\* The rows a goal request holds when it goes on with task t.
GoalStages == {"lockWallet", "readBalance", "readReserved", "commit"}
WalletStages == {"readBalance", "readReserved", "commit"}
TaskLocks(r, t) ==
    (IF t.at \in GoalStages THEN {Lock(t.goal, "Update", r)} ELSE {})
    \cup (IF t.at \in WalletStages THEN {Lock(t.wallet, "Update", r)} ELSE {})

\* Those of a reconciliation that goes on with job j of a case whose row is
\* `row': it shares the wallet once there is an adjustment.
CaseStages == {"readCurrent", "insertAdjustment", "closeCase"}
JobLocks(r, j, row) ==
    (IF j.at \in CaseStages THEN {Lock(j.case, "Update", r)} ELSE {})
    \cup (IF j.at = "closeCase" /\ row.observed # j.current
          THEN {Lock(row.wallet, "KeyShare", r)} ELSE {})

HeldBy(r) ==
    IF r \in GoalRequests THEN TaskLocks(r, task[r])
                          ELSE JobLocks(r, job[r], cases[job[r].case])

\* The lock table holds what the open transactions have locked, and no more.
LocksExact ==
    /\ \A l \in locks : l.by \in TxRequests /\ l \in HeldBy(l.by)
    /\ \A r \in TxRequests : HeldBy(r) \subseteq locks

\* No two transactions hold locks that conflict.
LocksAgree ==
    \A k, l \in locks : k.row = l.row /\ k.by # l.by => ~Conflicts(k.mode, l.mode)

MoneyTypes ==
    /\ LedgerTypeOK
    /\ task \in [GoalRequests -> Tasks]
    /\ ReconciliationTypeOK

Creating(r) == job[r].at \in {"readExpected", "insertCase"}

\* The case a request creates is nobody else's; the one it has locked is still
\* unresolved; and an adjustment is of something.
CasesStand ==
    \A r \in CaseRequests :
        /\ Creating(r) =>
             /\ cases[job[r].case] = NoCase
             /\ \A q \in CaseRequests : q # r /\ job[q] # NoJob => job[q].case # job[r].case
        /\ job[r].at \in CaseStages => cases[job[r].case].status = "unresolved"
        /\ job[r].at = "insertAdjustment" => cases[job[r].case].observed # job[r].current

MoneyInv == MoneyTypes /\ CasesStand /\ LocksExact /\ LocksAgree

-----------------------------------------------------------------------------
(***************************************************************************)
(* Types.                                                                  *)
(***************************************************************************)
\* What a transaction carries with it.
LEMMA TxFields ==
  ASSUME MoneyTypes, NEW r \in GoalRequests, task[r].at \in TxSteps
  PROVE  /\ task[r] \in TxTasks
         /\ task[r].goal \in Goals /\ task[r].wallet \in Wallets
<1>1. task[r] \in Tasks
  BY DEF MoneyTypes
<1>2. task[r] \in TxTasks
  BY <1>1 DEF Tasks, NoTask, TxSteps
<1>3. QED
  BY <1>2 DEF TxTasks

\* The job of a request that creates, and of one that resolves, a case.
CreatingJobs == [at: {"readExpected", "insertCase"}, case: Cases, wallet: Wallets,
                 observed: Observed, expected: Int]
ResolvingJobs == [at: {"lockCase", "readCurrent", "insertAdjustment", "closeCase"},
                  case: Cases, current: Int]

LEMMA JobFields ==
  ASSUME MoneyTypes, NEW r \in CaseRequests
  PROVE  /\ job[r] \in Jobs
         /\ job[r] = NoJob \/ job[r] \in CreatingJobs \/ job[r] \in ResolvingJobs
         /\ Creating(r) => job[r] \in CreatingJobs
         /\ job[r].at \in CaseStages \cup {"lockCase"} => job[r] \in ResolvingJobs
         /\ job[r] # NoJob => job[r].case \in Cases
<1>1. job[r] \in Jobs
  BY DEF MoneyTypes, ReconciliationTypeOK
<1>2. job[r] = NoJob \/ job[r] \in CreatingJobs \/ job[r] \in ResolvingJobs
  BY <1>1 DEF Jobs, CreatingJobs, ResolvingJobs
<1>3. QED
  BY <1>1, <1>2 DEF CreatingJobs, ResolvingJobs, NoJob, Creating, CaseStages

LEMMA CaseFields ==
  ASSUME MoneyTypes, NEW c \in Cases, cases[c].status # "absent" \/ cases[c] # NoCase
  PROVE  /\ cases[c] \in CaseRows /\ cases[c] # NoCase
         /\ cases[c].wallet \in Wallets /\ cases[c].observed \in Int
         /\ cases[c].observed \in Observed
<1>1. cases[c] \in CaseRows \cup {NoCase}
  BY DEF MoneyTypes, ReconciliationTypeOK
<1>2. cases[c] # NoCase /\ cases[c] \in CaseRows
  BY <1>1 DEF NoCase, CaseRows
<1>3. QED
  BY <1>2, ObservedAreInts DEF CaseRows

LEMMA PhysicalIsInt ==
  ASSUME MoneyTypes, NEW w \in Wallets
  PROVE  PhysicalBalance(w) \in Int /\ LedgerBalance(w) \in Int
  BY DEF MoneyTypes, LedgerTypeOK, ReconciliationTypeOK, PhysicalBalance, LedgerBalance

\* A goal request goes on with one task; what it then holds it held before or
\* was granted.
TaskMoves(r, t) ==
    /\ task' = [task EXCEPT ![r] = t]
    /\ locks' = ReleasedBy(locks, r) \cup TaskLocks(r, t)
    /\ \A l \in TaskLocks(r, t) : l \in locks \/ Grantable(locks, l.row, l.mode, r)

LEMMA TaskHolds ==
  ASSUME LocksExact, NEW r \in GoalRequests
  PROVE  locks = ReleasedBy(locks, r) \cup TaskLocks(r, task[r])
<1>1. r \in TxRequests /\ HeldBy(r) = TaskLocks(r, task[r])
  BY DEF TxRequests, HeldBy
<1>2. QED
  BY <1>1 DEF LocksExact, ReleasedBy

LEMMA GoalMoves ==
  ASSUME MoneyTypes, LocksExact, GoalNext
  PROVE  \/ UNCHANGED <<task, locks>>
         \/ \E r \in GoalRequests, t \in Tasks : TaskMoves(r, t)
<1>1. ASSUME NEW r \in GoalRequests, Finish(r) PROVE TaskMoves(r, NoTask)
  BY <1>1 DEF Finish, TaskMoves, TaskLocks, NoTask, GoalStages, WalletStages
<1>2. ASSUME NEW r \in GoalRequests, NEW t, Start(r, t), t.at \notin GoalStages
      PROVE  TaskMoves(r, t)
  <2>1. TaskLocks(r, t) = {} /\ TaskLocks(r, NoTask) = {}
    BY <1>2 DEF TaskLocks, NoTask, GoalStages, WalletStages
  <2>2. QED
    BY <1>2, <2>1, TaskHolds DEF Start, TaskMoves
<1>3. ASSUME NEW g \in Goals, CreateGoal(g) PROVE UNCHANGED <<task, locks>>
  BY <1>3 DEF CreateGoal
<1>4. ASSUME NEW r \in GoalRequests, NEW g \in Goals, NEW t \in Targets, UpdateGoal(r, g, t)
      PROVE  \E u \in Tasks : TaskMoves(r, u)
  <2>1. [at |-> "updateGoal", goal |-> g, target |-> t] \in Tasks
    BY DEF Tasks
  <2>2. QED
    BY <1>2, <1>4, <2>1 DEF UpdateGoal, GoalStages
<1>5. ASSUME NEW r \in GoalRequests, NEW g \in Goals, ArchiveGoal(r, g)
      PROVE  \E u \in Tasks : TaskMoves(r, u)
  <2>1. [at |-> "archiveGoal", goal |-> g] \in Tasks
    BY DEF Tasks
  <2>2. QED
    BY <1>2, <1>5, <2>1 DEF ArchiveGoal, GoalStages
<1>6. ASSUME NEW r \in GoalRequests, NEW op \in {"reserve", "release"}, NEW g \in Goals,
             NEW w \in Wallets, NEW a \in Amounts, BeginTx(r, op, g, w, a)
      PROVE  \E u \in Tasks : TaskMoves(r, u)
  <2>1. [at |-> "lockGoal", op |-> op, goal |-> g, wallet |-> w, amount |-> a,
         balance |-> 0] \in Tasks
    BY DEF Tasks, TxTasks, TxSteps
  <2>2. QED
    BY <1>2, <1>6, <2>1 DEF BeginTx, GoalStages
<1>7. NoTask \in Tasks
  BY DEF Tasks
<1>8. ASSUME NEW r \in GoalRequests,
             WriteGoal(r) \/ WriteGoalArchive(r) \/ Commit(r) \/ AbortTask(r)
      PROVE  \E u \in Tasks : TaskMoves(r, u)
  BY <1>1, <1>7, <1>8 DEF WriteGoal, WriteGoalArchive, Commit, AbortTask, Rollback
<1>9. ASSUME NEW r \in GoalRequests, LockGoal(r) PROVE \E u \in Tasks : TaskMoves(r, u)
  <2>1. CASE Rollback(r)
    BY <1>1, <1>7, <2>1 DEF Rollback
  <2>2. CASE ~Rollback(r)
    <3> DEFINE u == [task[r] EXCEPT !.at = "lockWallet"]
    <3>1. /\ task[r].at = "lockGoal" /\ Grantable(locks, task[r].goal, "Update", r)
          /\ locks' = locks \cup {Lock(task[r].goal, "Update", r)}
          /\ task' = [task EXCEPT ![r].at = "lockWallet"]
      BY <1>9, <2>2 DEF LockGoal, Proceed
    <3>2. task[r] \in TxTasks
      BY <3>1, TxFields DEF TxSteps
    <3>3. u \in Tasks /\ u.goal = task[r].goal /\ u.at = "lockWallet"
      BY <3>2 DEF Tasks, TxTasks, TxSteps
    <3>4. task' = [task EXCEPT ![r] = u]
      BY <3>1
    <3> HIDE DEF u
    <3>5. /\ TaskLocks(r, u) = {Lock(task[r].goal, "Update", r)}
          /\ TaskLocks(r, task[r]) = {}
      BY <3>1, <3>3 DEF TaskLocks, GoalStages, WalletStages
    <3>6. locks' = ReleasedBy(locks, r) \cup TaskLocks(r, u)
      BY <3>1, <3>5, TaskHolds
    <3>7. \A l \in TaskLocks(r, u) : l \in locks \/ Grantable(locks, l.row, l.mode, r)
      BY <3>1, <3>5, TaskHolds DEF Lock
    <3>8. QED
      BY <3>3, <3>4, <3>6, <3>7 DEF TaskMoves
  <2>3. QED
    BY <2>1, <2>2
<1>10. ASSUME NEW r \in GoalRequests, LockWallet(r) PROVE \E u \in Tasks : TaskMoves(r, u)
  <2>1. CASE Rollback(r)
    BY <1>1, <1>7, <2>1 DEF Rollback
  <2>2. CASE ~Rollback(r)
    <3>1. PICK next \in {"readBalance", "readReserved"} :
            /\ task[r].at = "lockWallet" /\ Grantable(locks, task[r].wallet, "Update", r)
            /\ locks' = locks \cup {Lock(task[r].wallet, "Update", r)}
            /\ task' = [task EXCEPT ![r].at = next]
      BY <1>10, <2>2 DEF LockWallet, Proceed
    <3> DEFINE u == [task[r] EXCEPT !.at = next]
    <3>2. task[r] \in TxTasks
      BY <3>1, TxFields DEF TxSteps
    <3>3. u \in Tasks /\ u.goal = task[r].goal /\ u.wallet = task[r].wallet /\ u.at = next
      BY <3>2 DEF Tasks, TxTasks, TxSteps
    <3>4. task' = [task EXCEPT ![r] = u]
      BY <3>1
    <3> HIDE DEF u
    <3>5. /\ TaskLocks(r, u) = {Lock(task[r].goal, "Update", r), Lock(task[r].wallet, "Update", r)}
          /\ TaskLocks(r, task[r]) = {Lock(task[r].goal, "Update", r)}
      BY <3>1, <3>3 DEF TaskLocks, GoalStages, WalletStages
    <3>6. locks' = ReleasedBy(locks, r) \cup TaskLocks(r, u)
      BY <3>1, <3>5, TaskHolds
    <3>7. \A l \in TaskLocks(r, u) : l \in locks \/ Grantable(locks, l.row, l.mode, r)
      BY <3>1, <3>5, TaskHolds DEF Lock
    <3>8. QED
      BY <3>3, <3>4, <3>6, <3>7 DEF TaskMoves
  <2>3. QED
    BY <2>1, <2>2
<1>11. ASSUME NEW r \in GoalRequests, ReadBalance(r) \/ ReadReserved(r)
       PROVE  \E u \in Tasks : TaskMoves(r, u)
  <2>1. CASE Rollback(r)
    BY <1>1, <1>7, <2>1 DEF Rollback
  <2>2. CASE ~Rollback(r)
    <3>1. task[r].at \in {"readBalance", "readReserved"} /\ UNCHANGED locks
      BY <1>11, <2>2 DEF ReadBalance, ReadReserved
    <3>2. task[r] \in TxTasks /\ LedgerBalance(task[r].wallet) \in Int
      BY <3>1, TxFields, PhysicalIsInt DEF TxSteps
    <3>3. PICK u \in TxTasks : /\ task' = [task EXCEPT ![r] = u]
                               /\ u.goal = task[r].goal /\ u.wallet = task[r].wallet
                               /\ u.at \in WalletStages
      <4>1. CASE ReadBalance(r)
        <5>1. [task[r] EXCEPT !.at = "readReserved",
                              !.balance = LedgerBalance(task[r].wallet)] \in TxTasks
          BY <3>2 DEF TxTasks, TxSteps
        <5>2. QED
          BY <3>2, <4>1, <5>1 DEF ReadBalance, TxTasks, WalletStages
      <4>2. CASE ReadReserved(r)
        <5>1. [task[r] EXCEPT !.at = "commit"] \in TxTasks
          BY <3>2 DEF TxTasks, TxSteps
        <5>2. QED
          BY <2>2, <3>2, <4>2, <5>1 DEF ReadReserved, Proceed, TxTasks, WalletStages
      <4>3. QED
        BY <1>11, <4>1, <4>2
    <3>4. TaskLocks(r, u) = TaskLocks(r, task[r])
      BY <3>1, <3>3 DEF TaskLocks, GoalStages, WalletStages
    <3>5. TaskMoves(r, u)
      BY <3>1, <3>3, <3>4, TaskHolds DEF TaskMoves
    <3>6. QED
      BY <3>5 DEF Tasks
  <2>3. QED
    BY <2>1, <2>2
<1>12. QED
  BY <1>3, <1>4, <1>5, <1>6, <1>8, <1>9, <1>10, <1>11 DEF GoalNext, TxStep

-----------------------------------------------------------------------------
(***************************************************************************)
(* What a reconciliation does next.                                        *)
(***************************************************************************)
\* A request begins to create a case nobody has, or to resolve one that exists,
\* or goes on with the case it has, which it has locked unresolved.
Follows(r, j) ==
    /\ IF job[r] = NoJob
       THEN \/ /\ j.at = "readExpected"
               /\ cases[j.case] = NoCase
               /\ \A q \in CaseRequests : job[q] # NoJob => job[q].case # j.case
            \/ j.at = "lockCase" /\ cases[j.case] # NoCase
       ELSE /\ j.case = job[r].case
            /\ j.at = "insertCase" <=> Creating(r)
            /\ j.at # "readExpected"
    /\ j.at \in CaseStages => cases[j.case].status = "unresolved"
    /\ j.at = "insertAdjustment" => cases[j.case].observed # j.current

JobMoves(r, j) ==
    /\ job' = [job EXCEPT ![r] = j]
    /\ locks' = ReleasedBy(locks, r) \cup JobLocks(r, j, cases[j.case])
    /\ \A l \in JobLocks(r, j, cases[j.case]) : l \in locks \/ Grantable(locks, l.row, l.mode, r)
    /\ j = NoJob \/ Follows(r, j)

LEMMA JobHolds ==
  ASSUME LocksExact, NEW r \in CaseRequests
  PROVE  locks = ReleasedBy(locks, r) \cup JobLocks(r, job[r], cases[job[r].case])
<1>1. r \in TxRequests /\ HeldBy(r) = JobLocks(r, job[r], cases[job[r].case])
  BY CaseRequestsAreDistinct DEF TxRequests, HeldBy
<1>2. QED
  BY <1>1 DEF LocksExact, ReleasedBy

LEMMA EndMoves ==
  ASSUME NEW r \in CaseRequests, End(r)
  PROVE  JobMoves(r, NoJob)
  BY DEF End, JobMoves, JobLocks, NoJob, CaseStages

LEMMA TakeMoves ==
  ASSUME LocksExact, NEW r \in CaseRequests, NEW j, Take(r, j), j.at \notin CaseStages, Follows(r, j)
  PROVE  JobMoves(r, j)
<1>1. JobLocks(r, j, cases[j.case]) = {} /\ JobLocks(r, NoJob, cases[NoJob.case]) = {}
  BY DEF JobLocks, NoJob, CaseStages
<1>2. QED
  BY <1>1, JobHolds DEF Take, JobMoves

LEMMA CaseMoves ==
  ASSUME MoneyTypes, CasesStand, LocksExact, ReconciliationNext
  PROVE  \E r \in CaseRequests, j \in Jobs :
            /\ JobMoves(r, j)
            /\ \/ UNCHANGED <<cases, adjusted>>
               \/ j = NoJob /\ (InsertCase(r) \/ CloseCase(r))
<1> DEFINE Goal(r) == \E j \in Jobs :
              /\ JobMoves(r, j)
              /\ \/ UNCHANGED <<cases, adjusted>>
                 \/ j = NoJob /\ (InsertCase(r) \/ CloseCase(r))
<1>0. NoJob \in Jobs
  BY DEF Jobs
<1>1. ASSUME NEW r \in CaseRequests, NEW w \in Wallets, NEW o \in Observed, NEW c \in Cases,
             CreateReconciliation(r, w, o, c)
      PROVE  Goal(r)
  <2> DEFINE j == [at |-> "readExpected", case |-> c, wallet |-> w, observed |-> o, expected |-> 0]
  <2>1. j \in Jobs /\ j.at = "readExpected" /\ j.case = c
    BY DEF Jobs
  <2>2. Take(r, j) /\ cases[c] = NoCase /\ UNCHANGED <<cases, adjusted>>
    BY <1>1 DEF CreateReconciliation, Take
  <2>3. \A q \in CaseRequests : job[q] # NoJob => job[q].case # c
    BY <1>1 DEF CreateReconciliation
  <2> HIDE DEF j
  <2>4. Follows(r, j)
    BY <2>1, <2>2, <2>3 DEF Follows, Take, CaseStages
  <2>5. JobMoves(r, j)
    BY <2>1, <2>2, <2>4, TakeMoves DEF CaseStages
  <2>6. QED
    BY <2>1, <2>2, <2>5
<1>2. ASSUME NEW r \in CaseRequests, NEW c \in Cases, ResolveReconciliation(r, c) PROVE Goal(r)
  <2> DEFINE j == [at |-> "lockCase", case |-> c, current |-> 0]
  <2>1. j \in Jobs /\ j.at = "lockCase" /\ j.case = c
    BY DEF Jobs
  <2>2. Take(r, j) /\ cases[c] # NoCase /\ UNCHANGED <<cases, adjusted>>
    BY <1>2 DEF ResolveReconciliation, Take
  <2> HIDE DEF j
  <2>3. Follows(r, j)
    BY <2>1, <2>2 DEF Follows, Take, CaseStages
  <2>4. JobMoves(r, j)
    BY <2>1, <2>2, <2>3, TakeMoves DEF CaseStages
  <2>5. QED
    BY <2>1, <2>2, <2>4
<1>3. ASSUME NEW r \in CaseRequests, ReadExpected(r) PROVE Goal(r)
  <2> DEFINE j == [job[r] EXCEPT !.at = "insertCase", !.expected = PhysicalBalance(job[r].wallet)]
  <2>1. job[r] \in CreatingJobs /\ Creating(r) /\ job[r] # NoJob /\ job[r].at = "readExpected"
    BY <1>3, JobFields DEF ReadExpected, Creating, NoJob
  <2>2. PhysicalBalance(job[r].wallet) \in Int
    BY <2>1, PhysicalIsInt DEF CreatingJobs
  <2>3. j \in CreatingJobs /\ j.at = "insertCase" /\ j.case = job[r].case
    BY <2>1, <2>2 DEF CreatingJobs
  <2>4. job' = [job EXCEPT ![r] = j] /\ UNCHANGED <<cases, adjusted, locks>>
    BY <1>3 DEF ReadExpected
  <2> HIDE DEF j
  <2>5. JobLocks(r, j, cases[j.case]) = {} /\ JobLocks(r, job[r], cases[job[r].case]) = {}
    BY <2>1, <2>3 DEF JobLocks, CaseStages
  <2>6. Follows(r, j)
    BY <2>1, <2>3 DEF Follows, CaseStages
  <2>7. JobMoves(r, j)
    BY <2>4, <2>5, <2>6, JobHolds DEF JobMoves
  <2>8. QED
    BY <2>3, <2>4, <2>7 DEF Jobs, CreatingJobs
<1>4. ASSUME NEW r \in CaseRequests, InsertCase(r) \/ CloseCase(r) PROVE Goal(r)
  BY <1>0, <1>4, EndMoves DEF InsertCase, CloseCase
<1>5. ASSUME NEW r \in CaseRequests, AbortJob(r) PROVE Goal(r)
  BY <1>0, <1>5, EndMoves DEF AbortJob
<1>6. ASSUME NEW r \in CaseRequests, LockCase(r) PROVE Goal(r)
  <2>1. CASE End(r)
    BY <1>0, <1>6, <2>1, EndMoves DEF LockCase
  <2>2. CASE ~End(r)
    <3> DEFINE j == [job[r] EXCEPT !.at = "readCurrent"]
    <3>1. /\ Grantable(locks, job[r].case, "Update", r)
          /\ job[r].at = "lockCase" /\ cases[job[r].case].status = "unresolved"
          /\ locks' = locks \cup {Lock(job[r].case, "Update", r)}
          /\ job' = [job EXCEPT ![r].at = "readCurrent"] /\ UNCHANGED <<cases, adjusted>>
      BY <1>6, <2>2 DEF LockCase, Continue
    <3>2. job[r] \in ResolvingJobs /\ job[r] # NoJob /\ ~Creating(r)
      BY <3>1, JobFields DEF NoJob, Creating
    <3>3. j \in ResolvingJobs /\ j.at = "readCurrent" /\ j.case = job[r].case
      BY <3>2 DEF ResolvingJobs
    <3>4. job' = [job EXCEPT ![r] = j]
      BY <3>1
    <3> HIDE DEF j
    <3>5. /\ JobLocks(r, j, cases[j.case]) = {Lock(job[r].case, "Update", r)}
          /\ JobLocks(r, job[r], cases[job[r].case]) = {}
      BY <3>1, <3>3 DEF JobLocks, CaseStages
    <3>6. locks' = ReleasedBy(locks, r) \cup JobLocks(r, j, cases[j.case])
      BY <3>1, <3>5, JobHolds
    <3>7. \A l \in JobLocks(r, j, cases[j.case]) : Grantable(locks, l.row, l.mode, r)
      BY <3>1, <3>5 DEF Lock
    <3>8. Follows(r, j)
      BY <3>1, <3>2, <3>3 DEF Follows, CaseStages
    <3>9. QED
      BY <3>1, <3>3, <3>4, <3>6, <3>7, <3>8 DEF JobMoves, Jobs, ResolvingJobs
  <2>3. QED
    BY <2>1, <2>2
<1>7. ASSUME NEW r \in CaseRequests, ReadCurrent(r) PROVE Goal(r)
  <2> DEFINE row == cases[job[r].case]
             now == PhysicalBalance(row.wallet)
  <2>1. /\ job[r].at = "readCurrent" /\ UNCHANGED <<cases, adjusted, locks>>
        /\ job[r] \in ResolvingJobs /\ job[r] # NoJob /\ ~Creating(r)
        /\ row.status = "unresolved" /\ job[r].case \in Cases
    BY <1>7, JobFields DEF ReadCurrent, CaseStages, CasesStand, NoJob, Creating
  <2>2. now \in Int
    BY <2>1, CaseFields, PhysicalIsInt
  <2>3. PICK at \in {"closeCase", "insertAdjustment"} :
          /\ job' = [job EXCEPT ![r].current = now, ![r].at = at]
          /\ at = "closeCase" <=> row.observed = now
    BY <1>7 DEF ReadCurrent
  <2> DEFINE j == [job[r] EXCEPT !.current = now, !.at = at]
  <2> HIDE DEF now
  <2>4. j \in ResolvingJobs /\ j.at = at /\ j.case = job[r].case /\ j.current = now
    BY <2>1, <2>2 DEF ResolvingJobs
  <2>5. job' = [job EXCEPT ![r] = j]
    BY <2>3
  <2> HIDE DEF j
  <2>6. /\ JobLocks(r, j, cases[j.case]) = {Lock(job[r].case, "Update", r)}
        /\ JobLocks(r, job[r], cases[job[r].case]) = {Lock(job[r].case, "Update", r)}
    BY <2>1, <2>3, <2>4 DEF JobLocks, CaseStages
  <2>7. Follows(r, j)
    BY <2>1, <2>3, <2>4 DEF Follows, CaseStages
  <2>8. JobMoves(r, j)
    BY <2>1, <2>5, <2>6, <2>7, JobHolds DEF JobMoves
  <2>9. QED
    BY <2>1, <2>4, <2>8 DEF Jobs, ResolvingJobs
<1>8. ASSUME NEW r \in CaseRequests, InsertAdjustment(r) PROVE Goal(r)
  <2> DEFINE row == cases[job[r].case]
             j == [job[r] EXCEPT !.at = "closeCase"]
  <2>1. /\ job[r].at = "insertAdjustment" /\ UNCHANGED <<cases, adjusted>>
        /\ Grantable(locks, row.wallet, "KeyShare", r)
        /\ locks' = locks \cup {Lock(row.wallet, "KeyShare", r)}
        /\ job' = [job EXCEPT ![r].at = "closeCase"]
    BY <1>8 DEF InsertAdjustment, Continue
  <2>2. /\ job[r] \in ResolvingJobs /\ job[r] # NoJob /\ ~Creating(r)
        /\ row.status = "unresolved" /\ row.observed # job[r].current
    BY <2>1, JobFields DEF CaseStages, CasesStand, NoJob, Creating
  <2>3. j \in ResolvingJobs /\ j.at = "closeCase" /\ j.case = job[r].case /\ j.current = job[r].current
    BY <2>2 DEF ResolvingJobs
  <2>4. job' = [job EXCEPT ![r] = j]
    BY <2>1
  <2> HIDE DEF j
  <2>5. /\ JobLocks(r, j, cases[j.case]) = {Lock(job[r].case, "Update", r), Lock(row.wallet, "KeyShare", r)}
        /\ JobLocks(r, job[r], cases[job[r].case]) = {Lock(job[r].case, "Update", r)}
    BY <2>1, <2>2, <2>3 DEF JobLocks, CaseStages
  <2>6. locks' = ReleasedBy(locks, r) \cup JobLocks(r, j, cases[j.case])
    BY <2>1, <2>5, JobHolds
  <2>7. \A l \in JobLocks(r, j, cases[j.case]) : l \in locks \/ Grantable(locks, l.row, l.mode, r)
    BY <2>1, <2>5, JobHolds DEF Lock
  <2>8. Follows(r, j)
    BY <2>2, <2>3 DEF Follows, CaseStages
  <2>9. QED
    BY <2>1, <2>3, <2>4, <2>6, <2>7, <2>8 DEF JobMoves, Jobs, ResolvingJobs
<1>9. QED
  BY <1>1, <1>2, <1>3, <1>4, <1>5, <1>6, <1>7, <1>8 DEF ReconciliationNext, JobStep

-----------------------------------------------------------------------------
(***************************************************************************)
(* The rows of the cases.                                                  *)
(***************************************************************************)
\* Closing a case sets its status and its adjustment, and nothing else of it.
LEMMA ClosedRow ==
  ASSUME MoneyTypes, CasesStand, NEW r \in CaseRequests, CloseCase(r)
  PROVE  LET c == job[r].case IN
         /\ c \in Cases /\ cases[c].status = "unresolved" /\ cases[c] \in CaseRows
         /\ Remaining(r) \in Int
         /\ cases'[c] = [cases[c] EXCEPT !.status = "reconciled", !.adjustment = Remaining(r)]
         /\ \A d \in Cases : d # c => cases'[d] = cases[d]
<1> DEFINE c == job[r].case
<1>1. job[r] \in ResolvingJobs /\ cases[c].status = "unresolved"
  BY JobFields DEF CloseCase, CasesStand, CaseStages
<1>2. c \in Cases /\ job[r].current \in Int
  BY <1>1 DEF ResolvingJobs
<1>3. cases[c] \in CaseRows /\ cases[c].observed \in Int
  BY <1>1, <1>2, CaseFields
<1>4. Remaining(r) \in Int
  BY <1>2, <1>3 DEF Remaining
<1> DEFINE row == [cases[c] EXCEPT !.status = "reconciled", !.adjustment = Remaining(r)]
<1>5. cases' = [cases EXCEPT ![c] = row]
  BY DEF CloseCase
<1> HIDE DEF row
<1>6. cases'[c] = row /\ \A d \in Cases : d # c => cases'[d] = cases[d]
  BY <1>2, <1>5 DEF MoneyTypes, ReconciliationTypeOK
<1>7. QED
  BY <1>1, <1>2, <1>3, <1>4, <1>6 DEF row

\* A case is created by one request, under an id that no case has yet.
LEMMA InsertedRow ==
  ASSUME MoneyTypes, CasesStand, NEW r \in CaseRequests, InsertCase(r)
  PROVE  LET c == job[r].case IN
         /\ c \in Cases /\ cases[c] = NoCase
         /\ cases'[c] \in CaseRows /\ cases'[c].adjustment = NoAdjustment
         /\ \A d \in Cases : d # c => cases'[d] = cases[d]
         /\ adjusted' = adjusted
<1> DEFINE c == job[r].case
           row == [status |-> IF job[r].observed = job[r].expected THEN "reconciled" ELSE "unresolved",
                   wallet |-> job[r].wallet, observed |-> job[r].observed,
                   expected |-> job[r].expected, adjustment |-> NoAdjustment]
<1>1. job[r] \in CreatingJobs /\ cases[c] = NoCase
  BY JobFields DEF InsertCase, CasesStand, Creating
<1>2. c \in Cases /\ row \in CaseRows /\ row.adjustment = NoAdjustment
  BY <1>1 DEF CreatingJobs, CaseRows, NoAdjustment
<1>3. cases' = [cases EXCEPT ![c] = row] /\ adjusted' = adjusted
  BY DEF InsertCase
<1> HIDE DEF row
<1>4. cases'[c] = row /\ \A d \in Cases : d # c => cases'[d] = cases[d]
  BY <1>2, <1>3 DEF MoneyTypes, ReconciliationTypeOK
<1>5. QED
  BY <1>1, <1>2, <1>3, <1>4

\* What CasesSettleOnce says of one step.
Settles ==
  \A c \in Cases : cases[c] # NoCase =>
      /\ cases'[c] # NoCase
      /\ [cases'[c] EXCEPT !.status = "", !.adjustment = 0]
            = [cases[c] EXCEPT !.status = "", !.adjustment = 0]
      /\ cases[c].status = "reconciled" => cases'[c] = cases[c]

LEMMA SettlesStep ==
  ASSUME MoneyInv, [MoneyNext]_moneyVars
  PROVE  Settles
<1>0. MoneyTypes /\ CasesStand /\ LocksExact
  BY DEF MoneyInv
<1>1. CASE UNCHANGED cases
  BY <1>1 DEF Settles
<1>2. ASSUME NEW r \in CaseRequests, InsertCase(r) PROVE Settles
  BY <1>0, <1>2, InsertedRow DEF Settles
<1>3. ASSUME NEW r \in CaseRequests, CloseCase(r) PROVE Settles
  <2> DEFINE c == job[r].case
  <2>1. /\ c \in Cases /\ cases[c].status = "unresolved" /\ cases[c] \in CaseRows
        /\ cases'[c] = [cases[c] EXCEPT !.status = "reconciled", !.adjustment = Remaining(r)]
        /\ \A d \in Cases : d # c => cases'[d] = cases[d]
    BY <1>0, <1>3, ClosedRow
  <2>2. cases'[c] # NoCase
    BY <2>1 DEF CaseRows, NoCase
  <2>3. [cases'[c] EXCEPT !.status = "", !.adjustment = 0]
            = [cases[c] EXCEPT !.status = "", !.adjustment = 0]
    BY <2>1 DEF CaseRows
  <2>4. QED
    BY <2>1, <2>2, <2>3 DEF Settles
<1>4. CASE ReconciliationNext
  BY <1>0, <1>1, <1>2, <1>3, <1>4, CaseMoves
<1>5. QED
  BY <1>1, <1>4 DEF MoneyNext, moneyVars, caseVars

\* A request's case stays as it is while others work: a case that is being
\* created is nobody else's, and one that is locked is locked by one.
LEMMA OthersCases ==
  ASSUME MoneyTypes, CasesStand, LocksExact, LocksAgree,
         NEW r \in CaseRequests, InsertCase(r) \/ CloseCase(r),
         NEW s \in CaseRequests, s # r,
         Creating(s) \/ job[s].at \in CaseStages
  PROVE  cases'[job[s].case] = cases[job[s].case]
<1>1. job[s] # NoJob /\ job[s].case \in Cases /\ job[r] # NoJob
  BY JobFields DEF Creating, CaseStages, NoJob, InsertCase, CloseCase
<1>2. SUFFICES job[s].case # job[r].case
  BY <1>1, InsertedRow, ClosedRow
<1>3. CASE Creating(s)
  BY <1>1, <1>3 DEF CasesStand
<1>4. CASE InsertCase(r)
  <2>1. Creating(r)
    BY <1>4 DEF InsertCase, Creating
  <2>2. QED
    BY <1>1, <2>1 DEF CasesStand
<1>5. CASE CloseCase(r) /\ job[s].at \in CaseStages
  <2>1. /\ Lock(job[s].case, "Update", s) \in locks
        /\ Lock(job[r].case, "Update", r) \in locks
    BY <1>5, JobHolds DEF CloseCase, JobLocks, CaseStages
  <2>2. QED
    BY <2>1 DEF LocksAgree, Lock, Conflicts
<1>6. QED
  BY <1>3, <1>4, <1>5

LEMMA CasesStandStep ==
  ASSUME MoneyInv, [MoneyNext]_moneyVars
  PROVE  CasesStand'
<1>0. MoneyTypes /\ CasesStand /\ LocksExact /\ LocksAgree
  BY DEF MoneyInv
<1>1. CASE UNCHANGED <<cases, job>>
  BY <1>0, <1>1 DEF CasesStand, Creating
<1>2. CASE ReconciliationNext
  <2>1. PICK r \in CaseRequests, j \in Jobs :
          /\ JobMoves(r, j)
          /\ \/ UNCHANGED <<cases, adjusted>>
             \/ j = NoJob /\ (InsertCase(r) \/ CloseCase(r))
    BY <1>0, <1>2, CaseMoves
  <2>2. job'[r] = j /\ \A q \in CaseRequests : q # r => job'[q] = job[q]
    BY <1>0, <2>1 DEF JobMoves, MoneyTypes, ReconciliationTypeOK
  <2>3. j = NoJob \/ (Follows(r, j) /\ UNCHANGED cases)
    BY <2>1 DEF JobMoves
  <2>4. NoJob.at \notin CaseStages \cup {"readExpected", "insertCase"}
    BY DEF NoJob, CaseStages
  <2>5. ASSUME NEW s \in CaseRequests, Creating(s)'
        PROVE  /\ cases'[job'[s].case] = NoCase
               /\ \A q \in CaseRequests : q # s /\ job'[q] # NoJob => job'[q].case # job'[s].case
    <3>1. CASE s = r
      <4>1. Follows(r, j) /\ UNCHANGED cases /\ j.at \in {"readExpected", "insertCase"}
        BY <2>2, <2>3, <2>4, <2>5, <3>1 DEF Creating
      <4>2. CASE job[r] = NoJob
        BY <2>2, <3>1, <4>1, <4>2 DEF Follows
      <4>3. CASE job[r] # NoJob
        <5>1. Creating(r) /\ j.case = job[r].case
          BY <4>1, <4>3 DEF Follows
        <5>2. QED
          BY <1>0, <2>2, <3>1, <4>1, <5>1 DEF CasesStand
      <4>4. QED
        BY <4>2, <4>3
    <3>2. CASE s # r
      <4>1. Creating(s) /\ job'[s] = job[s] /\ cases[job[s].case] = NoCase
        BY <1>0, <2>2, <2>5, <3>2 DEF Creating, CasesStand
      <4>2. cases'[job[s].case] = cases[job[s].case]
        BY <1>0, <2>1, <3>2, <4>1, OthersCases
      <4>3. j # NoJob => j.case # job[s].case
        <5>1. CASE job[r] # NoJob
          BY <1>0, <2>3, <3>2, <4>1, <5>1 DEF Follows, CasesStand
        <5>2. CASE job[r] = NoJob
          <6>1. job[s] # NoJob
            BY <4>1, <2>4 DEF Creating
          <6>2. QED
            BY <2>3, <4>1, <5>2, <6>1 DEF Follows
        <5>3. QED
          BY <5>1, <5>2
      <4>4. QED
        BY <1>0, <2>2, <3>2, <4>1, <4>2, <4>3 DEF CasesStand
    <3>3. QED
      BY <3>1, <3>2
  <2>6. ASSUME NEW s \in CaseRequests, job'[s].at \in CaseStages
        PROVE  /\ cases'[job'[s].case].status = "unresolved"
               /\ job'[s].at = "insertAdjustment" =>
                    cases'[job'[s].case].observed # job'[s].current
    <3>1. CASE s = r
      BY <2>2, <2>3, <2>4, <2>6, <3>1 DEF Follows
    <3>2. CASE s # r
      <4>1. job'[s] = job[s] /\ cases'[job[s].case] = cases[job[s].case]
        BY <1>0, <2>1, <2>2, <2>6, <3>2, OthersCases
      <4>2. QED
        BY <1>0, <2>6, <4>1 DEF CasesStand
    <3>3. QED
      BY <3>1, <3>2
  <2>7. QED
    BY <2>5, <2>6 DEF CasesStand, CaseStages
<1>3. QED
  BY <1>1, <1>2 DEF MoneyNext, moneyVars, caseVars

LEMMA MoneyTypesStep ==
  ASSUME MoneyInv, [MoneyNext]_moneyVars
  PROVE  MoneyTypes'
<1>0. MoneyTypes /\ CasesStand /\ LocksExact
  BY DEF MoneyInv
<1>1. CASE ReconciliationNext /\ UNCHANGED goalVars
  <2>1. PICK r \in CaseRequests, j \in Jobs :
          /\ JobMoves(r, j)
          /\ \/ UNCHANGED <<cases, adjusted>>
             \/ j = NoJob /\ (InsertCase(r) \/ CloseCase(r))
    BY <1>0, <1>1, CaseMoves
  <2>2. job' \in [CaseRequests -> Jobs]
    BY <1>0, <2>1 DEF JobMoves, MoneyTypes, ReconciliationTypeOK
  <2>3. LedgerTypeOK' /\ UNCHANGED task
    BY <1>0, <1>1, LedgerTypeStutter DEF ReconciliationNext, MoneyTypes, goalVars
  <2>4. cases' \in [Cases -> CaseRows \cup {NoCase}] /\ adjusted' \in [Wallets -> Int]
    <3>1. CASE UNCHANGED <<cases, adjusted>>
      BY <1>0, <3>1 DEF MoneyTypes, ReconciliationTypeOK
    <3>2. CASE InsertCase(r)
      <4>1. DOMAIN cases' = Cases /\ cases' = [c \in Cases |-> cases'[c]]
        BY <1>0, <3>2 DEF InsertCase, MoneyTypes, ReconciliationTypeOK
      <4>2. \A c \in Cases : cases'[c] \in CaseRows \cup {NoCase}
        BY <1>0, <3>2, InsertedRow DEF MoneyTypes, ReconciliationTypeOK
      <4>3. QED
        BY <1>0, <3>2, <4>1, <4>2, InsertedRow DEF MoneyTypes, ReconciliationTypeOK
    <3>3. CASE CloseCase(r)
      <4>1. /\ job[r].case \in Cases /\ cases[job[r].case] \in CaseRows /\ Remaining(r) \in Int
            /\ cases'[job[r].case] =
                  [cases[job[r].case] EXCEPT !.status = "reconciled", !.adjustment = Remaining(r)]
            /\ \A d \in Cases : d # job[r].case => cases'[d] = cases[d]
        BY <1>0, <3>3, ClosedRow
      <4>2. cases'[job[r].case] \in CaseRows
        BY <4>1 DEF CaseRows
      <4>3. DOMAIN cases' = Cases /\ cases' = [c \in Cases |-> cases'[c]]
        BY <1>0, <3>3 DEF CloseCase, MoneyTypes, ReconciliationTypeOK
      <4>4. \A c \in Cases : cases'[c] \in CaseRows \cup {NoCase}
        BY <1>0, <4>1, <4>2 DEF MoneyTypes, ReconciliationTypeOK
      <4>5. cases[job[r].case].wallet \in Wallets
        BY <4>1 DEF CaseRows
      <4>6. adjusted' = [adjusted EXCEPT ![cases[job[r].case].wallet] = @ + Remaining(r)]
        BY <3>3 DEF CloseCase
      <4>7. adjusted' \in [Wallets -> Int]
        BY <1>0, <4>1, <4>5, <4>6 DEF MoneyTypes, ReconciliationTypeOK
      <4>8. QED
        BY <4>3, <4>4, <4>7
    <3>4. QED
      BY <2>1, <3>1, <3>2, <3>3
  <2>5. QED
    BY <1>0, <2>2, <2>3, <2>4 DEF MoneyTypes, ReconciliationTypeOK
<1>2. CASE FundsNext /\ UNCHANGED caseVars
  <2>1. ReconciliationTypeOK'
    BY <1>0, <1>2 DEF caseVars, MoneyTypes, ReconciliationTypeOK
  <2>2. CASE GoalNext
    <3>1. LedgerTypeOK'
      BY <1>0, <2>2, LedgerTypeStutter DEF GoalNext, MoneyTypes
    <3>2. task' \in [GoalRequests -> Tasks]
      BY <1>0, <2>2, GoalMoves DEF TaskMoves, MoneyTypes
    <3>3. QED
      BY <2>1, <3>1, <3>2 DEF MoneyTypes
  <2>3. CASE LedgerNext /\ UNCHANGED goalVars
    BY <1>0, <2>1, <2>3, LedgerTypeStep DEF MoneyTypes, goalVars
  <2>4. QED
    BY <1>2, <2>2, <2>3 DEF FundsNext
<1>3. CASE UNCHANGED moneyVars
  BY <1>0, <1>3, LedgerTypeStutter DEF moneyVars, goalVars, caseVars, MoneyTypes, ReconciliationTypeOK
<1>4. QED
  BY <1>1, <1>2, <1>3 DEF MoneyNext

-----------------------------------------------------------------------------
(***************************************************************************)
(* The lock table.                                                         *)
(***************************************************************************)
\* One request exchanges its locks for others that nobody's conflict with.
LEMMA LocksChange ==
  ASSUME LocksExact, LocksAgree, NEW r \in TxRequests, NEW L,
         locks' = ReleasedBy(locks, r) \cup L, HeldBy(r)' = L,
         \A l \in L : l.by = r /\ (l \in locks \/ Grantable(locks, l.row, l.mode, r)),
         \A s \in TxRequests : s # r => HeldBy(s)' = HeldBy(s)
  PROVE  LocksExact' /\ LocksAgree'
<1>1. ASSUME NEW l \in locks' PROVE l.by \in TxRequests /\ l \in HeldBy(l.by)'
  <2>1. CASE l \in L
    BY <2>1
  <2>2. CASE l \in locks /\ l.by # r
    BY <2>2 DEF LocksExact
  <2>3. QED
    BY <1>1, <2>1, <2>2 DEF ReleasedBy
<1>2. ASSUME NEW s \in TxRequests PROVE HeldBy(s)' \subseteq locks'
  <2>1. CASE s = r
    BY <2>1
  <2>2. CASE s # r
    <3>1. \A l \in HeldBy(s) : l.by = s
      BY DEF HeldBy, TaskLocks, JobLocks, Lock
    <3>2. QED
      BY <2>2, <3>1 DEF LocksExact, ReleasedBy
  <2>3. QED
    BY <2>1, <2>2
<1>3. ASSUME NEW k \in locks', NEW l \in locks', k.row = l.row, k.by # l.by
      PROVE  ~Conflicts(k.mode, l.mode)
  <2>1. \A m \in locks' : (m \in locks /\ m.by # r) \/ m \in L
    BY DEF ReleasedBy
  <2>2. CASE k \in locks /\ l \in locks
    BY <1>3, <2>2 DEF LocksAgree
  <2>3. CASE k \notin locks
    <3>1. k.by = r /\ Grantable(locks, k.row, k.mode, r) /\ l \in locks /\ l.by # r
      BY <1>3, <2>1, <2>3
    <3>2. QED
      BY <1>3, <3>1 DEF Grantable, Conflicts
  <2>4. CASE l \notin locks
    <3>1. l.by = r /\ Grantable(locks, l.row, l.mode, r) /\ k \in locks /\ k.by # r
      BY <1>3, <2>1, <2>4
    <3>2. QED
      BY <1>3, <3>1 DEF Grantable, Conflicts
  <2>5. QED
    BY <2>2, <2>3, <2>4
<1>4. QED
  BY <1>1, <1>2, <1>3 DEF LocksExact, LocksAgree

LEMMA LocksStep ==
  ASSUME MoneyInv, [MoneyNext]_moneyVars
  PROVE  LocksExact' /\ LocksAgree'
<1>0. MoneyTypes /\ CasesStand /\ LocksExact /\ LocksAgree
  BY DEF MoneyInv
<1>1. CASE UNCHANGED <<task, job, cases, locks>>
  BY <1>0, <1>1 DEF LocksExact, LocksAgree, HeldBy
<1>2. CASE GoalNext /\ UNCHANGED caseVars
  <2>1. CASE UNCHANGED <<task, locks>>
    BY <1>1, <1>2, <2>1 DEF caseVars
  <2>2. ASSUME NEW r \in GoalRequests, NEW t \in Tasks, TaskMoves(r, t)
        PROVE  LocksExact' /\ LocksAgree'
    <3>1. r \in TxRequests /\ UNCHANGED <<job, cases>>
      BY <1>2 DEF TxRequests, caseVars
    <3>2. task'[r] = t /\ \A s \in GoalRequests : s # r => task'[s] = task[s]
      BY <1>0, <2>2 DEF TaskMoves, MoneyTypes
    <3>3. HeldBy(r)' = TaskLocks(r, t) /\ \A l \in TaskLocks(r, t) : l.by = r
      BY <3>2 DEF HeldBy, TaskLocks, Lock
    <3>4. \A s \in TxRequests : s # r => HeldBy(s)' = HeldBy(s)
      BY <3>1, <3>2 DEF HeldBy
    <3>5. QED
      BY <1>0, <2>2, <3>1, <3>3, <3>4, LocksChange DEF TaskMoves
  <2>3. QED
    BY <1>0, <1>2, <2>1, <2>2, GoalMoves
<1>3. CASE ReconciliationNext /\ UNCHANGED goalVars
  <2>1. PICK r \in CaseRequests, j \in Jobs :
          /\ JobMoves(r, j)
          /\ \/ UNCHANGED <<cases, adjusted>>
             \/ j = NoJob /\ (InsertCase(r) \/ CloseCase(r))
    BY <1>0, <1>3, CaseMoves
  <2>2. r \in TxRequests /\ r \notin GoalRequests /\ task' = task
    BY <1>3, CaseRequestsAreDistinct DEF TxRequests, goalVars
  <2>3. job'[r] = j /\ \A q \in CaseRequests : q # r => job'[q] = job[q]
    BY <1>0, <2>1 DEF JobMoves, MoneyTypes, ReconciliationTypeOK
  <2> DEFINE L == JobLocks(r, j, cases[j.case])
  <2>4. L = JobLocks(r, j, cases'[j.case])
    BY <2>1 DEF JobLocks, NoJob, CaseStages
  <2>5. HeldBy(r)' = L /\ \A l \in L : l.by = r
    BY <2>2, <2>3, <2>4 DEF HeldBy, JobLocks, Lock
  <2>6. ASSUME NEW s \in TxRequests, s # r PROVE HeldBy(s)' = HeldBy(s)
    <3>1. CASE s \in GoalRequests
      BY <2>2, <3>1 DEF HeldBy
    <3>2. CASE s \notin GoalRequests
      <4>1. s \in CaseRequests /\ job'[s] = job[s]
        BY <2>3, <2>6, <3>2 DEF TxRequests
      <4>2. CASE job[s].at \notin CaseStages
        BY <3>2, <4>1, <4>2 DEF HeldBy, JobLocks, CaseStages
      <4>3. CASE job[s].at \in CaseStages
        <5>1. cases'[job[s].case] = cases[job[s].case]
          BY <1>0, <2>1, <2>6, <4>1, <4>3, OthersCases
        <5>2. QED
          BY <3>2, <4>1, <5>1 DEF HeldBy
      <4>4. QED
        BY <4>2, <4>3
    <3>3. QED
      BY <3>1, <3>2
  <2>7. /\ locks' = ReleasedBy(locks, r) \cup L
        /\ \A l \in L : l \in locks \/ Grantable(locks, l.row, l.mode, r)
    BY <2>1 DEF JobMoves
  <2> HIDE DEF L
  <2>8. QED
    BY <1>0, <2>2, <2>5, <2>6, <2>7, LocksChange
<1>4. CASE LedgerNext /\ UNCHANGED goalVars /\ UNCHANGED caseVars
  BY <1>1, <1>4 DEF LedgerNext, goalVars, caseVars
<1>5. CASE UNCHANGED moneyVars
  BY <1>1, <1>5 DEF moneyVars, goalVars, caseVars
<1>6. QED
  BY <1>2, <1>3, <1>4, <1>5 DEF MoneyNext, FundsNext

LEMMA MoneyInvInit == MoneyInit => MoneyInv
<1> SUFFICES ASSUME MoneyInit PROVE MoneyInv
  OBVIOUS
<1>1. MoneyTypes
  BY LedgerTypeInit DEF MoneyInit, FundsInit, GoalInit, ReconciliationInit, MoneyTypes,
     ReconciliationTypeOK, Tasks, Jobs
<1>2. CasesStand
  BY DEF MoneyInit, ReconciliationInit, CasesStand, Creating, CaseStages, NoJob
<1>3. locks = {} /\ \A r \in TxRequests : HeldBy(r) = {}
  BY DEF MoneyInit, FundsInit, GoalInit, ReconciliationInit, TxRequests, HeldBy, TaskLocks,
     JobLocks, NoTask, NoJob, GoalStages, WalletStages, CaseStages
<1>4. QED
  BY <1>1, <1>2, <1>3 DEF MoneyInv, LocksExact, LocksAgree

LEMMA MoneyInvStep == MoneyInv /\ [MoneyNext]_moneyVars => MoneyInv'
  BY MoneyTypesStep, CasesStandStep, LocksStep DEF MoneyInv

LEMMA MoneyInvariant == MoneySpec => []MoneyInv
  BY MoneyInvInit, MoneyInvStep, PTL DEF MoneySpec

-----------------------------------------------------------------------------
\* Adjustments, cases and jobs keep their types beside goals and ledger.
THEOREM ReconciliationTypes == MoneySpec => []ReconciliationTypeOK
<1>1. MoneyInv => ReconciliationTypeOK
  BY DEF MoneyInv, MoneyTypes
<1>2. QED
  BY <1>1, MoneyInvariant, PTL

\* No step rewrites what was observed and expected, and none touches a case
\* that is reconciled, whoever resolves it at the same time: the FOR UPDATE of
\* reconciliation_service.go:91 and the status it reads.
THEOREM CasesAlwaysSettle == MoneySpec => CasesSettleOnce
<1>1. MoneyInv /\ [MoneyNext]_moneyVars => [Settles]_cases
  BY SettlesStep
<1>2. QED
  BY <1>1, MoneyInvariant, PTL DEF MoneySpec, CasesSettleOnce, Settles

\* What AdjustmentsWaitForReservations says of one step.
AdjustmentsWait ==
  \A r \in GoalRequests : HasWallet(r) => adjusted'[task[r].wallet] = adjusted[task[r].wallet]

\* A case that is closed with an adjustment shares its wallet's row, which a
\* reservation has for itself.
LEMMA AdjustmentsWaitStep ==
  ASSUME MoneyInv, [MoneyNext]_moneyVars
  PROVE  AdjustmentsWait
<1>0. MoneyTypes /\ CasesStand /\ LocksExact /\ LocksAgree
  BY DEF MoneyInv
<1>1. CASE UNCHANGED adjusted
  BY <1>1 DEF AdjustmentsWait
<1>2. ASSUME NEW q \in CaseRequests, CloseCase(q) PROVE AdjustmentsWait
  <2> DEFINE w == cases[job[q].case].wallet
  <2>1. SUFFICES ASSUME NEW r \in GoalRequests, HasWallet(r)
                 PROVE  adjusted'[task[r].wallet] = adjusted[task[r].wallet]
    BY DEF AdjustmentsWait
  <2>2. /\ adjusted' = [adjusted EXCEPT ![w] = @ + Remaining(q)]
        /\ job[q].at = "closeCase" /\ Remaining(q) \in Int
        /\ job[q].case \in Cases /\ cases[job[q].case].status = "unresolved"
    BY <1>0, <1>2, ClosedRow DEF CloseCase
  <2>3. /\ task[r].wallet \in Wallets /\ adjusted \in [Wallets -> Int]
        /\ cases[job[q].case].observed \in Int /\ job[q].current \in Int
    BY <1>0, <2>1, <2>2, TxFields, CaseFields, JobFields
       DEF HasWallet, TxSteps, MoneyTypes, ReconciliationTypeOK, CaseStages, ResolvingJobs
  <2>4. CASE task[r].wallet # w
    BY <2>2, <2>3, <2>4
  <2>5. CASE task[r].wallet = w
    <3>1. Lock(w, "Update", r) \in locks
      BY <1>0, <2>1, <2>5, TaskHolds DEF HasWallet, TaskLocks, WalletStages
    <3>2. CASE Remaining(q) = 0
      BY <2>2, <2>3, <3>2
    <3>3. CASE Remaining(q) # 0
      <4>1. cases[job[q].case].observed # job[q].current
        BY <2>3, <3>3 DEF Remaining
      <4>2. Lock(w, "KeyShare", q) \in locks
        BY <1>0, <2>2, <4>1, JobHolds DEF JobLocks
      <4>3. q # r
        BY CaseRequestsAreDistinct
      <4>4. QED
        BY <1>0, <3>1, <4>2, <4>3 DEF LocksAgree, Lock, Conflicts
    <3>4. QED
      BY <3>2, <3>3
  <2>6. QED
    BY <2>4, <2>5
<1>3. CASE ReconciliationNext
  <2>1. ASSUME NEW q \in CaseRequests, InsertCase(q) PROVE UNCHANGED adjusted
    BY <2>1 DEF InsertCase
  <2>2. QED
    BY <1>0, <1>1, <1>2, <1>3, <2>1, CaseMoves
<1>4. QED
  BY <1>1, <1>3 DEF MoneyNext, moneyVars, caseVars

\* No adjustment appears in a wallet that a reservation or a release holds.
THEOREM AdjustmentsAlwaysWait == MoneySpec => AdjustmentsWaitForReservations
<1>1. MoneyInv /\ [MoneyNext]_moneyVars => [AdjustmentsWait]_adjusted
  BY AdjustmentsWaitStep
<1>2. QED
  BY <1>1, MoneyInvariant, PTL DEF MoneySpec, AdjustmentsWaitForReservations, AdjustmentsWait

-----------------------------------------------------------------------------
\* Nobody holds a lock and waits, but for a wallet; and who has a wallet waits
\* for nobody.
LEMMA HoldsAndWaits ==
  ASSUME MoneyInv, NEW l \in locks
  PROVE  /\ l.by \in TxRequests
         /\ \/ /\ l.by \in GoalRequests /\ task[l.by].at \in GoalStages
               /\ l.row \in Wallets => HasWallet(l.by)
            \/ /\ l.by \in CaseRequests /\ l.by \notin GoalRequests
               /\ job[l.by].at \in CaseStages
               /\ l.row \in Wallets => job[l.by].at = "closeCase"
<1>0. MoneyTypes /\ CasesStand /\ LocksExact
  BY DEF MoneyInv
<1>1. l.by \in TxRequests /\ l \in HeldBy(l.by)
  BY <1>0 DEF LocksExact
<1>2. CASE l.by \in GoalRequests
  <2>1. l \in TaskLocks(l.by, task[l.by])
    BY <1>1, <1>2 DEF HeldBy
  <2>2. task[l.by].at \in GoalStages /\ (l.row = task[l.by].goal \/ task[l.by].at \in WalletStages)
    BY <2>1 DEF TaskLocks, Lock, GoalStages, WalletStages
  <2>3. task[l.by].goal \in Goals
    BY <1>0, <1>2, <2>2, TxFields DEF GoalStages, TxSteps
  <2>4. QED
    BY <1>1, <1>2, <2>2, <2>3, RowsAreDistinct DEF HasWallet, WalletStages
<1>3. CASE l.by \notin GoalRequests
  <2>1. l.by \in CaseRequests /\ l \in JobLocks(l.by, job[l.by], cases[job[l.by].case])
    BY <1>1, <1>3 DEF HeldBy, TxRequests
  <2>2. job[l.by].at \in CaseStages /\ (l.row = job[l.by].case \/ job[l.by].at = "closeCase")
    BY <2>1 DEF JobLocks, Lock, CaseStages
  <2>3. job[l.by].case \in Cases
    BY <1>0, <2>1, <2>2, JobFields DEF CaseStages, NoJob
  <2>4. QED
    BY <1>1, <1>3, <2>1, <2>2, <2>3, CasesAreRows
<1>4. QED
  BY <1>2, <1>3

LEMMA WaitsForHolder ==
  ASSUME NEW r, NEW b \in WaitsAmongAll(r)
  PROVE  \E l \in locks : /\ l.by = b
           /\ \/ r \in GoalRequests /\ task[r].at \in {"lockGoal", "updateGoal", "archiveGoal"}
              \/ r \in GoalRequests /\ task[r].at = "lockWallet" /\ l.row = task[r].wallet
              \/ r \notin GoalRequests /\ job[r].at = "lockCase"
              \/ r \notin GoalRequests /\ job[r].at = "insertCase" /\ l.row = job[r].wallet
              \/ /\ r \notin GoalRequests /\ job[r].at = "insertAdjustment"
                 /\ l.row = cases[job[r].case].wallet
  BY DEF WaitsAmongAll, WaitsFor, Blockers

\* In any set of requests one is not kept waiting by the others.
LEMMA MoneyLockOrder == MoneyInv => NoDeadlockAmongAll
<1> SUFFICES ASSUME MoneyInv, NEW S \in (SUBSET TxRequests) \ {{}},
                    \A r \in S : WaitsAmongAll(r) \cap S # {}
             PROVE  FALSE
  BY DEF NoDeadlockAmongAll
<1>0. MoneyTypes /\ CasesStand /\ S \subseteq TxRequests /\ S # {}
  BY DEF MoneyInv
<1>1. ASSUME NEW b \in S, b \in GoalRequests PROVE ~HasWallet(b)
  BY <1>1, WaitsForHolder DEF HasWallet
<1>2. ASSUME NEW b \in S, b \notin GoalRequests PROVE job[b].at \notin {"closeCase", "readCurrent"}
  BY <1>2, WaitsForHolder
<1>3. ASSUME NEW r \in S, r \in GoalRequests PROVE task[r].at # "lockWallet"
  <2>1. SUFFICES ASSUME task[r].at = "lockWallet" PROVE FALSE
    OBVIOUS
  <2>2. PICK b \in S, l \in locks : l.by = b /\ l.row = task[r].wallet
    BY <1>3, <2>1, WaitsForHolder
  <2>3. task[r].wallet \in Wallets
    BY <1>0, <1>3, <2>1, TxFields DEF TxSteps
  <2>4. QED
    BY <1>1, <1>2, <2>2, <2>3, HoldsAndWaits
<1>4. ASSUME NEW r \in S, r \notin GoalRequests PROVE job[r].at # "insertAdjustment"
  <2>1. SUFFICES ASSUME job[r].at = "insertAdjustment" PROVE FALSE
    OBVIOUS
  <2>2. PICK b \in S, l \in locks : l.by = b /\ l.row = cases[job[r].case].wallet
    BY <1>4, <2>1, WaitsForHolder
  <2>3. r \in CaseRequests /\ job[r].case \in Cases /\ cases[job[r].case].status = "unresolved"
    BY <1>0, <1>4, <2>1, JobFields DEF TxRequests, CasesStand, CaseStages, NoJob
  <2>4. cases[job[r].case].wallet \in Wallets
    BY <1>0, <2>3, CaseFields
  <2>5. QED
    BY <1>1, <1>2, <2>2, <2>4, HoldsAndWaits
<1>5. PICK r \in S : TRUE
  BY <1>0
<1>6. PICK b \in S, l \in locks : l.by = b
  BY <1>5, WaitsForHolder
<1>7. QED
  BY <1>1, <1>2, <1>3, <1>4, <1>6, HoldsAndWaits DEF GoalStages, CaseStages, HasWallet

\* No set of goal and reconciliation requests ever waits for itself: a goal and
\* a case before the wallet, and nothing after it.
THEOREM MoneyDeadlockFree == MoneySpec => []NoDeadlockAmongAll
  BY MoneyInvariant, MoneyLockOrder, PTL

-----------------------------------------------------------------------------
(***************************************************************************)
(* The adjustments add up to what the cases account for.                   *)
(***************************************************************************)
\* There are finitely many cases, and only a closed one has an adjustment.
AccountsStand ==
    /\ IsFiniteSet({c \in Cases : cases[c] # NoCase})
    /\ \A c \in Cases : cases[c].status = "unresolved" => cases[c].adjustment = NoAdjustment

AccountsInv == AccountsStand /\ AdjustmentsAccounted

CasesOf(w) == {c \in Cases : cases[c] # NoCase /\ cases[c].wallet = w}
AdjustmentOf == [c \in Cases |-> cases[c].adjustment]

LEMMA CasesAreFinite ==
  ASSUME AccountsStand, NEW w
  PROVE  IsFiniteSet(CasesOf(w))
<1>1. CasesOf(w) \subseteq {c \in Cases : cases[c] # NoCase}
  BY DEF CasesOf
<1>2. QED
  BY <1>1, FS_Subset DEF AccountsStand

\* A sum of a field over some of the rows.
LEMMA SumOfSelected ==
  ASSUME NEW T, NEW S \in SUBSET T, IsFiniteSet(S), NEW rows
  PROVE  SumFunction([c \in S |-> rows[c].adjustment])
           = SumFunctionOnSet([c \in T |-> rows[c].adjustment], S)
<1> DEFINE f == [c \in S |-> rows[c].adjustment]
           g == [c \in T |-> rows[c].adjustment]
<1>1. \A c \in S : f[c] = g[c]
  OBVIOUS
<1>2. DOMAIN f = S
  OBVIOUS
<1> HIDE DEF f, g
<1>3. SumFunction(f) = SumFunctionOnSet(f, S)
  BY <1>2, Zenon DEF SumFunction
<1>4. SumFunctionOnSet(f, S) = SumFunctionOnSet(g, S)
  BY <1>1, SumOfEqual
<1>5. QED
  BY <1>3, <1>4 DEF f, g

LEMMA AccountedAs ==
  ASSUME AccountsStand
  PROVE  AdjustmentsAccounted <=>
           \A w \in Wallets : adjusted[w] = SumFunctionOnSet(AdjustmentOf, CasesOf(w))
<1>1. ASSUME NEW w \in Wallets
      PROVE  SumFunction([c \in CasesOf(w) |-> cases[c].adjustment])
               = SumFunctionOnSet(AdjustmentOf, CasesOf(w))
  <2>1. IsFiniteSet(CasesOf(w)) /\ CasesOf(w) \in SUBSET Cases
    BY CasesAreFinite DEF CasesOf
  <2>2. QED
    BY <2>1, SumOfSelected, Zenon DEF AdjustmentOf
<1>2. QED
  BY <1>1, Zenon DEF AdjustmentsAccounted, CasesOf

LEMMA AccountedNext ==
  ASSUME AccountsStand',
         \A w \in Wallets : adjusted'[w] = SumFunctionOnSet(AdjustmentOf', CasesOf(w)')
  PROVE  AdjustmentsAccounted'
<1>1. ASSUME NEW w \in Wallets
      PROVE  SumFunction([c \in CasesOf(w)' |-> cases'[c].adjustment])
               = SumFunctionOnSet(AdjustmentOf', CasesOf(w)')
  <2>1. CasesOf(w)' \in SUBSET Cases /\ CasesOf(w)' \subseteq {c \in Cases : cases'[c] # NoCase}
    BY DEF CasesOf
  <2>2. IsFiniteSet(CasesOf(w)')
    BY <2>1, FS_Subset DEF AccountsStand
  <2>3. QED
    BY <2>1, <2>2, SumOfSelected, Zenon DEF AdjustmentOf
<1>2. QED
  BY <1>1, Zenon DEF AdjustmentsAccounted, CasesOf

LEMMA AdjustmentsAreInt ==
  ASSUME MoneyTypes, NEW w
  PROVE  \A c \in CasesOf(w) : c \in Cases /\ AdjustmentOf[c] \in Int
<1>1. ASSUME NEW c \in CasesOf(w) PROVE c \in Cases /\ AdjustmentOf[c] \in Int
  <2>1. c \in Cases /\ cases[c] # NoCase
    BY DEF CasesOf
  <2>2. cases[c] \in CaseRows
    BY <2>1, CaseFields
  <2>3. cases[c].adjustment \in Int
    BY <2>2 DEF CaseRows
  <2>4. QED
    BY <2>1, <2>3 DEF AdjustmentOf
<1>2. QED
  BY <1>1

LEMMA InsertAccounts ==
  ASSUME MoneyInv, AccountsInv, NEW r \in CaseRequests, InsertCase(r)
  PROVE  AccountsInv'
<1> DEFINE c == job[r].case
<1>0. MoneyTypes /\ CasesStand /\ AccountsStand
  BY DEF MoneyInv, AccountsInv
<1>1. /\ c \in Cases /\ cases[c] = NoCase
      /\ cases'[c] \in CaseRows /\ cases'[c].adjustment = 0
      /\ \A d \in Cases : d # c => cases'[d] = cases[d]
      /\ adjusted' = adjusted
  BY <1>0, InsertedRow DEF NoAdjustment
<1>2. cases'[c] # NoCase
  BY <1>1 DEF CaseRows, NoCase
<1> HIDE DEF c
<1>3. AccountsStand'
  <2>1. {d \in Cases : cases'[d] # NoCase} = {d \in Cases : cases[d] # NoCase} \cup {c}
    BY <1>1, <1>2
  <2>2. IsFiniteSet({d \in Cases : cases'[d] # NoCase})
    BY <1>0, <2>1, FS_AddElement DEF AccountsStand
  <2>3. \A d \in Cases : cases'[d].status = "unresolved" => cases'[d].adjustment = NoAdjustment
    BY <1>0, <1>1 DEF AccountsStand, NoAdjustment
  <2>4. QED
    BY <2>2, <2>3 DEF AccountsStand
<1>4. ASSUME NEW w \in Wallets
      PROVE  adjusted'[w] = SumFunctionOnSet(AdjustmentOf', CasesOf(w)')
  <2>1. adjusted[w] = SumFunctionOnSet(AdjustmentOf, CasesOf(w))
    BY <1>0, AccountedAs DEF AccountsInv
  <2>2. IsFiniteSet(CasesOf(w)) /\ c \notin CasesOf(w) /\ CasesOf(w) \subseteq Cases
    BY <1>0, <1>1, CasesAreFinite DEF CasesOf
  <2>3. \A d \in CasesOf(w) : AdjustmentOf[d] = AdjustmentOf'[d] /\ AdjustmentOf'[d] \in Int
    <3>1. \A d \in CasesOf(w) : AdjustmentOf[d] = AdjustmentOf'[d]
      BY <1>1, <2>2 DEF AdjustmentOf
    <3>2. QED
      BY <1>0, <3>1, AdjustmentsAreInt
  <2>4. SumFunctionOnSet(AdjustmentOf', CasesOf(w)) = adjusted[w]
    BY <2>1, <2>2, <2>3, SumOfEqual
  <2>5. CASE cases'[c].wallet # w
    <3>1. CasesOf(w)' = CasesOf(w)
      BY <1>1, <1>2, <2>5 DEF CasesOf
    <3>2. QED
      BY <1>1, <2>4, <3>1
  <2>6. CASE cases'[c].wallet = w
    <3>1. CasesOf(w)' = CasesOf(w) \cup {c}
      BY <1>1, <1>2, <2>6 DEF CasesOf
    <3>2. AdjustmentOf'[c] = 0
      BY <1>1 DEF AdjustmentOf
    <3>3. \A d \in CasesOf(w) \cup {c} : AdjustmentOf'[d] \in Int
      BY <2>3, <3>2
    <3>4. SumFunctionOnSet(AdjustmentOf', CasesOf(w) \cup {c})
            = SumFunctionOnSet(AdjustmentOf', CasesOf(w)) + AdjustmentOf'[c]
      BY <2>2, <3>3, SumAdd, Zenon
    <3>5. adjusted[w] \in Int
      BY <1>0 DEF MoneyTypes, ReconciliationTypeOK
    <3>6. QED
      BY <1>1, <2>4, <3>1, <3>2, <3>4, <3>5
  <2>7. QED
    BY <2>5, <2>6
<1>5. AdjustmentsAccounted'
  BY <1>3, <1>4, AccountedNext
<1>6. QED
  BY <1>3, <1>5 DEF AccountsInv

LEMMA CloseAccounts ==
  ASSUME MoneyInv, AccountsInv, NEW r \in CaseRequests, CloseCase(r)
  PROVE  AccountsInv'
<1> DEFINE c == job[r].case
           v == cases[c].wallet
<1>0. MoneyTypes /\ CasesStand /\ AccountsStand
  BY DEF MoneyInv, AccountsInv
<1>1. /\ c \in Cases /\ cases[c].status = "unresolved" /\ cases[c] \in CaseRows
      /\ Remaining(r) \in Int
      /\ cases'[c] = [cases[c] EXCEPT !.status = "reconciled", !.adjustment = Remaining(r)]
      /\ \A d \in Cases : d # c => cases'[d] = cases[d]
  BY <1>0, ClosedRow, Zenon
<1> HIDE DEF c
<1>2. /\ cases[c] # NoCase /\ cases'[c] # NoCase /\ v \in Wallets
      /\ cases'[c].wallet = v /\ cases'[c].status = "reconciled"
      /\ cases'[c].adjustment = Remaining(r) /\ cases[c].adjustment = 0
  <2>1. cases[c].adjustment = 0
    BY <1>0, <1>1 DEF AccountsStand, NoAdjustment
  <2>2. /\ cases'[c] \in CaseRows /\ v \in Wallets
        /\ cases'[c].wallet = v /\ cases'[c].status = "reconciled"
        /\ cases'[c].adjustment = Remaining(r)
    BY <1>1 DEF CaseRows
  <2>3. cases[c] # NoCase /\ cases'[c] # NoCase
    BY <1>1, <2>2 DEF CaseRows, NoCase
  <2>4. QED
    BY <2>1, <2>2, <2>3
<1>3. adjusted' = [adjusted EXCEPT ![v] = @ + Remaining(r)] /\ adjusted \in [Wallets -> Int]
  BY <1>0 DEF c, CloseCase, MoneyTypes, ReconciliationTypeOK
<1> HIDE DEF v
<1>4. AccountsStand'
  <2>1. {d \in Cases : cases'[d] # NoCase} = {d \in Cases : cases[d] # NoCase}
    BY <1>1, <1>2
  <2>2. \A d \in Cases : cases'[d].status = "unresolved" => cases'[d].adjustment = NoAdjustment
    BY <1>0, <1>1, <1>2 DEF AccountsStand
  <2>3. QED
    BY <1>0, <2>1, <2>2 DEF AccountsStand
<1>5. ASSUME NEW w \in Wallets
      PROVE  adjusted'[w] = SumFunctionOnSet(AdjustmentOf', CasesOf(w)')
  <2>1. adjusted[w] = SumFunctionOnSet(AdjustmentOf, CasesOf(w))
    BY <1>0, AccountedAs DEF AccountsInv
  <2>2. IsFiniteSet(CasesOf(w)) /\ CasesOf(w) \subseteq Cases
    BY <1>0, CasesAreFinite DEF CasesOf
  <2>3. CasesOf(w)' = CasesOf(w)
    <3>1. \A d \in Cases : /\ cases'[d] # NoCase <=> cases[d] # NoCase
                          /\ cases'[d].wallet = cases[d].wallet
      BY <1>1, <1>2 DEF v
    <3>2. QED
      BY <3>1 DEF CasesOf
  <2>4. \A d \in CasesOf(w) : d # c => AdjustmentOf'[d] = AdjustmentOf[d]
    BY <1>1, <2>2 DEF AdjustmentOf
  <2>5. CASE w # v
    <3>1. c \notin CasesOf(w)
      BY <2>5 DEF CasesOf, v
    <3>2. \A d \in CasesOf(w) : AdjustmentOf[d] = AdjustmentOf'[d]
      BY <2>4, <3>1
    <3>3. SumFunctionOnSet(AdjustmentOf, CasesOf(w)) = SumFunctionOnSet(AdjustmentOf', CasesOf(w))
      BY <2>2, <3>2, SumOfEqual, Zenon
    <3>4. QED
      BY <1>3, <2>1, <2>3, <2>5, <3>3
  <2>6. CASE w = v
    <3>1. c \in CasesOf(w)
      BY <1>1, <1>2, <2>6 DEF CasesOf, v
    <3>2. AdjustmentOf'[c] = Remaining(r) /\ AdjustmentOf[c] = 0
      BY <1>1, <1>2 DEF AdjustmentOf
    <3>3. \A d \in CasesOf(w) : AdjustmentOf[d] \in Int
      BY <1>0, AdjustmentsAreInt
    <3>4. AdjustmentOf'[c] \in Int
      BY <1>1, <3>2
    <3>5. SumFunctionOnSet(AdjustmentOf', CasesOf(w))
            = SumFunctionOnSet(AdjustmentOf, CasesOf(w)) + (AdjustmentOf'[c] - AdjustmentOf[c])
      BY <2>2, <2>4, <3>1, <3>3, <3>4, SumChange, Zenon
    <3>6. adjusted'[w] = adjusted[w] + Remaining(r) /\ adjusted[w] \in Int
      BY <1>3, <2>6
    <3>7. QED
      BY <1>1, <2>1, <2>3, <3>2, <3>5, <3>6
  <2>7. QED
    BY <2>5, <2>6
<1>6. QED
  BY <1>4, <1>5, AccountedNext DEF AccountsInv

LEMMA AccountsStep == MoneyInv /\ AccountsInv /\ [MoneyNext]_moneyVars => AccountsInv'
<1> SUFFICES ASSUME MoneyInv, AccountsInv, [MoneyNext]_moneyVars PROVE AccountsInv'
  OBVIOUS
<1>1. CASE UNCHANGED <<cases, adjusted>>
  BY <1>1 DEF AccountsInv, AccountsStand, AdjustmentsAccounted
<1>2. CASE ReconciliationNext
  BY <1>1, <1>2, CaseMoves, InsertAccounts, CloseAccounts DEF MoneyInv
<1>3. QED
  BY <1>1, <1>2 DEF MoneyNext, moneyVars, caseVars

LEMMA AccountsInit == MoneyInit => AccountsInv
<1> SUFFICES ASSUME MoneyInit PROVE AccountsInv
  OBVIOUS
<1>1. /\ {c \in Cases : cases[c] # NoCase} = {}
      /\ \A c \in Cases : cases[c].status # "unresolved"
      /\ \A w \in Wallets : adjusted[w] = 0 /\ CasesOf(w) = {}
  BY DEF MoneyInit, ReconciliationInit, NoCase, CasesOf
<1>2. AccountsStand
  BY <1>1, FS_EmptySet DEF AccountsStand
<1>3. \A w \in Wallets : adjusted[w] = SumFunctionOnSet(AdjustmentOf, CasesOf(w))
  BY <1>1, SumOfNone
<1>4. QED
  BY <1>2, <1>3, AccountedAs DEF AccountsInv

\* A wallet's adjustments are those its closed cases account for, each once,
\* however many requests resolve the same case or fail on the way: the lock
\* and the transaction of reconciliation_service.go:85-127.
THEOREM AdjustmentsAlwaysAccounted == MoneySpec => []AdjustmentsAccounted
<1>1. MoneyInit => MoneyInv /\ AccountsInv
  BY MoneyInvInit, AccountsInit
<1>2. (MoneyInv /\ AccountsInv) /\ [MoneyNext]_moneyVars => (MoneyInv /\ AccountsInv)'
  BY MoneyInvStep, AccountsStep
<1>3. AccountsInv => AdjustmentsAccounted
  BY DEF AccountsInv
<1>4. QED
  BY <1>1, <1>2, <1>3, PTL DEF MoneySpec
-----------------------------------------------------------------------------
(***************************************************************************)
(* What holds of the ledger holds of it beside goals and reconciliation,   *)
(* which only read its tables.                                             *)
(***************************************************************************)
LEMMA LedgerBesideOthers ==
  ASSUME [MoneyNext]_moneyVars
  PROVE  LedgerNext \/ UNCHANGED ledgerVars
  BY DEF MoneyNext, FundsNext, GoalNext, ReconciliationNext, moneyVars

LEMMA LedgerInvInHousehold == MoneySpec => []LedgerInv
<1>1. MoneyInit => LedgerInv
  BY LedgerInvInit DEF MoneyInit, FundsInit
<1>2. LedgerInv /\ [MoneyNext]_moneyVars => LedgerInv'
  BY LedgerBesideOthers, LedgerInvStep, LedgerInvStutter
<1>3. QED
  BY <1>1, <1>2, PTL DEF MoneySpec

\* Transfers cancel out, an archived wallet keeps what it is called, and its
\* balance is final once those who saw it active are answered, also while goals
\* reserve of the wallet and reconciliations adjust it.
THEOREM LedgerInHousehold ==
  MoneySpec => []TransfersConserve /\ ArchivedWalletIsFrozen /\ ArchivedWalletSettles
<1>1. LedgerInv => TransfersConserve
  BY DEF LedgerInv
<1>2. LedgerInv /\ [MoneyNext]_moneyVars => [Frozen]_walletVars
  BY LedgerBesideOthers, FrozenStep DEF LedgerInv, ledgerVars
<1>3. LedgerInv /\ [MoneyNext]_moneyVars => [Settled]_<<posted, moved, call>>
  BY LedgerBesideOthers, SettledStep DEF LedgerInv, ledgerVars
<1>4. QED
  BY LedgerInvInHousehold, <1>1, <1>2, <1>3, PTL
     DEF MoneySpec, ArchivedWalletIsFrozen, Frozen, ArchivedWalletSettles, Settled

\* The balances reconciliation goes by add up to the transactions and the
\* adjustments of the currency: no transfer makes a difference to them.
PhysicalAddsUp ==
    \A c \in {Currency[w] : w \in Wallets} :
        SumFunctionOnSet([w \in Wallets |-> PhysicalBalance(w)], WalletsIn(c))
          = SumFunctionOnSet(posted, WalletsIn(c)) + SumFunctionOnSet(adjusted, WalletsIn(c))

LEMMA ConservedPhysical == LedgerInv /\ MoneyTypes => PhysicalAddsUp
<1> SUFFICES ASSUME LedgerInv, MoneyTypes, NEW c \in {Currency[w] : w \in Wallets}
             PROVE  SumFunctionOnSet([w \in Wallets |-> PhysicalBalance(w)], WalletsIn(c))
                      = SumFunctionOnSet(posted, WalletsIn(c))
                          + SumFunctionOnSet(adjusted, WalletsIn(c))
  BY DEF PhysicalAddsUp
<1> DEFINE balance == [w \in Wallets |-> LedgerBalance(w)]
           physical == [w \in Wallets |-> PhysicalBalance(w)]
<1>1. IsFiniteSet(WalletsIn(c))
  BY WalletsAreFinite DEF LedgerInv
<1>2. \A w \in WalletsIn(c) :
        balance[w] \in Int /\ adjusted[w] \in Int /\ physical[w] = balance[w] + adjusted[w]
  <2>1. ASSUME NEW w \in WalletsIn(c)
        PROVE  w \in Wallets /\ LedgerBalance(w) \in Int /\ adjusted[w] \in Int
    BY PhysicalIsInt DEF WalletsIn, MoneyTypes, ReconciliationTypeOK
  <2>2. QED
    BY <2>1 DEF PhysicalBalance
<1>3. SumFunctionOnSet(balance, WalletsIn(c)) = SumFunctionOnSet(posted, WalletsIn(c))
  BY ConservedBalances DEF BalancesAddUp
<1> HIDE DEF balance, physical
<1>4. SumFunctionOnSet(physical, WalletsIn(c))
        = SumFunctionOnSet(balance, WalletsIn(c)) + SumFunctionOnSet(adjusted, WalletsIn(c))
  BY <1>1, <1>2, SumOfBoth
<1>5. QED
  BY <1>3, <1>4 DEF physical

\* What a household's wallets hold is what came in, less what went out, and
\* what its reconciled cases put right.
THEOREM PhysicalAlwaysAddsUp == MoneySpec => []PhysicalAddsUp
<1>1. MoneyInv /\ LedgerInv => PhysicalAddsUp
  BY ConservedPhysical DEF MoneyInv
<1>2. QED
  BY MoneyInvariant, LedgerInvInHousehold, <1>1, PTL

-----------------------------------------------------------------------------
(***************************************************************************)
(* The goal handlers beside reconciliation are the goal handlers alone:    *)
(* whoever sees of the lock table only what goal requests hold sees steps  *)
(* of FundsSpec, and every theorem about it holds of the household.        *)
(***************************************************************************)
GoalLocks == {l \in locks : l.by \in GoalRequests}

Funds == INSTANCE GoalFundsProofs WITH locks <- GoalLocks

\* What is granted among all the locks is granted among the goals' own.
LEMMA FundsGrant ==
  ASSUME NEW row, NEW mode, NEW by, Grantable(locks, row, mode, by)
  PROVE  Funds!Grantable(GoalLocks, row, mode, by)
  BY DEF Grantable, Funds!Grantable, GoalLocks, Conflicts, Funds!Conflicts

\* What a goal handler does to the lock table it does to the goals' locks.
LEMMA GoalLocksReleased ==
  ASSUME NEW r, locks' = ReleasedBy(locks, r)
  PROVE  GoalLocks' = Funds!ReleasedBy(GoalLocks, r)
  BY DEF GoalLocks, ReleasedBy, Funds!ReleasedBy

LEMMA GoalLocksTaken ==
  ASSUME NEW r \in GoalRequests, NEW row, locks' = locks \cup {Lock(row, "Update", r)}
  PROVE  GoalLocks' = GoalLocks \cup {Funds!Lock(row, "Update", r)}
  BY DEF GoalLocks, Lock, Funds!Lock

\* A ledger handler is one of the ledger beside the goals alone.
LEMMA FundsLedger ==
  ASSUME LedgerNext
  PROVE  Funds!LedgerNext
<1> USE DEF Funds!Idle, Idle, Funds!walletVars, walletVars, Funds!Begin, Begin,
            Funds!Answer, Answer
<1>1. GoalLocks' = GoalLocks
  BY DEF LedgerNext, GoalLocks
<1>2. ASSUME NEW w \in Wallets, CreateWallet(w) PROVE Funds!CreateWallet(w)
  BY <1>2 DEF CreateWallet, Funds!CreateWallet
<1>3. ASSUME NEW r \in LedgerRequests, NEW w \in Wallets, NEW d \in Details, UpdateWallet(r, w, d)
      PROVE  Funds!UpdateWallet(r, w, d)
  BY <1>3 DEF UpdateWallet, Funds!UpdateWallet
<1>4. ASSUME NEW r \in LedgerRequests, WriteWallet(r) PROVE Funds!WriteWallet(r)
  BY <1>4, FundsGrant DEF WriteWallet, Funds!WriteWallet
<1>5. ASSUME NEW r \in LedgerRequests, NEW w \in Wallets, ArchiveWallet(r, w)
      PROVE  Funds!ArchiveWallet(r, w)
  BY <1>5 DEF ArchiveWallet, Funds!ArchiveWallet
<1>6. ASSUME NEW r \in LedgerRequests, WriteArchive(r) PROVE Funds!WriteArchive(r)
  BY <1>6, FundsGrant DEF WriteArchive, Funds!WriteArchive
<1>7. ASSUME NEW r \in LedgerRequests, NEW w \in Wallets, NEW d \in Deltas,
             CreateTransaction(r, w, d)
      PROVE  Funds!CreateTransaction(r, w, d) /\ d \in Funds!Deltas
  BY <1>7 DEF CreateTransaction, Funds!CreateTransaction, Deltas, Funds!Deltas
<1>8. ASSUME NEW r \in LedgerRequests, InsertTransaction(r) PROVE Funds!InsertTransaction(r)
  BY <1>8, FundsGrant DEF InsertTransaction, Funds!InsertTransaction, Sums, Funds!Sums
<1>9. ASSUME NEW r \in LedgerRequests, NEW s \in Wallets, NEW d \in Wallets,
             NEW a \in Amounts, CreateTransfer(r, s, d, a)
      PROVE  Funds!CreateTransfer(r, s, d, a)
  BY <1>9 DEF CreateTransfer, Funds!CreateTransfer
<1>10. ASSUME NEW r \in LedgerRequests, ReadDestination(r) PROVE Funds!ReadDestination(r)
  BY <1>10 DEF ReadDestination, Funds!ReadDestination
<1>11. ASSUME NEW r \in LedgerRequests, InsertTransfer(r) PROVE Funds!InsertTransfer(r)
  BY <1>11, FundsGrant DEF InsertTransfer, Funds!InsertTransfer, Sums, Funds!Sums
<1>12. ASSUME NEW r \in LedgerRequests, Abandon(r) PROVE Funds!Abandon(r)
  BY <1>12 DEF Abandon, Funds!Abandon
<1>13. QED
  BY <1>1, <1>2, <1>3, <1>4, <1>5, <1>6, <1>7, <1>8, <1>9, <1>10, <1>11, <1>12
     DEF LedgerNext, Funds!LedgerNext

LEMMA FundsStart ==
  ASSUME NEW r, NEW t, Start(r, t)
  PROVE  Funds!Start(r, t)
  BY DEF Start, Funds!Start, goalTables, Funds!goalTables, GoalLocks, NoTask, Funds!NoTask

LEMMA FundsFinish ==
  ASSUME NEW r, Finish(r)
  PROVE  Funds!Finish(r)
  BY GoalLocksReleased DEF Finish, Funds!Finish, NoTask, Funds!NoTask

\* A goal handler is one of the goals alone.
LEMMA FundsGoals ==
  ASSUME GoalNext
  PROVE  Funds!GoalNext
<1> USE FundsStart, FundsFinish, FundsGrant
    DEF Rollback, Funds!Rollback, goalTables, Funds!goalTables, Proceed, Funds!Proceed
<1>1. UNCHANGED Funds!ledgerVars
  BY DEF GoalNext, ledgerVars, Funds!ledgerVars, walletVars, Funds!walletVars
<1>2. ASSUME NEW g \in Goals, CreateGoal(g) PROVE Funds!CreateGoal(g)
  BY <1>2 DEF CreateGoal, Funds!CreateGoal, GoalLocks
<1>3. ASSUME NEW r \in GoalRequests, NEW g \in Goals, NEW t \in Targets, UpdateGoal(r, g, t)
      PROVE  Funds!UpdateGoal(r, g, t)
  BY <1>3 DEF UpdateGoal, Funds!UpdateGoal
<1>4. ASSUME NEW r \in GoalRequests, WriteGoal(r) PROVE Funds!WriteGoal(r)
  BY <1>4 DEF WriteGoal, Funds!WriteGoal
<1>5. ASSUME NEW r \in GoalRequests, NEW g \in Goals, ArchiveGoal(r, g)
      PROVE  Funds!ArchiveGoal(r, g)
  BY <1>5 DEF ArchiveGoal, Funds!ArchiveGoal
<1>6. ASSUME NEW r \in GoalRequests, WriteGoalArchive(r) PROVE Funds!WriteGoalArchive(r)
  BY <1>6 DEF WriteGoalArchive, Funds!WriteGoalArchive
<1>7. ASSUME NEW r \in GoalRequests, NEW op \in {"reserve", "release"}, NEW g \in Goals,
             NEW w \in Wallets, NEW a \in Amounts, BeginTx(r, op, g, w, a)
      PROVE  Funds!BeginTx(r, op, g, w, a)
  BY <1>7 DEF BeginTx, Funds!BeginTx
<1>8. ASSUME NEW r \in GoalRequests, TxStep(r) PROVE Funds!TxStep(r)
  <2>1. LockGoal(r) => Funds!LockGoal(r)
    BY GoalLocksTaken DEF LockGoal, Funds!LockGoal
  <2>2. LockWallet(r) => Funds!LockWallet(r)
    BY GoalLocksTaken DEF LockWallet, Funds!LockWallet
  <2>3. ReadBalance(r) => Funds!ReadBalance(r)
    BY DEF ReadBalance, Funds!ReadBalance, GoalLocks, LedgerBalance, Funds!LedgerBalance
  <2>4. ReadReserved(r) => Funds!ReadReserved(r)
    BY DEF ReadReserved, Funds!ReadReserved, GoalLocks
  <2>5. Commit(r) => Funds!Commit(r)
    BY DEF Commit, Funds!Commit
  <2>6. QED
    BY <1>8, <2>1, <2>2, <2>3, <2>4, <2>5 DEF TxStep, Funds!TxStep
<1>9. ASSUME NEW r \in GoalRequests, AbortTask(r) PROVE Funds!AbortTask(r)
  BY <1>9 DEF AbortTask, Funds!AbortTask, NoTask, Funds!NoTask
<1>10. QED
  BY <1>1, <1>2, <1>3, <1>4, <1>5, <1>6, <1>7, <1>8, <1>9 DEF GoalNext, Funds!GoalNext

\* A reconciliation changes nothing the goal handlers see.
LEMMA FundsStutter ==
  ASSUME ReconciliationNext, UNCHANGED goalVars
  PROVE  UNCHANGED Funds!fundsVars
<1>1. PICK r \in CaseRequests :
        \/ UNCHANGED locks
        \/ locks' = ReleasedBy(locks, r)
        \/ \E row, mode : locks' = locks \cup {Lock(row, mode, r)}
  BY DEF ReconciliationNext, JobStep, CreateReconciliation, ResolveReconciliation, Take,
     ReadExpected, InsertCase, LockCase, ReadCurrent, InsertAdjustment, CloseCase, AbortJob, End
<1>2. r \notin GoalRequests
  BY CaseRequestsAreDistinct
<1>3. GoalLocks' = GoalLocks
  BY <1>1, <1>2 DEF GoalLocks, ReleasedBy, Lock
<1>4. UNCHANGED <<status, details, archivedAt, posted, moved, call>>
  BY DEF ReconciliationNext, ledgerVars, walletVars
<1>5. QED
  BY <1>3, <1>4 DEF goalVars, Funds!fundsVars, Funds!ledgerVars, Funds!walletVars, Funds!goalVars

\* The household does nothing to goals and ledger that the goal handlers beside
\* the ledger alone could not do, although reconciliations lock the same
\* wallets and change the balances they show.
THEOREM HouseholdImplementsFunds == MoneySpec => Funds!FundsSpec
<1>1. MoneyInit => Funds!FundsInit
  BY DEF MoneyInit, FundsInit, Funds!FundsInit, LedgerInit, Funds!LedgerInit, GoalInit,
     Funds!GoalInit, GoalLocks, Idle, Funds!Idle, NoTask, Funds!NoTask
<1>2. [MoneyNext]_moneyVars => [Funds!FundsNext]_Funds!fundsVars
  <2>1. CASE FundsNext
    BY <2>1, FundsGoals, FundsLedger DEF FundsNext, Funds!FundsNext, goalVars, Funds!goalVars
  <2>2. CASE ReconciliationNext /\ UNCHANGED goalVars
    BY <2>2, FundsStutter
  <2>3. CASE UNCHANGED moneyVars
    BY <2>3 DEF moneyVars, ledgerVars, walletVars, goalVars, GoalLocks, Funds!fundsVars,
       Funds!ledgerVars, Funds!walletVars, Funds!goalVars
  <2>4. QED
    BY <2>1, <2>2, <2>3 DEF MoneyNext
<1>3. QED
  BY <1>1, <1>2, PTL DEF MoneySpec, Funds!FundsSpec

\* In the whole household too no release takes out more than a goal holds, a
\* reservation is covered when it shows, and archived goals and wallets get
\* none.
THEOREM GoalsInHousehold ==
  MoneySpec => /\ []NoOverRelease
               /\ ReservationsAreCovered
               /\ ArchivedGoalsOnlyShrink
               /\ ArchivedGoalIsFrozen
<1> USE AmountsArePositive, LedgerBoundIsNat, NoTimeIsNoRequest, RowsAreDistinct,
        RequestsAreDistinct
<1>1. MoneySpec => []Funds!NoOverRelease
  BY HouseholdImplementsFunds, Funds!NothingOverReleased, PTL
<1>2. MoneySpec => Funds!ReservationsAreCovered
  BY HouseholdImplementsFunds, Funds!ReservationsCovered, PTL
<1>3. MoneySpec => Funds!ArchivedGoalsOnlyShrink
  BY HouseholdImplementsFunds, Funds!ArchivedGoalsShrink, PTL
<1>4. MoneySpec => Funds!ArchivedGoalIsFrozen
  BY HouseholdImplementsFunds, Funds!ArchivedGoalsFreeze, PTL
<1>5. Funds!NoOverRelease => NoOverRelease
  BY DEF NoOverRelease, Funds!NoOverRelease
<1>6. Funds!ReservationsAreCovered => ReservationsAreCovered
  BY PTL DEF ReservationsAreCovered, Funds!ReservationsAreCovered, LedgerBalance,
     Funds!LedgerBalance
<1>7. Funds!ArchivedGoalsOnlyShrink => ArchivedGoalsOnlyShrink
  BY PTL DEF ArchivedGoalsOnlyShrink, Funds!ArchivedGoalsOnlyShrink
<1>8. Funds!ArchivedGoalIsFrozen => ArchivedGoalIsFrozen
  BY PTL DEF ArchivedGoalIsFrozen, Funds!ArchivedGoalIsFrozen
<1>9. QED
  BY <1>1, <1>2, <1>3, <1>4, <1>5, <1>6, <1>7, <1>8, PTL

\* Nor do the sums of a wallet's goals and of the wallet come apart while its
\* counts are closed: each goal's share stays within what the wallet holds.
THEOREM SharesInHousehold ==
  MoneySpec => [](Funds!HeldAddsUp /\ Funds!GoalsWithinHeld)
<1> USE AmountsArePositive, LedgerBoundIsNat, NoTimeIsNoRequest, RowsAreDistinct,
        RequestsAreDistinct
<1>1. QED
  BY HouseholdImplementsFunds, Funds!HeldAlwaysAddsUp, Funds!GoalsAlwaysWithinHeld, PTL

\* The contract the goals alone keep is the household's: it has no lock in it.
LEMMA SameContractInit == Funds!Contract!Init => Contract!Init
  BY DEF Funds!Contract!Init, Contract!Init, LedgerBalance, Funds!LedgerBalance

LEMMA SameContractStep ==
  [Funds!Contract!Next]_(Funds!Contract!vars) => [Contract!Next]_(Contract!vars)
  BY DEF Funds!Contract!Next, Contract!Next, Funds!Contract!vars, Contract!vars,
     Funds!Contract!Reserve, Contract!Reserve, Funds!Contract!Release, Contract!Release,
     Funds!Contract!Change, Contract!Change, Funds!Contract!MoveMoney, Contract!MoveMoney,
     Funds!Contract!WalletLife, Contract!WalletLife, Funds!Contract!GoalLife,
     Contract!GoalLife, Funds!Contract!Advances, Contract!Advances,
     LedgerBalance, Funds!LedgerBalance

\* What FundsContract promises of reserving and releasing the whole household
\* keeps, reconciliation included.
THEOREM HouseholdImplementsContract == MoneySpec => ImplementsContract
<1> USE AmountsArePositive, LedgerBoundIsNat, NoTimeIsNoRequest, RowsAreDistinct,
        RequestsAreDistinct
<1>1. MoneySpec => Funds!ImplementsContract
  BY HouseholdImplementsFunds, Funds!HandlersImplementContract, PTL
<1>2. Funds!ImplementsContract => ImplementsContract
  BY SameContractInit, SameContractStep, PTL
     DEF Funds!ImplementsContract, ImplementsContract, Funds!Contract!Spec, Contract!Spec
<1>3. QED
  BY <1>1, <1>2, PTL
=============================================================================
