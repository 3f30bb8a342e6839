--------------------------- MODULE Reconciliation ---------------------------
(***************************************************************************)
(* Wallet reconciliation: finance/reconciliation_service.go beside the     *)
(* ledger of module Ledger.                                                *)
(*                                                                         *)
(* A case compares the balance somebody observed with the balance the      *)
(* records give.  CreateReconciliation is three autocommitted statements;  *)
(* ResolveReconciliationWithAdjustment is one transaction, which locks the *)
(* case but not the wallet, reads the balance, inserts an adjustment for   *)
(* what is missing and closes the case.  job[r].at names the next          *)
(* statement of request r.  The closing UPDATE waits for nobody, the case  *)
(* being locked already, so it and COMMIT are one action, in which the     *)
(* adjustment becomes visible.                                             *)
(***************************************************************************)
EXTENDS Ledger

CONSTANTS
    Cases,            \* ids of wallet_reconciliations
    CaseRequests,     \* requests served concurrently by these handlers
    Observed          \* balances somebody can have observed

ASSUME ObservedAreInts == Observed \subseteq Int

VARIABLES
    adjusted,         \* adjusted[w]: SUM over balance_adjustments
    cases,            \* cases[c]: the row of case c
    job               \* job[r]: what request r does next

caseVars == <<adjusted, cases, job>>

NoCase == [status |-> "absent"]
NoAdjustment == 0     \* adjustment_id IS NULL; an adjustment is never of 0
CaseRows == [status: {"unresolved", "reconciled"}, wallet: Wallets,
             observed: Observed, expected: Int, adjustment: Int]

NoJob == [at |-> "idle"]
Jobs == {NoJob}
    \cup [at: {"readExpected", "insertCase"}, case: Cases, wallet: Wallets,
          observed: Observed, expected: Int]
    \cup [at: {"lockCase", "readCurrent", "insertAdjustment", "closeCase"},
          case: Cases, current: Int]

ReconciliationTypeOK ==
    /\ adjusted \in [Wallets -> Int]
    /\ cases \in [Cases -> CaseRows \cup {NoCase}]
    /\ job \in [CaseRequests -> Jobs]

ReconciliationInit ==
    /\ adjusted = [w \in Wallets |-> 0]
    /\ cases = [c \in Cases |-> NoCase]
    /\ job = [r \in CaseRequests |-> NoJob]

-----------------------------------------------------------------------------
\* walletPhysicalBalance: transactions, transfers and adjustments.
PhysicalBalance(w) == LedgerBalance(w) + adjusted[w]

Take(r, j) ==
    /\ job[r] = NoJob
    /\ job' = [job EXCEPT ![r] = j]
    /\ UNCHANGED <<adjusted, cases, locks>>

Continue(r, step) == job' = [job EXCEPT ![r].at = step]

\* Mutants: a request that is done keeps its arguments, or its locks, because
\* nothing rolls its transaction back.
EndKeepsArguments(r) ==
    /\ job' = [job EXCEPT ![r].at = "idle"]
    /\ locks' = ReleasedBy(locks, r)
EndWithoutRollback(r) ==
    /\ job' = [job EXCEPT ![r] = NoJob]
    /\ UNCHANGED locks

End(r) ==
    /\ job' = [job EXCEPT ![r] = NoJob]
    /\ locks' = ReleasedBy(locks, r)

\* POST /wallets/{id}/reconcile: the wallet is read; it may be archived.  The
\* id c is a fresh one.
CreateReconciliation(r, w, o, c) ==
    /\ status[w] # "absent"
    /\ cases[c] = NoCase
    /\ \A q \in CaseRequests : job[q] # NoJob => job[q].case # c
    /\ Take(r, [at |-> "readExpected", case |-> c, wallet |-> w,
                observed |-> o, expected |-> 0])

ReadExpected(r) ==
    /\ job[r].at = "readExpected"
    /\ job' = [job EXCEPT ![r].at = "insertCase",
                          ![r].expected = PhysicalBalance(job[r].wallet)]
    /\ UNCHANGED <<adjusted, cases, locks>>

\* A case with no discrepancy is born reconciled.
InsertCase(r) ==
    /\ job[r].at = "insertCase"
    /\ LET j == job[r] IN
       /\ Grantable(locks, j.wallet, "KeyShare", r)
       /\ cases' = [cases EXCEPT ![j.case] =
             [status |-> IF j.observed = j.expected THEN "reconciled" ELSE "unresolved",
              wallet |-> j.wallet, observed |-> j.observed,
              expected |-> j.expected, adjustment |-> NoAdjustment]]
    /\ End(r)
    /\ UNCHANGED adjusted

\* POST /reconciliations/{id}/adjust: BEGIN.
ResolveReconciliation(r, c) ==
    /\ cases[c] # NoCase
    /\ Take(r, [at |-> "lockCase", case |-> c, current |-> 0])

\* Mutant: the case is read without FOR UPDATE.
ReadCase(r) ==
    /\ job[r].at = "lockCase"
    /\ IF cases[job[r].case].status = "unresolved"
       THEN Continue(r, "readCurrent") /\ UNCHANGED locks
       ELSE End(r)
    /\ UNCHANGED <<adjusted, cases>>

\* SELECT ... FOR UPDATE; a case that is resolved already is refused.
LockCase(r) ==
    /\ job[r].at = "lockCase"
    /\ LET c == job[r].case IN
       /\ Grantable(locks, c, "Update", r)
       /\ IF cases[c].status = "unresolved"
          THEN /\ locks' = locks \cup {Lock(c, "Update", r)}
               /\ Continue(r, "readCurrent")
          ELSE End(r)
    /\ UNCHANGED <<adjusted, cases>>

\* What the case still lacks of the balance the request has read.
Remaining(r) == cases[job[r].case].observed - job[r].current

\* The balance now, in a snapshot of its own; the wallet is not locked.
ReadCurrent(r) ==
    /\ job[r].at = "readCurrent"
    /\ LET now == PhysicalBalance(cases[job[r].case].wallet) IN
       job' = [job EXCEPT ![r].current = now,
                          ![r].at = IF cases[job[r].case].observed = now
                                    THEN "closeCase" ELSE "insertAdjustment"]
    /\ UNCHANGED <<adjusted, cases, locks>>

\* Mutants: the adjustment is committed before the case is closed, and its
\* table has no foreign key to the wallet.
InsertAdjustmentAtOnce(r) ==
    /\ job[r].at = "insertAdjustment"
    /\ LET w == cases[job[r].case].wallet IN
       /\ Grantable(locks, w, "KeyShare", r)
       /\ adjusted' = [adjusted EXCEPT ![w] = @ + Remaining(r)]
    /\ Continue(r, "closeCase")
    /\ UNCHANGED <<cases, locks>>
InsertAdjustmentUnreferenced(r) ==
    /\ job[r].at = "insertAdjustment"
    /\ Continue(r, "closeCase")
    /\ UNCHANGED <<adjusted, cases, locks>>

\* INSERT INTO balance_adjustments: its foreign key shares the wallet's row
\* until COMMIT, and the row itself stays invisible until then.
InsertAdjustment(r) ==
    /\ job[r].at = "insertAdjustment"
    /\ LET w == cases[job[r].case].wallet IN
       /\ Grantable(locks, w, "KeyShare", r)
       /\ locks' = locks \cup {Lock(w, "KeyShare", r)}
    /\ Continue(r, "closeCase")
    /\ UNCHANGED <<adjusted, cases>>

\* UPDATE wallet_reconciliations and COMMIT.
CloseCase(r) ==
    /\ job[r].at = "closeCase"
    /\ LET c == job[r].case
           w == cases[c].wallet
       IN  /\ cases' = [cases EXCEPT ![c].status = "reconciled",
                                     ![c].adjustment = Remaining(r)]
           /\ adjusted' = [adjusted EXCEPT ![w] = @ + Remaining(r)]
    /\ End(r)

\* The client hangs up or a statement fails: the deferred Rollback.
AbortJob(r) ==
    /\ job[r] # NoJob
    /\ End(r)
    /\ UNCHANGED <<adjusted, cases>>

JobStep(r) ==
    \/ ReadExpected(r)
    \/ InsertCase(r)
    \/ LockCase(r)
    \/ ReadCurrent(r)
    \/ InsertAdjustment(r)
    \/ CloseCase(r)

ReconciliationNext ==
    /\ UNCHANGED ledgerVars
    /\ \E r \in CaseRequests :
       \/ \E w \in Wallets, o \in Observed, c \in Cases : CreateReconciliation(r, w, o, c)
       \/ \E c \in Cases : ResolveReconciliation(r, c)
       \/ JobStep(r)
       \/ AbortJob(r)

CasesAndLedger == LedgerInit /\ ReconciliationInit /\ locks = {}

ReconciliationSpec ==
    /\ CasesAndLedger
    /\ [][ReconciliationNext \/ (LedgerNext /\ UNCHANGED caseVars)]_<<ledgerVars, caseVars, locks>>
-----------------------------------------------------------------------------
\* Every adjustment is some case's, and no case has two: a wallet's adjustments
\* add up to what its reconciled cases account for, whoever resolves the same
\* case at the same time or fails between the INSERT and the UPDATE
\* (reconciliation_service.go:91-127).
AdjustmentsAccounted ==
    \A w \in Wallets :
        LET its == {c \in Cases : cases[c] # NoCase /\ cases[c].wallet = w}
        IN  adjusted[w] = SumFunction([c \in its |-> cases[c].adjustment])

\* What was observed and expected is never rewritten, and a case that is
\* reconciled stays as it is (the FOR UPDATE and the status of line 91-96).
CasesSettleOnce ==
    [][\A c \in Cases : cases[c] # NoCase =>
          /\ cases'[c] # NoCase
          /\ [cases'[c] EXCEPT !.status = "", !.adjustment = 0]
                = [cases[c] EXCEPT !.status = "", !.adjustment = 0]
          /\ cases[c].status = "reconciled" => cases'[c] = cases[c]]_cases

\* ADR-008-wallet-reconciliation.md:57: a case becomes reconciled only when
\* nothing remains or an adjustment accounts for the difference, so that the
\* wallet then shows what was observed.
ReconcilesToObserved ==
    [][\A c \in Cases :
          cases[c].status = "unresolved" /\ cases'[c].status = "reconciled"
             => PhysicalBalance(cases[c].wallet)' = cases[c].observed]_cases
=============================================================================
