--------------------------- MODULE HouseholdMoney ---------------------------
(***************************************************************************)
(* Ledger, goals and reconciliation of one household together: three sets  *)
(* of handlers that share the wallets, the sums and PostgreSQL's lock      *)
(* table.  A reservation holds its wallet FOR UPDATE; the foreign key of   *)
(* an adjustment shares it.                                                *)
(***************************************************************************)
EXTENDS GoalFunds, Reconciliation

ASSUME CasesAreRows == Cases \cap (Goals \cup Wallets) = {}
ASSUME CaseRequestsAreDistinct ==
    CaseRequests \cap (GoalRequests \cup LedgerRequests) = {}

moneyVars == <<ledgerVars, goalVars, caseVars, locks>>

MoneyInit == FundsInit /\ ReconciliationInit

MoneyNext ==
    \/ FundsNext /\ UNCHANGED caseVars
    \/ ReconciliationNext /\ UNCHANGED goalVars

MoneySpec == MoneyInit /\ [][MoneyNext]_moneyVars

TxRequests == GoalRequests \cup CaseRequests

\* As in GoalFunds: PostgreSQL serves those who wait for a row in turn.
GoOnWith(r) ==
    IF r \in GoalRequests
    THEN GoOn(r) /\ UNCHANGED caseVars
    ELSE JobStep(r) /\ UNCHANGED <<ledgerVars, goalVars>>

FairMoneySpec == MoneySpec /\ \A r \in TxRequests : SF_moneyVars(GoOnWith(r))
-----------------------------------------------------------------------------
\* Those request r waits for, whichever handler it runs.
WaitsAmongAll(r) ==
    IF r \in GoalRequests THEN WaitsFor(r)
    ELSE CASE job[r].at = "lockCase" -> Blockers(locks, job[r].case, "Update", r)
           [] job[r].at = "insertCase" -> Blockers(locks, job[r].wallet, "KeyShare", r)
           [] job[r].at = "insertAdjustment"
                -> Blockers(locks, cases[job[r].case].wallet, "KeyShare", r)
           [] OTHER -> {}

\* Nobody waits in a circle: goal before wallet, case before wallet, and no
\* transaction takes a row after its wallet (goal_service.go:107-115 and
\* reconciliation_service.go:91-118).
NoDeadlockAmongAll ==
    \A S \in (SUBSET TxRequests) \ {{}} : \E r \in S : WaitsAmongAll(r) \cap S = {}

\* Every reconciliation is answered whatever the goals do, and every goal
\* request once the reconciliations stop coming.  Not before: adjustments share
\* the wallet's row, so while they overlap without end the FOR UPDATE of a
\* reservation never gets it (goal_service.go:115 against
\* reconciliation_service.go:118).
EveryRequestEnds ==
    /\ \A r \in CaseRequests : job[r] # NoJob ~> job[r] = NoJob
    /\ (\A r \in CaseRequests : <>[](job[r] = NoJob)) => EveryTaskEnds

\* While a reservation or a release holds a wallet no adjustment of that wallet
\* becomes visible: what it reads of the wallet is one state of it, although
\* resolving a case never asks for the wallet's lock itself
\* (goal_service.go:115 against reconciliation_service.go:118).
AdjustmentsWaitForReservations ==
    [][\A r \in GoalRequests :
          HasWallet(r) => adjusted'[task[r].wallet] = adjusted[task[r].wallet]]_adjusted

\* data-model.md:226: available = physical balance - reserved, and a new
\* reservation cannot exceed it.
ReservationsFitPhysical ==
    [][\A w \in Wallets : held'[w] > held[w]
          => held'[w] <= PhysicalBalance(w)']_held
=============================================================================
