-------------------------- MODULE MCHouseholdMoney --------------------------
(***************************************************************************)
(* Small instances of HouseholdMoney: one wallet that a goal reserves and  *)
(* that cases adjust at the same time.                                     *)
(***************************************************************************)
EXTENDS HouseholdMoney, TLC

CONSTANTS w1, g1, p1, q1, q2, c1, c2

MCCurrency == [w \in Wallets |-> "IDR"]
MCGoalCurrency == [g \in Goals |-> "IDR"]

\* A household with its wallets and goals, and LedgerBound units in each.
OpenedInit ==
    /\ status = [w \in Wallets |-> "active"]
    /\ details \in [Wallets -> Details]
    /\ archivedAt = [w \in Wallets |-> NoTime]
    /\ posted = [w \in Wallets |-> LedgerBound]
    /\ moved = [w \in Wallets |-> 0]
    /\ call = [r \in LedgerRequests |-> Idle]
    /\ goalStatus = [g \in Goals |-> "active"]
    /\ target \in [Goals -> Targets]
    /\ reserved = [g \in Goals |-> [w \in Wallets |-> 0]]
    /\ held = [w \in Wallets |-> 0]
    /\ task = [r \in GoalRequests |-> NoTask]
    /\ locks = {}
    /\ ReconciliationInit

OpenedSpec == OpenedInit /\ [][MoneyNext]_moneyVars
OpenedFairSpec == OpenedSpec /\ \A r \in TxRequests : SF_moneyVars(GoOnWith(r))
=============================================================================
