---------------------------- MODULE MCGoalFunds -----------------------------
(***************************************************************************)
(* Small instances of GoalFunds: goals that want the money of the same     *)
(* wallet while a ledger request spends it or archives the wallet.         *)
(***************************************************************************)
EXTENDS GoalFunds, TLC

CONSTANTS w1, w2, g1, g2, p1, p2, r1

MCCurrency == [w \in Wallets |-> IF w = w2 THEN "USD" ELSE "IDR"]
MCGoalCurrency == [g \in Goals |-> "IDR"]
MCSymmetry == Permutations(Goals) \cup Permutations(GoalRequests)
=============================================================================
