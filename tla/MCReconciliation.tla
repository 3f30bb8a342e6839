-------------------------- MODULE MCReconciliation --------------------------
(***************************************************************************)
(* Small instances of Reconciliation: requests that resolve the same case, *)
(* or two cases of one wallet, while a ledger request spends it.           *)
(***************************************************************************)
EXTENDS Reconciliation, TLC

CONSTANTS w1, q1, q2, c1, c2, r1

MCCurrency == [w \in Wallets |-> "IDR"]
MCSymmetry == Permutations(CaseRequests) \cup Permutations(Cases)
=============================================================================
