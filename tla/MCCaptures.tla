----------------------------- MODULE MCCaptures -----------------------------
(***************************************************************************)
(* Small instances of Captures: two requests that review and confirm one   *)
(* capture while a ledger request archives or spends its wallet.           *)
(***************************************************************************)
EXTENDS Captures, TLC

CONSTANTS w1, c1, v1, v2, r1, b1, b2

MCCurrency == [w \in Wallets |-> "IDR"]
MCBudgetCurrency == [b \in Budgets |-> IF b = b1 THEN "IDR" ELSE "USD"]
MCSymmetry == Permutations(InboxRequests)
=============================================================================
